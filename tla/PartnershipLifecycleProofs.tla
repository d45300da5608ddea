--------------------- MODULE PartnershipLifecycleProofs ---------------------
(***************************************************************************)
(* Theorems of PartnershipLifecycle, for every set of accounts and         *)
(* partnerships and every length of the windows.                           *)
(***************************************************************************)
EXTENDS PartnershipLifecycle, TLAPS

LEMMA TxTimesNat == ASSUME RowTypes PROVE TxTimes \subseteq Nat
BY BoundsAssumption DEF RowTypes, TxTimes

\* The row after a change of state is a row.
LEMMA MovedType ==
    ASSUME RowTypes, NEW p \in Partnerships, NEW state \in LifecycleState
    PROVE  Moved(p, state) \in [Partnerships -> PartnershipRow]
<1> DEFINE once == [partnership EXCEPT ![p].state = state]
<1>1. once \in [Partnerships -> PartnershipRow]
  BY DEF RowTypes, PartnershipRow
<1>2. Moved(p, state) = [once EXCEPT ![p].generation = partnership[p].generation + 1]
  BY DEF Moved, RowTypes, PartnershipRow
<1>3. partnership[p].generation + 1 \in Nat
  BY DEF RowTypes, PartnershipRow
<1> HIDE DEF once
<1> QED
  BY <1>1, <1>2, <1>3 DEF PartnershipRow

LEMMA FinalizerType ==
    ASSUME NEW p \in Partnerships, NEW row \in BreakupRow
    PROVE  FinalizerFor(p, row) \in BreakupJob
BY DEF FinalizerFor, BreakupRow, BreakupJob, JobStatus

LEMMA NoBreakupType == NoBreakup \in BreakupRow
BY DEF NoBreakup, BreakupRow

LEMMA InitType == Init => RowTypes
<1> SUFFICES ASSUME Init PROVE RowTypes
  OBVIOUS
<1>1. NoPartnership \in PartnershipRow
  BY DEF NoPartnership, PartnershipRow, LifecycleState, TerminationReason
<1>2. NoDeletion(0) \in DeletionRow /\ NoCooldown \in CooldownRow
  BY DEF NoDeletion, DeletionRow, NoCooldown, CooldownRow
<1> QED
  BY <1>1, <1>2, NoBreakupType DEF Init, RowTypes, AccountStatus

\* The API's handlers.
LEMMA FormType ==
    ASSUME RowTypes, NEW p \in Partnerships, NEW a \in Accounts, NEW b \in Accounts,
           NEW now \in TxTimes, FormPartnership(p, a, b, now)
    PROVE  RowTypes'
<1> USE DEF RowTypes
<1>1. now \in Nat
  BY TxTimesNat
<1>2. partnership' \in [Partnerships -> PartnershipRow]
  BY <1>1 DEF FormPartnership, NoPartnership, PartnershipRow, LifecycleState, TerminationReason
<1>3. slots' \in [Accounts -> SUBSET Partnerships]
  BY DEF FormPartnership
<1>4. cooldown' \in [Accounts -> CooldownRow]
  BY DEF FormPartnership, ResolvedCooldown, NoCooldown, CooldownRow
<1> QED
  BY <1>2, <1>3, <1>4 DEF FormPartnership, jobVars

LEMMA InitiateType ==
    ASSUME RowTypes, NEW p \in Partnerships, NEW a \in Accounts,
           NEW now \in TxTimes, InitiateBreakup(p, a, now)
    PROVE  RowTypes'
<1> DEFINE g   == partnership[p].generation + 1
           row == [open |-> TRUE, process |-> g, initiator |-> a, visible |-> clock,
                   initiatedAt |-> now, finalDeadline |-> now + BaseWindow, generation |-> g,
                   intents |-> {}]
<1>1. now \in Nat /\ g \in Nat
  BY TxTimesNat DEF RowTypes, PartnershipRow
<1>2. row \in BreakupRow
  BY <1>1, WindowsAssumption DEF RowTypes, BreakupRow
<1>3. partnership' \in [Partnerships -> PartnershipRow]
  BY MovedType DEF InitiateBreakup, LifecycleState
<1>4. breakup' \in [Partnerships -> BreakupRow]
  BY <1>2 DEF InitiateBreakup, RowTypes
<1>5. breakupJobs' \subseteq BreakupJob
  BY <1>2, FinalizerType DEF InitiateBreakup, RowTypes
<1> QED
  BY <1>3, <1>4, <1>5 DEF InitiateBreakup, RowTypes

LEMMA CancelType ==
    ASSUME RowTypes, NEW p \in Partnerships, NEW a \in Accounts, NEW now \in TxTimes,
           CancelBreakup(p, a, now) \/ SubmitSecondIntent(p, a, now)
    PROVE  RowTypes'
<1>1. partnership' \in [Partnerships -> PartnershipRow]
  BY MovedType DEF CancelBreakup, SubmitSecondIntent, LifecycleState
<1>2. breakup' \in [Partnerships -> BreakupRow]
  BY NoBreakupType DEF CancelBreakup, SubmitSecondIntent, RowTypes
<1>3. breakupJobs' \subseteq BreakupJob
  BY DEF CancelBreakup, SubmitSecondIntent, WithoutPendingFinalizers, RowTypes
<1> QED
  BY <1>1, <1>2, <1>3 DEF CancelBreakup, SubmitSecondIntent, RowTypes

LEMMA FirstIntentType ==
    ASSUME RowTypes, NEW p \in Partnerships, NEW a \in Accounts,
           NEW now \in TxTimes, SubmitFirstIntent(p, a, now)
    PROVE  RowTypes'
<1> DEFINE row == [breakup[p] EXCEPT !.finalDeadline = breakup[p].initiatedAt + ExtendedWindow,
                                     !.generation = @ + 1,
                                     !.intents = {a}]
<1>1. /\ breakup[p] \in BreakupRow
      /\ breakup[p].initiatedAt + ExtendedWindow \in Nat
      /\ breakup[p].generation + 1 \in Nat
  BY WindowsAssumption DEF RowTypes, BreakupRow
<1>2. row \in BreakupRow
  <2> DEFINE later == [breakup[p] EXCEPT !.finalDeadline = breakup[p].initiatedAt + ExtendedWindow]
             newer == [later EXCEPT !.generation = breakup[p].generation + 1]
  <2>1. later \in BreakupRow /\ newer \in BreakupRow
    BY <1>1 DEF BreakupRow
  <2>2. row = [newer EXCEPT !.intents = {a}]
    BY <1>1 DEF BreakupRow
  <2>3. {a} \in SUBSET Accounts
    OBVIOUS
  <2> HIDE DEF newer
  <2> QED
    BY <2>1, <2>2, <2>3 DEF BreakupRow
<1>3. partnership' \in [Partnerships -> PartnershipRow]
  BY MovedType DEF SubmitFirstIntent, LifecycleState
<1>4. breakup' \in [Partnerships -> BreakupRow]
  BY <1>2 DEF SubmitFirstIntent, RowTypes
<1>5. breakupJobs' \subseteq BreakupJob
  BY <1>2, FinalizerType DEF SubmitFirstIntent, WithoutPendingFinalizers, RowTypes
<1> QED
  BY <1>3, <1>4, <1>5 DEF SubmitFirstIntent, RowTypes

LEMMA RequestDeletionType ==
    ASSUME RowTypes, NEW a \in Accounts, NEW now \in TxTimes, RequestDeletion(a, now)
    PROVE  RowTypes'
<1> DEFINE g   == deletion[a].generation + 1
           end == now + RecoveryWindow
<1>1. now \in Nat /\ g \in Nat /\ end \in Nat
  BY TxTimesNat, WindowsAssumption DEF RowTypes, DeletionRow
<1>2. deletion' \in [Accounts -> DeletionRow]
  BY <1>1 DEF RequestDeletion, RowTypes, DeletionRow
<1>3. accountJobs' \subseteq AccountJob
  BY <1>1 DEF RequestDeletion, RowTypes, AccountJob, JobStatus
<1> QED
  BY <1>2, <1>3 DEF RequestDeletion, RowTypes, AccountStatus

LEMMA RecoverType ==
    ASSUME RowTypes, NEW a \in Accounts, NEW now \in TxTimes, RecoverAccount(a, now)
    PROVE  RowTypes'
BY DEF RecoverAccount, RowTypes, AccountStatus, NoDeletion, DeletionRow, jobVars

LEMMA BlockType ==
    ASSUME RowTypes, NEW p \in Partnerships, NEW a \in Accounts,
           UnblockFormerPartner(p, a) \/ \E b \in Accounts : BlockFormerPartner(p, a, b)
    PROVE  RowTypes'
BY DEF BlockFormerPartner, UnblockFormerPartner, RowTypes, BlockRow, jobVars

\* The worker's handlers.
LEMMA ClaimType ==
    ASSUME RowTypes, NEW j \in breakupJobs,
           ClaimBreakupJob(j) \/ RetryBreakupJob(j)
    PROVE  RowTypes'
BY DEF ClaimBreakupJob, RetryBreakupJob, RowTypes, BreakupJob, JobStatus, rowVars

LEMMA ClaimAccountType ==
    ASSUME RowTypes, NEW j \in accountJobs,
           ClaimAccountJob(j) \/ RetryAccountJob(j)
    PROVE  RowTypes'
BY DEF ClaimAccountJob, RetryAccountJob, RowTypes, AccountJob, JobStatus, rowVars

LEMMA DissolveType ==
    ASSUME RowTypes, NEW p \in Partnerships, NEW why \in TerminationReason, NEW at \in Nat,
           NEW leaving, Dissolve(p, why, at, leaving)
    PROVE  /\ partnership' \in [Partnerships -> PartnershipRow]
           /\ slots' \in [Accounts -> SUBSET Partnerships]
           /\ breakup' \in [Partnerships -> BreakupRow]
           /\ cooldown' \in [Accounts -> CooldownRow]
<1>1. at + CooldownLength(why) \in Nat
  BY WindowsAssumption DEF CooldownLength
<1>2. Moved(p, "terminated") \in [Partnerships -> PartnershipRow]
  BY MovedType DEF LifecycleState
<1>3. partnership' \in [Partnerships -> PartnershipRow]
  <2> DEFINE moved == Moved(p, "terminated")
             ended == [moved EXCEPT ![p].terminatedAt = at]
  <2>1. ended \in [Partnerships -> PartnershipRow]
    BY <1>2 DEF PartnershipRow
  <2>2. partnership' = [ended EXCEPT ![p].reason = why]
    BY <1>2 DEF Dissolve, TerminateRows, PartnershipRow
  <2> HIDE DEF ended
  <2> QED
    BY <2>1, <2>2 DEF PartnershipRow
<1>4. slots' \in [Accounts -> SUBSET Partnerships]
  BY DEF Dissolve, TerminateRows, RowTypes
<1>5. breakup' \in [Partnerships -> BreakupRow]
  BY NoBreakupType DEF Dissolve, CloseBreakup, RowTypes
<1>6. \A a \in Accounts : ResolvedCooldown(a, at) \in CooldownRow
  BY DEF ResolvedCooldown, NoCooldown, CooldownRow, RowTypes
<1>7. cooldown' \in [Accounts -> CooldownRow]
  BY <1>1, <1>6 DEF Dissolve, InsertCooldowns, CooldownRow, RowTypes
<1> QED
  BY <1>3, <1>4, <1>5, <1>7

LEMMA BreakupWorkerType ==
    ASSUME RowTypes, NEW j \in breakupJobs, BreakupWorkerStep(j)
    PROVE  RowTypes'
<1>1. j.partnership \in Partnerships
  BY DEF RowTypes, BreakupJob
<1>2. CASE DropStaleBreakupJob(j) \/ \E now \in TxTimes : YieldToDeletion(j, now)
  BY <1>2 DEF DropStaleBreakupJob, YieldToDeletion, RowTypes, rowVars
<1>3. CASE \E now \in TxTimes : FinalizeBreakup(j, now)
  <2> DEFINE p == j.partnership
  <2>1. breakup[p].finalDeadline \in Nat
    BY <1>1 DEF RowTypes, BreakupRow
  <2>2. Dissolve(p, "breakup", breakup[p].finalDeadline, NoAccount)
    BY <1>3 DEF FinalizeBreakup
  <2>3. breakupJobs' \subseteq BreakupJob
    BY <1>3 DEF FinalizeBreakup, WithoutPendingFinalizers, RowTypes
  <2> QED
    BY <1>1, <1>3, <2>1, <2>2, <2>3, DissolveType DEF FinalizeBreakup, RowTypes, TerminationReason
<1> QED
  BY <1>2, <1>3 DEF BreakupWorkerStep

LEMMA ErasedType ==
    ASSUME RowTypes, NEW a \in Accounts, AccountErased(a)
    PROVE  account' \in [Accounts -> AccountStatus] /\ deletion' \in [Accounts -> DeletionRow]
BY DEF AccountErased, RowTypes, AccountStatus, NoDeletion, DeletionRow

LEMMA AccountWorkerType ==
    ASSUME RowTypes, NEW j \in accountJobs, AccountWorkerStep(j)
    PROVE  RowTypes'
<1> DEFINE a == j.account
<1>1. a \in Accounts /\ deletion[a].recoverUntil \in Nat
  BY DEF RowTypes, AccountJob, DeletionRow
<1>2. CASE DropStaleAccountJob(j)
  BY <1>2 DEF DropStaleAccountJob, RowTypes, rowVars
<1>3. CASE \E now \in TxTimes : FinalizeSingleAccount(j, now)
  BY <1>1, <1>3, ErasedType DEF FinalizeSingleAccount, RowTypes
<1>4. CASE \E p \in Partnerships, now \in TxTimes : FinalizePartneredAccount(j, p, now)
  <2>1. PICK p \in Partnerships, now \in TxTimes : FinalizePartneredAccount(j, p, now)
    BY <1>4
  <2>2. breakup[p].finalDeadline \in Nat
    BY DEF RowTypes, BreakupRow
  <2>3. \/ Dissolve(p, "breakup", breakup[p].finalDeadline, NoAccount)
        \/ Dissolve(p, "partner_account_deleted", deletion[a].recoverUntil, a)
    BY <2>1 DEF FinalizePartneredAccount
  <2>4. breakupJobs' \subseteq BreakupJob
    BY <2>1 DEF FinalizePartneredAccount, WithoutPendingFinalizers, RowTypes
  <2>5. /\ partnership' \in [Partnerships -> PartnershipRow]
        /\ slots' \in [Accounts -> SUBSET Partnerships]
        /\ breakup' \in [Partnerships -> BreakupRow]
        /\ cooldown' \in [Accounts -> CooldownRow]
    BY <1>1, <2>2, <2>3, DissolveType DEF TerminationReason
  <2>6. accountJobs' \subseteq AccountJob
    BY <2>1 DEF FinalizePartneredAccount, RowTypes
  <2> QED
    BY <1>1, <2>1, <2>4, <2>5, <2>6, ErasedType DEF FinalizePartneredAccount, RowTypes
<1> QED
  BY <1>2, <1>3, <1>4 DEF AccountWorkerStep

LEMMA StepType == RowTypes /\ [Next]_vars => RowTypes'
<1> SUFFICES ASSUME RowTypes, [Next]_vars PROVE RowTypes'
  OBVIOUS
<1>1. CASE Tick
  BY <1>1 DEF Tick, RowTypes, rowVars, jobVars
<1>2. CASE ApiStep
  BY <1>2, FormType, InitiateType, CancelType, FirstIntentType, RequestDeletionType, RecoverType,
     BlockType DEF ApiStep
<1>3. CASE \E j \in breakupJobs : ClaimBreakupJob(j) \/ RetryBreakupJob(j) \/ BreakupWorkerStep(j)
  BY <1>3, ClaimType, BreakupWorkerType
<1>4. CASE \E j \in accountJobs : ClaimAccountJob(j) \/ RetryAccountJob(j) \/ AccountWorkerStep(j)
  BY <1>4, ClaimAccountType, AccountWorkerType
<1>5. CASE UNCHANGED vars
  BY <1>5 DEF vars, rowVars, jobVars, RowTypes
<1> QED
  BY <1>1, <1>2, <1>3, <1>4, <1>5 DEF Next

-----------------------------------------------------------------------------
(* The constraints of the tables.                                           *)

LEMMA ChecksInit == Init => TableChecks
BY DEF Init, TableChecks, NoPartnership, NoBreakup

\* What a step leaves alone of the three tables.
LEMMA ChecksKept ==
    ASSUME TableChecks, UNCHANGED <<partnership, breakup, blocks>>
    PROVE  TableChecks'
BY DEF TableChecks

LEMMA FormChecks ==
    ASSUME RowTypes, TableChecks, NEW p \in Partnerships, NEW a \in Accounts, NEW b \in Accounts,
           NEW now \in TxTimes, FormPartnership(p, a, b, now)
    PROVE  TableChecks'
<1>1. /\ partnership'[p].state = "active" /\ partnership'[p].reason = "none"
      /\ \A q \in Partnerships \ {p} : partnership'[q] = partnership[q]
      /\ breakup' = breakup /\ blocks' = blocks
  <2> DEFINE row == [NoPartnership EXCEPT !.state = "active", !.members = {a, b}, !.generation = 1,
                                          !.visible = clock, !.activatedAt = now]
  <2>1. row.state = "active" /\ row.reason = "none"
    BY DEF NoPartnership
  <2>2. /\ partnership' = [partnership EXCEPT ![p] = row]
        /\ breakup' = breakup /\ blocks' = blocks
    BY DEF FormPartnership
  <2> HIDE DEF row
  <2> QED
    BY <2>1, <2>2 DEF RowTypes
<1>2. ~ breakup[p].open
  BY DEF FormPartnership, TableChecks
<1> QED
  BY <1>1, <1>2 DEF TableChecks

\* A change of state of one partnership, with what its breakup becomes.
LEMMA MovedChecks ==
    ASSUME RowTypes, TableChecks, NEW p \in Partnerships, NEW row \in BreakupRow,
           NEW state \in {"active", "breakup_pending"},
           partnership[p].state # "terminated", partnership' = Moved(p, state),
           breakup' = [breakup EXCEPT ![p] = row], blocks' = blocks,
           row.open => /\ row.initiator \in partnership[p].members
                       /\ row.intents \subseteq partnership[p].members
    PROVE  TableChecks'
<1>1. /\ partnership'[p].state = state /\ partnership'[p].reason = partnership[p].reason
      /\ partnership'[p].members = partnership[p].members
      /\ \A q \in Partnerships \ {p} : partnership'[q] = partnership[q]
  BY DEF Moved, RowTypes, PartnershipRow
<1>2. breakup'[p] = row /\ \A q \in Partnerships \ {p} : breakup'[q] = breakup[q]
  BY DEF RowTypes
<1> QED
  BY <1>1, <1>2 DEF TableChecks

LEMMA InitiateChecks ==
    ASSUME RowTypes, TableChecks, NEW p \in Partnerships, NEW a \in Accounts,
           NEW now \in TxTimes, InitiateBreakup(p, a, now)
    PROVE  TableChecks'
<1> DEFINE g   == partnership[p].generation + 1
           row == [open |-> TRUE, process |-> g, initiator |-> a, visible |-> clock,
                   initiatedAt |-> now, finalDeadline |-> now + BaseWindow, generation |-> g,
                   intents |-> {}]
<1>1. row \in BreakupRow
  BY TxTimesNat, WindowsAssumption DEF RowTypes, BreakupRow, PartnershipRow
<1>2. a \in partnership[p].members /\ partnership[p].state = "active"
  BY DEF InitiateBreakup, MayInitiate, Unlocked
<1>3. /\ partnership' = Moved(p, "breakup_pending") /\ breakup' = [breakup EXCEPT ![p] = row]
      /\ blocks' = blocks
  BY DEF InitiateBreakup
<1>4. row.open => row.initiator \in partnership[p].members /\ row.intents \subseteq partnership[p].members
  BY <1>2
<1> HIDE DEF row
<1> QED
  BY <1>1, <1>2, <1>3, <1>4, MovedChecks

LEMMA RestoreChecks ==
    ASSUME RowTypes, TableChecks, NEW p \in Partnerships, NEW a \in Accounts, NEW now \in TxTimes,
           CancelBreakup(p, a, now) \/ SubmitSecondIntent(p, a, now)
    PROVE  TableChecks'
<1>1. /\ partnership[p].state = "breakup_pending" /\ partnership' = Moved(p, "active")
      /\ breakup' = [breakup EXCEPT ![p] = NoBreakup] /\ blocks' = blocks
  BY DEF CancelBreakup, SubmitSecondIntent, MayCancel, MaySubmitIntent
<1>2. ~ NoBreakup.open
  BY DEF NoBreakup
<1> QED
  BY <1>1, <1>2, NoBreakupType, MovedChecks

LEMMA FirstIntentChecks ==
    ASSUME RowTypes, TableChecks, NEW p \in Partnerships, NEW a \in Accounts,
           NEW now \in TxTimes, SubmitFirstIntent(p, a, now)
    PROVE  TableChecks'
<1>1. /\ partnership[p].state = "breakup_pending" /\ partnership' = Moved(p, "breakup_pending")
      /\ breakup[p].open /\ a \in partnership[p].members /\ blocks' = blocks
  BY DEF SubmitFirstIntent, MaySubmitIntent, Unlocked
<1>2. /\ \A q \in Partnerships \ {p} : breakup'[q] = breakup[q]
      /\ breakup'[p].initiator = breakup[p].initiator /\ breakup'[p].intents = {a}
  BY DEF SubmitFirstIntent, RowTypes, BreakupRow
<1>3. /\ partnership'[p].state = "breakup_pending" /\ partnership'[p].reason = partnership[p].reason
      /\ partnership'[p].members = partnership[p].members
      /\ \A q \in Partnerships \ {p} : partnership'[q] = partnership[q]
  BY <1>1 DEF Moved, RowTypes, PartnershipRow
<1> QED
  BY <1>1, <1>2, <1>3 DEF TableChecks

LEMMA BlockChecks ==
    ASSUME TableChecks, NEW p \in Partnerships, NEW a \in Accounts,
           UnblockFormerPartner(p, a) \/ \E b \in Accounts : BlockFormerPartner(p, a, b)
    PROVE  TableChecks'
BY DEF BlockFormerPartner, UnblockFormerPartner, TableChecks

LEMMA DissolveChecks ==
    ASSUME RowTypes, TableChecks, NEW p \in Partnerships, NEW at, NEW leaving,
           NEW why \in {"breakup", "partner_account_deleted"}, Dissolve(p, why, at, leaving),
           blocks' = blocks
    PROVE  TableChecks'
<1>1. /\ partnership'[p].state = "terminated" /\ partnership'[p].reason = why
      /\ \A q \in Partnerships \ {p} : partnership'[q] = partnership[q]
  BY DEF Dissolve, TerminateRows, Moved, RowTypes, PartnershipRow
<1>2. ~ breakup'[p].open /\ \A q \in Partnerships \ {p} : breakup'[q] = breakup[q]
  BY DEF Dissolve, CloseBreakup, NoBreakup, RowTypes
<1> QED
  BY <1>1, <1>2 DEF TableChecks

LEMMA WorkerChecks ==
    ASSUME RowTypes, TableChecks,
           \/ \E j \in breakupJobs : ClaimBreakupJob(j) \/ RetryBreakupJob(j) \/ BreakupWorkerStep(j)
           \/ \E j \in accountJobs : ClaimAccountJob(j) \/ RetryAccountJob(j) \/ AccountWorkerStep(j)
    PROVE  TableChecks'
<1>1. ASSUME NEW j \in breakupJobs, NEW now \in TxTimes, FinalizeBreakup(j, now)
      PROVE  TableChecks'
  <2>1. j.partnership \in Partnerships
    BY DEF RowTypes, BreakupJob
  <2> QED
    BY <1>1, <2>1, DissolveChecks DEF FinalizeBreakup
<1>2. ASSUME NEW j \in accountJobs, NEW p \in Partnerships, NEW now \in TxTimes,
             FinalizePartneredAccount(j, p, now)
      PROVE  TableChecks'
  BY <1>2, DissolveChecks DEF FinalizePartneredAccount
<1>3. CASE \E j \in breakupJobs : ClaimBreakupJob(j) \/ RetryBreakupJob(j) \/ BreakupWorkerStep(j)
  BY <1>1, <1>3, ChecksKept DEF ClaimBreakupJob, RetryBreakupJob, BreakupWorkerStep,
     DropStaleBreakupJob, YieldToDeletion, rowVars
<1>4. CASE \E j \in accountJobs : ClaimAccountJob(j) \/ RetryAccountJob(j) \/ AccountWorkerStep(j)
  BY <1>2, <1>4, ChecksKept DEF ClaimAccountJob, RetryAccountJob, AccountWorkerStep,
     DropStaleAccountJob, FinalizeSingleAccount, rowVars
<1> QED
  BY <1>3, <1>4

LEMMA ChecksStep == RowTypes /\ TableChecks /\ [Next]_vars => TableChecks'
<1> SUFFICES ASSUME RowTypes, TableChecks, [Next]_vars PROVE TableChecks'
  OBVIOUS
<1>1. CASE Tick \/ UNCHANGED vars
  BY <1>1, ChecksKept DEF Tick, vars, rowVars
<1>2. CASE ApiStep
  <2>1. ASSUME NEW a \in Accounts, NEW now \in TxTimes, RequestDeletion(a, now) \/ RecoverAccount(a, now)
        PROVE  TableChecks'
    BY <2>1, ChecksKept DEF RequestDeletion, RecoverAccount
  <2> QED
    BY <1>2, <2>1, FormChecks, InitiateChecks, RestoreChecks, FirstIntentChecks, BlockChecks DEF ApiStep
<1> QED
  BY <1>1, <1>2, WorkerChecks DEF Next

\* Every row keeps the types its table declares and meets the table's constraints,
\* whatever handlers and workers interleave.
THEOREM TypeCorrect == Spec => []TypeOK
<1>1. Init => TypeOK
  BY InitType, ChecksInit DEF TypeOK
<1>2. TypeOK /\ [Next]_vars => TypeOK'
  BY StepType, ChecksStep DEF TypeOK
<1> QED
  BY <1>1, <1>2, PTL DEF Spec

LEMMA RowsTyped == Spec => []RowTypes
BY InitType, StepType, PTL DEF Spec

-----------------------------------------------------------------------------
(* What the steps do to a partnership, its slots and its breakup: one of    *)
(* four things.                                                             *)

Forms(p, a, b) ==
    /\ a # b /\ slots[a] = {} /\ slots[b] = {}
    /\ ~ BlockedPair(a, b)
    /\ partnership[p].state = "none"
    /\ partnership'[p].state = "active" /\ partnership'[p].members = {a, b}
    /\ partnership'[p].generation = 1 /\ partnership'[p].reason = "none"
    /\ partnership'[p].visible = clock
    /\ LET now == partnership'[p].activatedAt IN
          /\ now \in TxTimes /\ Eligible(a, now) /\ Eligible(b, now)
          /\ cooldown' = [cooldown EXCEPT ![a] = ResolvedCooldown(a, now),
                                          ![b] = ResolvedCooldown(b, now)]
    /\ \A q \in Partnerships \ {p} : partnership'[q] = partnership[q]
    /\ account' = account /\ deletion' = deletion
    /\ slots' = [slots EXCEPT ![a] = @ \cup {p}, ![b] = @ \cup {p}]
    /\ breakup' = breakup /\ blocks' = blocks

\* What a change of state keeps of the row, under the next generation.
RowKept(p) ==
    /\ partnership'[p].members = partnership[p].members
    /\ partnership'[p].generation = partnership[p].generation + 1
    /\ partnership'[p].visible = partnership[p].visible
    /\ partnership'[p].activatedAt = partnership[p].activatedAt
    /\ partnership'[p].state # "terminated" => partnership'[p].reason = partnership[p].reason

Moves(p) ==
    /\ Overlays(p) = {}
    /\ Live(p) /\ partnership'[p].state \in {"active", "breakup_pending"}
    /\ RowKept(p)
    /\ breakup'[p].open =>
          \/ partnership[p].visible <= breakup'[p].initiatedAt
          \/ breakup[p].open /\ breakup'[p].initiatedAt = breakup[p].initiatedAt
    /\ \A q \in Partnerships \ {p} : partnership'[q] = partnership[q] /\ breakup'[q] = breakup[q]
    /\ slots' = slots
    /\ blocks' = blocks
    /\ deletion' = deletion
    /\ cooldown' = cooldown

Ends(p) ==
    /\ Live(p) /\ partnership'[p].state = "terminated"
    /\ RowKept(p)
    /\ \A q \in Partnerships \ {p} : partnership'[q] = partnership[q] /\ breakup'[q] = breakup[q]
    /\ slots' = [a \in Accounts |-> slots[a] \ {p}]
    /\ \A a \in Accounts \ partnership[p].members : cooldown'[a] = cooldown[a]
    /\ breakup'[p] = NoBreakup
    /\ blocks' = blocks

Leaves ==
    /\ partnership' = partnership /\ slots' = slots /\ breakup' = breakup
    /\ cooldown' = cooldown

LEMMA MovedEffect ==
    ASSUME RowTypes, NEW p \in Partnerships, NEW state
    PROVE  /\ Moved(p, state)[p].state = state
           /\ Moved(p, state)[p].members = partnership[p].members
           /\ Moved(p, state)[p].generation = partnership[p].generation + 1
           /\ Moved(p, state)[p].visible = partnership[p].visible
           /\ Moved(p, state)[p].activatedAt = partnership[p].activatedAt
           /\ Moved(p, state)[p].reason = partnership[p].reason
           /\ \A q \in Partnerships \ {p} : Moved(p, state)[q] = partnership[q]
BY DEF RowTypes, Moved, PartnershipRow

LEMMA DissolveEnds ==
    ASSUME RowTypes, NEW p \in Partnerships, NEW why, NEW at, NEW leaving,
           Dissolve(p, why, at, leaving), blocks' = blocks
    PROVE  Ends(p) /\ partnership'[p].terminatedAt = at /\ partnership'[p].reason = why
<1> DEFINE moved == Moved(p, "terminated")
<1>1. /\ moved \in [Partnerships -> PartnershipRow]
      /\ moved[p].members = partnership[p].members
      /\ moved[p].state = "terminated"
      /\ moved[p].generation = partnership[p].generation + 1
      /\ moved[p].visible = partnership[p].visible
      /\ moved[p].activatedAt = partnership[p].activatedAt
      /\ \A q \in Partnerships \ {p} : moved[q] = partnership[q]
  BY MovedType, MovedEffect DEF LifecycleState
<1>2. partnership' = [moved EXCEPT ![p].terminatedAt = at, ![p].reason = why]
  BY DEF Dissolve, TerminateRows
<1> HIDE DEF moved
<1>3. /\ partnership'[p].state = "terminated" /\ RowKept(p)
      /\ partnership'[p].terminatedAt = at /\ partnership'[p].reason = why
      /\ \A q \in Partnerships \ {p} : partnership'[q] = partnership[q]
  BY <1>1, <1>2 DEF PartnershipRow, RowKept
<1>4. breakup'[p] = NoBreakup /\ \A q \in Partnerships \ {p} : breakup'[q] = breakup[q]
  BY DEF Dissolve, CloseBreakup, RowTypes
<1>5. \A a \in Accounts \ partnership[p].members : cooldown'[a] = cooldown[a]
  BY DEF Dissolve, InsertCooldowns, Cooled
<1> QED
  BY <1>3, <1>4, <1>5 DEF Dissolve, TerminateRows, Ends

LEMMA FormForms ==
    ASSUME RowTypes, NEW p \in Partnerships, NEW a \in Accounts, NEW b \in Accounts,
           NEW now \in TxTimes, FormPartnership(p, a, b, now)
    PROVE  Forms(p, a, b)
<1>1. /\ partnership'[p].state = "active" /\ partnership'[p].members = {a, b}
      /\ partnership'[p].generation = 1 /\ partnership'[p].reason = "none"
      /\ partnership'[p].visible = clock /\ partnership'[p].activatedAt = now
      /\ \A q \in Partnerships \ {p} : partnership'[q] = partnership[q]
  BY DEF FormPartnership, RowTypes, NoPartnership
<1> QED
  BY <1>1 DEF FormPartnership, Forms, Eligible

LEMMA MoveMoves ==
    ASSUME RowTypes, NEW p \in Partnerships, NEW a \in Accounts, NEW now \in TxTimes,
           \/ InitiateBreakup(p, a, now) \/ CancelBreakup(p, a, now)
           \/ SubmitFirstIntent(p, a, now) \/ SubmitSecondIntent(p, a, now)
    PROVE  Moves(p)
<1>1. /\ Live(p) /\ Overlays(p) = {}
      /\ \E state \in {"active", "breakup_pending"} : partnership' = Moved(p, state)
      /\ slots' = slots /\ blocks' = blocks /\ deletion' = deletion /\ cooldown' = cooldown
  BY DEF InitiateBreakup, CancelBreakup, SubmitFirstIntent, SubmitSecondIntent,
     MayInitiate, MayCancel, MaySubmitIntent, Unlocked, Live
<1>2. \A q \in Partnerships \ {p} : breakup'[q] = breakup[q]
  BY DEF InitiateBreakup, CancelBreakup, SubmitFirstIntent, SubmitSecondIntent, RowTypes
<1>3. breakup'[p].open =>
          \/ partnership[p].visible <= breakup'[p].initiatedAt
          \/ breakup[p].open /\ breakup'[p].initiatedAt = breakup[p].initiatedAt
  <2>1. CASE InitiateBreakup(p, a, now)
    BY <2>1 DEF InitiateBreakup, RowTypes
  <2>2. CASE CancelBreakup(p, a, now) \/ SubmitSecondIntent(p, a, now)
    BY <2>2 DEF CancelBreakup, SubmitSecondIntent, NoBreakup, RowTypes
  <2>3. CASE SubmitFirstIntent(p, a, now)
    BY <2>3 DEF SubmitFirstIntent, MaySubmitIntent, RowTypes, BreakupRow
  <2> QED
    BY <2>1, <2>2, <2>3
<1> QED
  BY <1>1, <1>2, <1>3, MovedEffect DEF Moves, RowKept

LEMMA WorkerEnds ==
    ASSUME RowTypes,
           \/ \E j \in breakupJobs, now \in TxTimes : FinalizeBreakup(j, now)
           \/ \E j \in accountJobs, p \in Partnerships, now \in TxTimes :
                  FinalizePartneredAccount(j, p, now)
    PROVE  \E p \in Partnerships : Ends(p)
<1>1. CASE \E j \in breakupJobs, now \in TxTimes : FinalizeBreakup(j, now)
  <2>1. PICK j \in breakupJobs, now \in TxTimes : FinalizeBreakup(j, now)
    BY <1>1
  <2>2. j.partnership \in Partnerships
    BY DEF RowTypes, BreakupJob
  <2> QED
    BY <2>1, <2>2, DissolveEnds DEF FinalizeBreakup
<1>2. CASE \E j \in accountJobs, p \in Partnerships, now \in TxTimes :
               FinalizePartneredAccount(j, p, now)
  BY <1>2, DissolveEnds DEF FinalizePartneredAccount
<1> QED
  BY <1>1, <1>2

\* Every step leaves the partnerships alone, forms or ends one, or is a breakup
\* handler.
LEMMA StepKindsApart ==
    ASSUME RowTypes, [Next]_vars
    PROVE  \/ Leaves
           \/ \E p \in Partnerships, a, b \in Accounts : Forms(p, a, b)
           \/ \E p \in Partnerships : Ends(p)
           \/ \E p \in Partnerships, a \in Accounts, now \in TxTimes :
                  \/ InitiateBreakup(p, a, now) \/ CancelBreakup(p, a, now)
                  \/ SubmitFirstIntent(p, a, now) \/ SubmitSecondIntent(p, a, now)
<1>1. CASE Tick \/ UNCHANGED vars
  BY <1>1 DEF Tick, vars, rowVars, Leaves
<1>2. CASE ApiStep
  BY <1>2, FormForms DEF ApiStep, RequestDeletion, RecoverAccount, BlockFormerPartner,
     UnblockFormerPartner, Leaves
<1>3. CASE \E j \in breakupJobs : ClaimBreakupJob(j) \/ RetryBreakupJob(j) \/ BreakupWorkerStep(j)
  BY <1>3, WorkerEnds DEF ClaimBreakupJob, RetryBreakupJob, BreakupWorkerStep, DropStaleBreakupJob,
     YieldToDeletion, rowVars, Leaves
<1>4. CASE \E j \in accountJobs : ClaimAccountJob(j) \/ RetryAccountJob(j) \/ AccountWorkerStep(j)
  BY <1>4, WorkerEnds DEF ClaimAccountJob, RetryAccountJob, AccountWorkerStep, DropStaleAccountJob,
     FinalizeSingleAccount, rowVars, Leaves
<1> QED
  BY <1>1, <1>2, <1>3, <1>4 DEF Next

LEMMA StepKinds ==
    ASSUME RowTypes, [Next]_vars
    PROVE  \/ Leaves
           \/ \E p \in Partnerships, a, b \in Accounts : Forms(p, a, b)
           \/ \E p \in Partnerships : Moves(p)
           \/ \E p \in Partnerships : Ends(p)
BY StepKindsApart, MoveMoves

-----------------------------------------------------------------------------
LEMMA SlotsStep ==
    ASSUME RowTypes, SlotsFollowLifecycle, [Next]_vars
    PROVE  SlotsFollowLifecycle'
<1>1. CASE Leaves
  BY <1>1 DEF Leaves, SlotsFollowLifecycle, Live
<1>2. ASSUME NEW p \in Partnerships, NEW a \in Accounts, NEW b \in Accounts, Forms(p, a, b)
      PROVE  SlotsFollowLifecycle'
  <2>1. \A c \in Accounts : slots'[c] = IF c \in {a, b} THEN {p} ELSE slots[c]
    BY <1>2 DEF Forms, RowTypes
  <2>2. \A c \in Accounts : p \notin slots[c]
    BY <1>2 DEF Forms, SlotsFollowLifecycle, Live
  <2>3. \A c \in Accounts : \A q, r \in slots'[c] : q = r
    BY <2>1 DEF SlotsFollowLifecycle
  <2>4. ASSUME NEW c \in Accounts PROVE p \in slots'[c] <=> c \in partnership'[p].members
    <3>1. partnership'[p].members = {a, b}
      BY <1>2 DEF Forms
    <3> QED
      BY <2>1, <2>2, <3>1
  <2>5. ASSUME NEW c \in Accounts, NEW q \in Partnerships \ {p}
        PROVE  q \in slots'[c] <=> q \in slots[c]
    BY <1>2, <2>1 DEF Forms
  <2>6. ASSUME NEW c \in Accounts, NEW q \in Partnerships
        PROVE  q \in slots'[c] <=> c \in partnership'[q].members /\ Live(q)'
    <3>1. CASE q = p
      BY <1>2, <2>4, <3>1 DEF Forms, Live
    <3>2. CASE q # p
      <4>1. partnership'[q] = partnership[q]
        BY <1>2, <3>2 DEF Forms
      <4>2. q \in slots[c] <=> c \in partnership[q].members /\ Live(q)
        BY DEF SlotsFollowLifecycle
      <4> QED
        BY <2>5, <3>2, <4>1, <4>2 DEF Live
    <3> QED
      BY <3>1, <3>2
  <2> QED
    BY <2>3, <2>6 DEF SlotsFollowLifecycle
<1>3. ASSUME NEW p \in Partnerships, Moves(p) PROVE SlotsFollowLifecycle'
  BY <1>3 DEF Moves, RowKept, SlotsFollowLifecycle, Live
<1>4. ASSUME NEW p \in Partnerships, Ends(p) PROVE SlotsFollowLifecycle'
  BY <1>4 DEF Ends, RowKept, SlotsFollowLifecycle, Live
<1> QED
  BY <1>1, <1>2, <1>3, <1>4, StepKinds

\* A member of one live partnership is a member of no other, and the released
\* slots are exactly those of terminated partnerships.
THEOREM SlotsCorrect == Spec => []SlotsFollowLifecycle
<1>1. Init => SlotsFollowLifecycle
  BY DEF Init, SlotsFollowLifecycle, Live, NoPartnership
<1> QED
  BY <1>1, RowsTyped, SlotsStep, PTL DEF Spec

\* A handler that blocks a former partner checked that they share no partnership.
LEMMA BlockApart ==
    ASSUME RowTypes, SlotsFollowLifecycle, BlockedPairApart,
           NEW p \in Partnerships, NEW a \in Accounts, NEW b \in Accounts,
           BlockFormerPartner(p, a, b)
    PROVE  BlockedPairApart'
<1>1. ASSUME NEW q \in Partnerships, Live(q), a \in partnership[q].members,
             b \in partnership[q].members
      PROVE  FALSE
  <2>1. q \in slots[a]
    BY <1>1 DEF SlotsFollowLifecycle
  <2> QED
    BY <1>1, <2>1 DEF BlockFormerPartner
<1>2. \A r \in blocks' : r \in blocks \/ (r.blocker = a /\ r.blocked = b)
  BY DEF BlockFormerPartner
<1>3. partnership' = partnership
  BY DEF BlockFormerPartner
<1> QED
  BY <1>1, <1>2, <1>3 DEF BlockedPairApart, Live

LEMMA BlocksKept ==
    ASSUME RowTypes, [Next]_vars
    PROVE  \/ blocks' \subseteq blocks
           \/ \E p \in Partnerships, a, b \in Accounts : BlockFormerPartner(p, a, b)
<1>1. CASE Tick \/ UNCHANGED vars
  BY <1>1 DEF Tick, vars, rowVars
<1>2. CASE ApiStep
  <2>1. CASE \E p \in Partnerships, a \in Accounts : UnblockFormerPartner(p, a)
    BY <2>1 DEF UnblockFormerPartner
  <2> QED
    BY <1>2, <2>1 DEF ApiStep, FormPartnership, InitiateBreakup, CancelBreakup, SubmitFirstIntent,
       SubmitSecondIntent, RequestDeletion, RecoverAccount
<1>3. CASE \E j \in breakupJobs : ClaimBreakupJob(j) \/ RetryBreakupJob(j) \/ BreakupWorkerStep(j)
  BY <1>3 DEF ClaimBreakupJob, RetryBreakupJob, BreakupWorkerStep, DropStaleBreakupJob,
     YieldToDeletion, FinalizeBreakup, rowVars
<1>4. CASE \E j \in accountJobs : ClaimAccountJob(j) \/ RetryAccountJob(j) \/ AccountWorkerStep(j)
  BY <1>4 DEF ClaimAccountJob, RetryAccountJob, AccountWorkerStep, DropStaleAccountJob,
     FinalizeSingleAccount, FinalizePartneredAccount, rowVars
<1> QED
  BY <1>1, <1>2, <1>3, <1>4 DEF Next

\* Nobody blocks himself.
BlocksOfOthers == \A r \in blocks : r.blocker # r.blocked

BlocksInv == BlocksOfOthers /\ BlockedPairApart

LEMMA BlocksOfOthersStep ==
    ASSUME RowTypes, BlocksOfOthers, [Next]_vars
    PROVE  BlocksOfOthers'
<1>1. ASSUME NEW p \in Partnerships, NEW a \in Accounts, NEW b \in Accounts,
             BlockFormerPartner(p, a, b)
      PROVE  BlocksOfOthers'
  BY <1>1 DEF BlockFormerPartner, BlocksOfOthers
<1> QED
  BY <1>1, BlocksKept DEF BlocksOfOthers

LEMMA BlocksStep ==
    ASSUME RowTypes, SlotsFollowLifecycle, BlocksOfOthers, BlockedPairApart, [Next]_vars
    PROVE  BlockedPairApart'
<1>1. CASE \E p \in Partnerships, a, b \in Accounts : BlockFormerPartner(p, a, b)
  BY <1>1, BlockApart
<1>2. CASE blocks' \subseteq blocks
  <2>1. CASE Leaves
    BY <1>2, <2>1 DEF Leaves, BlockedPairApart, Live
  <2>2. ASSUME NEW p \in Partnerships, NEW a \in Accounts, NEW b \in Accounts, Forms(p, a, b)
        PROVE  BlockedPairApart'
    <3>1. ASSUME NEW r \in blocks' PROVE r \in blocks /\ {r.blocker, r.blocked} # {a, b}
      BY <2>2, <3>1 DEF Forms, BlockedPair
    <3>2. ASSUME NEW r \in blocks', NEW q \in Partnerships, Live(q)',
                 r.blocker \in partnership'[q].members, r.blocked \in partnership'[q].members
          PROVE  FALSE
      <4>1. CASE q # p
        BY <2>2, <3>1, <3>2, <4>1 DEF Forms, BlockedPairApart, Live
      <4>2. CASE q = p
        BY <2>2, <3>1, <3>2, <4>2 DEF Forms, BlocksOfOthers
      <4> QED
        BY <4>1, <4>2
    <3> QED
      BY <3>2 DEF BlockedPairApart
  <2>3. ASSUME NEW p \in Partnerships, Moves(p) \/ Ends(p) PROVE BlockedPairApart'
    BY <1>2, <2>3 DEF Moves, Ends, RowKept, BlockedPairApart, Live
  <2> QED
    BY <2>1, <2>2, <2>3, StepKinds
<1> QED
  BY <1>1, <1>2, BlocksKept

\* No handler joins two accounts one of which blocks the other, and no block is
\* placed on a current partner.
THEOREM BlocksCorrect == Spec => []BlockedPairApart
<1>1. Init => BlocksInv
  BY DEF Init, BlocksInv, BlocksOfOthers, BlockedPairApart
<1>2. RowTypes /\ SlotsFollowLifecycle /\ BlocksInv /\ [Next]_vars => BlocksInv'
  BY BlocksStep, BlocksOfOthersStep DEF BlocksInv
<1>3. BlocksInv => BlockedPairApart
  BY DEF BlocksInv
<1> QED
  BY <1>1, <1>2, <1>3, RowsTyped, SlotsCorrect, PTL DEF Spec

-----------------------------------------------------------------------------
(* The breakup rows.                                                        *)

LEMMA BreakupMatchesMove ==
    ASSUME RowTypes, BreakupMatchesLifecycle, NEW p \in Partnerships, NEW a \in Accounts,
           NEW now \in TxTimes,
           \/ InitiateBreakup(p, a, now) \/ CancelBreakup(p, a, now)
           \/ SubmitFirstIntent(p, a, now) \/ SubmitSecondIntent(p, a, now)
    PROVE  BreakupMatchesLifecycle'
<1>1. Moves(p)
  BY MoveMoves
<1>2. ASSUME NEW q \in Partnerships \ {p}
      PROVE  partnership'[q] = partnership[q] /\ breakup'[q] = breakup[q]
  BY <1>1 DEF Moves
<1>3. /\ partnership'[p].state = "breakup_pending" <=> breakup'[p].open
      /\ breakup'[p].open =>
          /\ breakup'[p].generation = partnership'[p].generation
          /\ breakup'[p].initiator \in partnership'[p].members
          /\ breakup'[p].finalDeadline = breakup'[p].initiatedAt +
                 (IF breakup'[p].intents = {} THEN BaseWindow ELSE ExtendedWindow)
  <2>1. CASE InitiateBreakup(p, a, now)
    BY <2>1, MovedEffect DEF InitiateBreakup, MayInitiate, Unlocked, RowTypes
  <2>2. CASE CancelBreakup(p, a, now) \/ SubmitSecondIntent(p, a, now)
    BY <2>2, MovedEffect DEF CancelBreakup, SubmitSecondIntent, NoBreakup, RowTypes
  <2>3. CASE SubmitFirstIntent(p, a, now)
    <3>1. /\ breakup'[p].open = breakup[p].open
          /\ breakup'[p].generation = breakup[p].generation + 1
          /\ breakup'[p].initiator = breakup[p].initiator
          /\ breakup'[p].initiatedAt = breakup[p].initiatedAt
          /\ breakup'[p].finalDeadline = breakup[p].initiatedAt + ExtendedWindow
          /\ breakup'[p].intents = {a}
      BY <2>3 DEF SubmitFirstIntent, RowTypes, BreakupRow
    <3>2. breakup[p].open /\ breakup[p].generation = partnership[p].generation
      BY <2>3 DEF SubmitFirstIntent, MaySubmitIntent
    <3>3. partnership' = Moved(p, "breakup_pending")
      BY <2>3 DEF SubmitFirstIntent
    <3> QED
      BY <3>1, <3>2, <3>3, MovedEffect DEF BreakupMatchesLifecycle
  <2> QED
    BY <2>1, <2>2, <2>3
<1> QED
  BY <1>2, <1>3 DEF BreakupMatchesLifecycle

LEMMA BreakupMatchesStep ==
    ASSUME RowTypes, BreakupMatchesLifecycle, [Next]_vars
    PROVE  BreakupMatchesLifecycle'
<1>1. CASE Leaves
  BY <1>1 DEF Leaves, BreakupMatchesLifecycle
<1>2. ASSUME NEW p \in Partnerships, NEW a \in Accounts, NEW b \in Accounts, Forms(p, a, b)
      PROVE  BreakupMatchesLifecycle'
  <2>1. partnership[p].state = "none" /\ ~ breakup[p].open /\ partnership'[p].state = "active"
    BY <1>2 DEF Forms, BreakupMatchesLifecycle
  <2> QED
    BY <1>2, <2>1 DEF Forms, BreakupMatchesLifecycle
<1>3. ASSUME NEW p \in Partnerships, Ends(p) PROVE BreakupMatchesLifecycle'
  BY <1>3 DEF Ends, BreakupMatchesLifecycle, NoBreakup
<1> QED
  BY <1>1, <1>2, <1>3, BreakupMatchesMove, StepKindsApart

\* The partnership row and its breakup row never disagree, in state, generation
\* or deadline.
THEOREM BreakupCorrect == Spec => []BreakupMatchesLifecycle
<1>1. Init => BreakupMatchesLifecycle
  BY DEF Init, BreakupMatchesLifecycle, NoPartnership, NoBreakup
<1> QED
  BY <1>1, RowsTyped, BreakupMatchesStep, PTL DEF Spec

-----------------------------------------------------------------------------
(* The finalize actions.                                                    *)

\* The action that finalizes the breakup row as it is.
Arms(j, row, p) ==
    /\ j.partnership = p
    /\ j.process = row.process
    /\ j.generation = row.generation
    /\ j.executeAt = row.finalDeadline

LEMMA FinalizerArms ==
    ASSUME NEW p, NEW row
    PROVE  Arms(FinalizerFor(p, row), row, p)
BY DEF Arms, FinalizerFor

\* A deletion is due before the breakup, whose deadline passed.
LateDeletion(p) ==
    \E a \in Overlays(p) : /\ deletion[a].recoverUntil < breakup[p].finalDeadline
                           /\ breakup[p].finalDeadline <= clock

\* Claiming an action, or handing it back, keeps what it is armed for.
LEMMA ArmedClaim ==
    ASSUME RowTypes, NEW p \in Partnerships, Armed(p),
           NEW j \in breakupJobs, ClaimBreakupJob(j) \/ RetryBreakupJob(j)
    PROVE  Armed(p)'
<1>1. PICK status \in JobStatus :
          /\ breakupJobs' = (breakupJobs \ {j}) \cup {[j EXCEPT !.status = status]}
          /\ breakup' = breakup
  BY DEF ClaimBreakupJob, RetryBreakupJob, rowVars, JobStatus
<1> DEFINE i == [j EXCEPT !.status = status]
<1>2. /\ i.partnership = j.partnership /\ i.process = j.process
      /\ i.generation = j.generation /\ i.executeAt = j.executeAt
  BY DEF RowTypes, BreakupJob
<1> QED
  BY <1>1, <1>2 DEF Armed

\* A worker lets an action go only when it is stale, or leaves the breakup to a
\* deletion that is due first.
LEMMA ArmedWorker ==
    ASSUME RowTypes, NEW p \in Partnerships, Armed(p), breakup'[p].open,
           NEW j \in breakupJobs, BreakupWorkerStep(j)
    PROVE  Armed(p)' \/ (LateDeletion(p) /\ UNCHANGED <<breakup, deletion, partnership, clock>>)
<1>1. j.partnership \in Partnerships /\ clock \in Nat
  BY DEF RowTypes, BreakupJob
<1>2. CASE DropStaleBreakupJob(j)
  <2>1. breakup[p].open /\ breakup' = breakup
    BY <1>2 DEF DropStaleBreakupJob, rowVars
  <2> QED
    BY <1>2, <2>1 DEF DropStaleBreakupJob, CurrentBreakupJob, Armed
<1>3. ASSUME NEW now \in TxTimes, YieldToDeletion(j, now)
      PROVE  Armed(p)' \/ (LateDeletion(p) /\ UNCHANGED <<breakup, deletion, partnership, clock>>)
  <2>1. now \in Nat /\ now <= clock /\ breakup[j.partnership].finalDeadline \in Nat
    BY <1>1, TxTimesNat DEF TxTimes, RowTypes, BreakupRow
  <2>2. breakup[j.partnership].finalDeadline <= clock
    BY <1>1, <1>3, <2>1 DEF YieldToDeletion
  <2>3. CASE p = j.partnership
    BY <1>3, <2>2, <2>3 DEF YieldToDeletion, DeletionDueFirst, ReportedOverlay, LateDeletion, rowVars
  <2>4. CASE p # j.partnership
    BY <1>3, <2>4 DEF YieldToDeletion, Armed, rowVars
  <2> QED
    BY <2>3, <2>4
<1>4. ASSUME NEW now \in TxTimes, FinalizeBreakup(j, now) PROVE Armed(p)'
  <2>1. Ends(j.partnership)
    BY <1>1, <1>4, DissolveEnds DEF FinalizeBreakup
  <2>2. p # j.partnership
    BY <2>1 DEF Ends, NoBreakup
  <2> QED
    BY <1>4, <2>1, <2>2 DEF FinalizeBreakup, Ends, Armed, WithoutPendingFinalizers
<1> QED
  BY <1>2, <1>3, <1>4 DEF BreakupWorkerStep

LEMMA ArmedDeletion ==
    ASSUME RowTypes, NEW p \in Partnerships, Armed(p), breakup'[p].open,
           NEW i \in accountJobs, NEW q \in Partnerships, NEW now \in TxTimes,
           FinalizePartneredAccount(i, q, now)
    PROVE  Armed(p)'
<1>1. Ends(q)
  BY DissolveEnds DEF FinalizePartneredAccount
<1>2. p # q
  BY <1>1 DEF Ends, NoBreakup
<1> QED
  BY <1>1, <1>2 DEF FinalizePartneredAccount, Ends, Armed, WithoutPendingFinalizers

\* A breakup handler arms the finalizer of the row it writes, and leaves the
\* others theirs.
LEMMA ArmedMove ==
    ASSUME RowTypes, NEW p \in Partnerships, breakup'[p].open, Armed(p) \/ breakup'[p] # breakup[p],
           NEW q \in Partnerships, NEW a \in Accounts, NEW now \in TxTimes,
           \/ InitiateBreakup(q, a, now) \/ CancelBreakup(q, a, now)
           \/ SubmitFirstIntent(q, a, now) \/ SubmitSecondIntent(q, a, now)
    PROVE  Armed(p)'
<1>1. Moves(q)
  BY MoveMoves
<1>2. CASE p # q
  <2>1. \A j \in breakupJobs : j.partnership # q => j \in breakupJobs'
    BY DEF InitiateBreakup, CancelBreakup, SubmitFirstIntent, SubmitSecondIntent,
       WithoutPendingFinalizers
  <2>2. breakup'[p] = breakup[p]
    BY <1>1, <1>2 DEF Moves
  <2> QED
    BY <1>2, <2>1, <2>2 DEF Armed
<1>3. CASE p = q
  <2>1. CASE CancelBreakup(q, a, now) \/ SubmitSecondIntent(q, a, now)
    BY <1>3, <2>1 DEF CancelBreakup, SubmitSecondIntent, NoBreakup, RowTypes
  <2>2. CASE InitiateBreakup(q, a, now) \/ SubmitFirstIntent(q, a, now)
    <3>1. FinalizerFor(p, breakup'[p]) \in breakupJobs'
      BY <1>3, <2>2 DEF InitiateBreakup, SubmitFirstIntent, RowTypes
    <3> QED
      BY <3>1, FinalizerArms DEF Armed, Arms
  <2> QED
    BY <2>1, <2>2
<1> QED
  BY <1>2, <1>3

\* An open breakup that has its finalizer keeps one, unless a worker just left
\* it to a deletion.
LEMMA ArmedStep ==
    ASSUME RowTypes, [Next]_vars, NEW p \in Partnerships, breakup'[p].open,
           Armed(p) \/ breakup'[p] # breakup[p]
    PROVE  Armed(p)' \/ (LateDeletion(p) /\ UNCHANGED <<breakup, deletion, partnership, clock>>)
<1>1. CASE breakup' = breakup /\ breakupJobs' = breakupJobs
  BY <1>1 DEF Armed
<1>2. CASE Tick \/ UNCHANGED vars
  BY <1>1, <1>2 DEF Tick, vars, rowVars, jobVars
<1>3. CASE ApiStep
  <2>1. CASE \E q \in Partnerships, a \in Accounts, now \in TxTimes :
                 \/ InitiateBreakup(q, a, now) \/ CancelBreakup(q, a, now)
                 \/ SubmitFirstIntent(q, a, now) \/ SubmitSecondIntent(q, a, now)
    BY <2>1, ArmedMove
  <2>2. CASE \/ \E q \in Partnerships, a, b \in Accounts, now \in TxTimes :
                    FormPartnership(q, a, b, now)
             \/ \E a \in Accounts, now \in TxTimes : RequestDeletion(a, now) \/ RecoverAccount(a, now)
             \/ \E q \in Partnerships, a, b \in Accounts : BlockFormerPartner(q, a, b)
             \/ \E q \in Partnerships, a \in Accounts : UnblockFormerPartner(q, a)
    <3>1. breakup' = breakup /\ breakupJobs' = breakupJobs
      BY <2>2 DEF FormPartnership, RequestDeletion, RecoverAccount, BlockFormerPartner,
         UnblockFormerPartner, jobVars
    <3> QED
      BY <1>1, <3>1
  <2> QED
    BY <1>3, <2>1, <2>2 DEF ApiStep
<1>4. CASE \E j \in breakupJobs : ClaimBreakupJob(j) \/ RetryBreakupJob(j) \/ BreakupWorkerStep(j)
  <2>1. CASE breakup'[p] = breakup[p]
    BY <1>4, <2>1, ArmedClaim, ArmedWorker
  <2>2. CASE breakup'[p] # breakup[p]
    <3>1. PICK j \in breakupJobs, now \in TxTimes : FinalizeBreakup(j, now)
      BY <1>4, <2>2 DEF ClaimBreakupJob, RetryBreakupJob, BreakupWorkerStep, DropStaleBreakupJob,
         YieldToDeletion, rowVars
    <3>2. \E q \in Partnerships : Ends(q)
      BY <3>1, WorkerEnds
    <3> QED
      BY <2>2, <3>2 DEF Ends, NoBreakup
  <2> QED
    BY <2>1, <2>2
<1>5. CASE \E j \in accountJobs : ClaimAccountJob(j) \/ RetryAccountJob(j) \/ AccountWorkerStep(j)
  <2>1. ASSUME NEW j \in accountJobs, NEW q \in Partnerships, NEW now \in TxTimes,
               FinalizePartneredAccount(j, q, now)
        PROVE  Armed(p)'
    <3>1. Ends(q)
      BY <2>1, DissolveEnds DEF FinalizePartneredAccount
    <3>2. breakup'[p] = breakup[p]
      BY <3>1 DEF Ends, NoBreakup
    <3> QED
      BY <2>1, <3>2, ArmedDeletion
  <2> QED
    BY <1>1, <1>5, <2>1 DEF ClaimAccountJob, RetryAccountJob, AccountWorkerStep,
       DropStaleAccountJob, FinalizeSingleAccount, rowVars
<1> QED
  BY <1>2, <1>3, <1>4, <1>5 DEF Next

LEMMA ClockStep == RowTypes /\ [Next]_vars => clock' \in Nat /\ clock <= clock'
<1> SUFFICES ASSUME RowTypes, [Next]_vars PROVE clock' \in {clock, clock + 1}
  BY DEF RowTypes
<1>1. CASE Tick \/ UNCHANGED vars
  BY <1>1 DEF Tick, vars
<1>2. CASE ApiStep
  BY <1>2 DEF ApiStep, FormPartnership, InitiateBreakup, CancelBreakup, SubmitFirstIntent,
     SubmitSecondIntent, RequestDeletion, RecoverAccount, BlockFormerPartner, UnblockFormerPartner
<1>3. CASE \E j \in breakupJobs : ClaimBreakupJob(j) \/ RetryBreakupJob(j) \/ BreakupWorkerStep(j)
  BY <1>3 DEF ClaimBreakupJob, RetryBreakupJob, BreakupWorkerStep, DropStaleBreakupJob,
     YieldToDeletion, FinalizeBreakup
<1>4. CASE \E j \in accountJobs : ClaimAccountJob(j) \/ RetryAccountJob(j) \/ AccountWorkerStep(j)
  BY <1>4 DEF ClaimAccountJob, RetryAccountJob, AccountWorkerStep, DropStaleAccountJob,
     FinalizeSingleAccount, FinalizePartneredAccount
<1> QED
  BY <1>1, <1>2, <1>3, <1>4 DEF Next

LEMMA FinalizerArmedStep ==
    ASSUME RowTypes, FinalizerArmed, [Next]_vars
    PROVE  FinalizerArmed'
<1> SUFFICES ASSUME NEW p \in Partnerships, breakup'[p].open, clock' < breakup'[p].finalDeadline
             PROVE  Armed(p)'
  BY DEF FinalizerArmed
<1>1. clock \in Nat /\ clock' \in Nat /\ clock <= clock' /\ breakup'[p].finalDeadline \in Nat
  BY ClockStep, StepType DEF RowTypes, BreakupRow
<1>2. Armed(p) \/ breakup'[p] # breakup[p]
  BY <1>1 DEF FinalizerArmed
<1>3. ~ (LateDeletion(p) /\ UNCHANGED <<breakup, deletion, partnership, clock>>)
  BY <1>1 DEF LateDeletion
<1> QED
  BY <1>2, <1>3, ArmedStep

\* Before its final deadline a breakup is never without the action that will
\* finalize it, at whatever generation it is.
THEOREM FinalizerAlwaysArmed == Spec => []FinalizerArmed
<1>1. Init => FinalizerArmed
  BY DEF Init, FinalizerArmed, NoBreakup
<1> QED
  BY <1>1, RowsTyped, FinalizerArmedStep, PTL DEF Spec

Deletes(j, a) ==
    /\ j.account = a
    /\ j.generation = deletion[a].generation
    /\ j.executeAt = deletion[a].recoverUntil

\* DeletionArmed, one account at a time.
ArmedAccount(a) ==
    /\ deletion[a].pending <=> account[a] = "deletion_pending"
    /\ deletion[a].pending => \E j \in accountJobs : Deletes(j, a)

LEMMA DeletionArmedByAccount == DeletionArmed <=> \A a \in Accounts : ArmedAccount(a)
BY DEF DeletionArmed, ArmedAccount, Deletes

\* The rows of an account stay and so do the actions of it.
LEMMA DeletionKept ==
    ASSUME NEW a \in Accounts, ArmedAccount(a),
           account'[a] = account[a], deletion'[a] = deletion[a],
           \A j \in accountJobs : Deletes(j, a) => j \in accountJobs'
    PROVE  ArmedAccount(a)'
BY DEF ArmedAccount, Deletes

LEMMA DeletionRequested ==
    ASSUME RowTypes, DeletionArmed, NEW a \in Accounts, NEW now \in TxTimes,
           RequestDeletion(a, now) \/ RecoverAccount(a, now)
    PROVE  DeletionArmed'
<1>1. \A b \in Accounts \ {a} : ArmedAccount(b)'
  BY DeletionArmedByAccount, DeletionKept DEF RequestDeletion, RecoverAccount, RowTypes, jobVars
<1>2. ArmedAccount(a)'
  <2>1. CASE RequestDeletion(a, now)
    <3> DEFINE i == [account |-> a, generation |-> deletion[a].generation + 1,
                     executeAt |-> now + RecoveryWindow, status |-> "pending"]
    <3>1. i \in accountJobs'
      BY <2>1 DEF RequestDeletion
    <3>2. /\ account'[a] = "deletion_pending" /\ deletion'[a].pending
          /\ deletion'[a].generation = i.generation /\ deletion'[a].recoverUntil = i.executeAt
      BY <2>1 DEF RequestDeletion, RowTypes
    <3>3. i.account = a
      OBVIOUS
    <3> HIDE DEF i
    <3> QED
      BY <3>1, <3>2, <3>3 DEF ArmedAccount, Deletes
  <2>2. CASE RecoverAccount(a, now)
    BY <2>2 DEF RecoverAccount, ArmedAccount, NoDeletion, RowTypes
  <2> QED
    BY <2>1, <2>2
<1> QED
  BY <1>1, <1>2, DeletionArmedByAccount DEF DeletionArmed, ArmedAccount, Deletes

LEMMA DeletionClaimed ==
    ASSUME RowTypes, DeletionArmed, NEW j \in accountJobs, ClaimAccountJob(j) \/ RetryAccountJob(j)
    PROVE  DeletionArmed'
<1>1. PICK status \in JobStatus :
          /\ accountJobs' = (accountJobs \ {j}) \cup {[j EXCEPT !.status = status]}
          /\ account' = account /\ deletion' = deletion
  BY DEF ClaimAccountJob, RetryAccountJob, rowVars, JobStatus
<1> DEFINE i == [j EXCEPT !.status = status]
<1>2. i.account = j.account /\ i.generation = j.generation /\ i.executeAt = j.executeAt
  BY DEF RowTypes, AccountJob
<1>3. ASSUME NEW b \in Accounts, NEW k \in accountJobs, Deletes(k, b)
      PROVE  \E k2 \in accountJobs' : Deletes(k2, b)
  <2>1. CASE k = j
    <3>1. i \in accountJobs' /\ Deletes(i, b)
      BY <1>1, <1>2, <1>3, <2>1 DEF Deletes
    <3> QED
      BY <3>1
  <2>2. CASE k # j
    BY <1>1, <1>3, <2>2
  <2> QED
    BY <2>1, <2>2
<1> QED
  BY <1>1, <1>3 DEF DeletionArmed, Deletes

\* The action of a pending request is let go only with the request.
LEMMA DeletionWorked ==
    ASSUME RowTypes, DeletionArmed, NEW j \in accountJobs, AccountWorkerStep(j)
    PROVE  DeletionArmed'
<1> DEFINE a == j.account
<1>1. a \in Accounts
  BY DEF RowTypes, AccountJob
<1>2. CASE DropStaleAccountJob(j)
  BY <1>2 DEF DropStaleAccountJob, CurrentAccountJob, DeletionArmed, rowVars
<1>3. CASE AccountErased(a) /\ accountJobs' = accountJobs \ {j}
  <2>1. \A b \in Accounts \ {a} : account'[b] = account[b] /\ deletion'[b] = deletion[b]
    BY <1>3 DEF AccountErased, RowTypes
  <2>2. account'[a] = "deleted" /\ ~ deletion'[a].pending
    BY <1>1, <1>3 DEF AccountErased, NoDeletion, RowTypes
  <2> QED
    BY <1>3, <2>1, <2>2 DEF DeletionArmed
<1> QED
  BY <1>2, <1>3 DEF AccountWorkerStep, FinalizeSingleAccount, FinalizePartneredAccount

LEMMA DeletionStep ==
    ASSUME RowTypes, DeletionArmed, [Next]_vars
    PROVE  DeletionArmed'
<1>1. CASE account' = account /\ deletion' = deletion /\ accountJobs' = accountJobs
  BY <1>1 DEF DeletionArmed
<1>2. CASE Tick \/ UNCHANGED vars
  BY <1>1, <1>2 DEF Tick, vars, rowVars, jobVars
<1>3. CASE ApiStep
  <2>1. CASE \E a \in Accounts, now \in TxTimes : RequestDeletion(a, now) \/ RecoverAccount(a, now)
    BY <2>1, DeletionRequested
  <2>2. CASE \/ \E p \in Partnerships, a, b \in Accounts, now \in TxTimes :
                    FormPartnership(p, a, b, now)
             \/ \E p \in Partnerships, a \in Accounts, now \in TxTimes :
                    \/ InitiateBreakup(p, a, now) \/ CancelBreakup(p, a, now)
                    \/ SubmitFirstIntent(p, a, now) \/ SubmitSecondIntent(p, a, now)
             \/ \E p \in Partnerships, a, b \in Accounts : BlockFormerPartner(p, a, b)
             \/ \E p \in Partnerships, a \in Accounts : UnblockFormerPartner(p, a)
    <3>1. ASSUME NEW p \in Partnerships, NEW a \in Accounts, NEW now \in TxTimes,
                 \/ InitiateBreakup(p, a, now) \/ CancelBreakup(p, a, now)
                 \/ SubmitFirstIntent(p, a, now) \/ SubmitSecondIntent(p, a, now)
          PROVE  account' = account /\ deletion' = deletion /\ accountJobs' = accountJobs
      BY <3>1 DEF InitiateBreakup, CancelBreakup, SubmitFirstIntent, SubmitSecondIntent
    <3>2. account' = account /\ deletion' = deletion /\ accountJobs' = accountJobs
      BY <2>2, <3>1 DEF FormPartnership, BlockFormerPartner, UnblockFormerPartner, jobVars
    <3> QED
      BY <1>1, <3>2
  <2> QED
    BY <1>3, <2>1, <2>2 DEF ApiStep
<1>4. CASE \E j \in breakupJobs : ClaimBreakupJob(j) \/ RetryBreakupJob(j) \/ BreakupWorkerStep(j)
  BY <1>1, <1>4 DEF ClaimBreakupJob, RetryBreakupJob, BreakupWorkerStep, DropStaleBreakupJob,
     YieldToDeletion, FinalizeBreakup, rowVars
<1>5. CASE \E j \in accountJobs : ClaimAccountJob(j) \/ RetryAccountJob(j) \/ AccountWorkerStep(j)
  BY <1>5, DeletionClaimed, DeletionWorked
<1> QED
  BY <1>2, <1>3, <1>4, <1>5 DEF Next

\* A pending deletion request always has the action that ends it.
THEOREM DeletionAlwaysArmed == Spec => []DeletionArmed
<1>1. Init => DeletionArmed
  BY DEF Init, DeletionArmed, NoDeletion
<1> QED
  BY <1>1, RowsTyped, DeletionStep, PTL DEF Spec

-----------------------------------------------------------------------------
(* What a step may never do.                                                *)

\* Only the two dissolving workers terminate a partnership.
LEMMA EndingStep ==
    ASSUME RowTypes, [Next]_vars, NEW p \in Partnerships,
           Live(p), partnership'[p].state = "terminated"
    PROVE  \/ \E j \in breakupJobs, now \in TxTimes : FinalizeBreakup(j, now) /\ j.partnership = p
           \/ \E j \in accountJobs, now \in TxTimes : FinalizePartneredAccount(j, p, now)
<1>1. ~ Leaves
  BY DEF Leaves, Live
<1>2. ASSUME NEW q \in Partnerships, Ends(q) PROVE q = p
  BY <1>2 DEF Ends, Live
<1>3. CASE ApiStep
  <2>1. ASSUME NEW q \in Partnerships, NEW a \in Accounts, NEW b \in Accounts, Forms(q, a, b)
        PROVE  FALSE
    BY <2>1 DEF Forms, Live
  <2>2. ASSUME NEW q \in Partnerships, Moves(q) PROVE FALSE
    BY <2>2 DEF Moves, Live
  <2> QED
    BY <1>1, <1>3, <2>1, <2>2, FormForms, MoveMoves DEF ApiStep, RequestDeletion, RecoverAccount,
       BlockFormerPartner, UnblockFormerPartner, Leaves
<1>4. CASE \E j \in breakupJobs : ClaimBreakupJob(j) \/ RetryBreakupJob(j) \/ BreakupWorkerStep(j)
  <2>1. PICK j \in breakupJobs, now \in TxTimes : FinalizeBreakup(j, now)
    BY <1>1, <1>4 DEF ClaimBreakupJob, RetryBreakupJob, BreakupWorkerStep, DropStaleBreakupJob,
       YieldToDeletion, rowVars, Leaves
  <2>2. j.partnership \in Partnerships
    BY DEF RowTypes, BreakupJob
  <2>3. Ends(j.partnership)
    BY <2>1, <2>2, DissolveEnds DEF FinalizeBreakup
  <2> QED
    BY <1>2, <2>1, <2>2, <2>3
<1>5. CASE \E j \in accountJobs : ClaimAccountJob(j) \/ RetryAccountJob(j) \/ AccountWorkerStep(j)
  <2>1. PICK j \in accountJobs, q \in Partnerships, now \in TxTimes :
            FinalizePartneredAccount(j, q, now)
    BY <1>1, <1>5 DEF ClaimAccountJob, RetryAccountJob, AccountWorkerStep, DropStaleAccountJob,
       FinalizeSingleAccount, rowVars, Leaves
  <2>2. Ends(q)
    BY <2>1, DissolveEnds DEF FinalizePartneredAccount
  <2> QED
    BY <1>2, <2>1, <2>2
<1> QED
  BY <1>1, <1>3, <1>4, <1>5 DEF Next, Tick, vars, rowVars, Leaves

\* The breakup's finalizer found no deletion due before it.
LEMMA FinalizeAtEarliest ==
    ASSUME RowTypes, NEW j \in breakupJobs, NEW now \in TxTimes, FinalizeBreakup(j, now),
           NEW p, p = j.partnership
    PROVE  /\ (\A a, b \in Overlays(p) : a = b) => EarliestDeadline(p)
           /\ partnership'[p].terminatedAt <= clock
<1>1. p \in Partnerships /\ clock \in Nat
  BY DEF RowTypes, BreakupJob
<1>2. /\ breakup[p].open /\ breakup[p].finalDeadline <= now
      /\ Dissolve(p, "breakup", breakup[p].finalDeadline, NoAccount) /\ blocks' = blocks
      /\ ~ DeletionDueFirst(p)
  BY DEF FinalizeBreakup, CurrentBreakupJob
<1>3. partnership'[p].terminatedAt = breakup[p].finalDeadline
  BY <1>1, <1>2, DissolveEnds
<1>4. breakup[p].finalDeadline \in Nat /\ now \in Nat /\ now <= clock
  BY <1>1, TxTimesNat DEF RowTypes, BreakupRow, TxTimes
<1>5. \A a \in Overlays(p) : deletion[a].recoverUntil \in Nat /\ deletion[a].requestedAt \in Nat
  BY <1>1 DEF Overlays, RowTypes, PartnershipRow, DeletionRow
<1>6. ASSUME \A a, b \in Overlays(p) : a = b PROVE EarliestDeadline(p)
  <2>1. \A a \in Overlays(p) : a \in ReportedOverlay(p)
    BY <1>5, <1>6 DEF ReportedOverlay
  <2>2. \A a \in Overlays(p) : breakup[p].finalDeadline <= deletion[a].recoverUntil
    BY <1>2, <1>4, <1>5, <2>1 DEF DeletionDueFirst
  <2> QED
    BY <1>2, <1>3, <1>4, <2>2 DEF EarliestDeadline, Deadlines
<1> QED
  BY <1>1, <1>2, <1>3, <1>4, <1>6

\* The deletion's finalizer takes the breakup's deadline when that one is earlier.
LEMMA DeletionAtEarliest ==
    ASSUME RowTypes, SlotsFollowLifecycle, NEW j \in accountJobs, NEW p \in Partnerships,
           NEW now \in TxTimes, FinalizePartneredAccount(j, p, now)
    PROVE  /\ (\A a, b \in Overlays(p) : a = b) => EarliestDeadline(p)
           /\ partnership'[p].terminatedAt <= clock
<1> DEFINE a == j.account
<1>1. a \in Accounts /\ clock \in Nat /\ now \in Nat /\ now <= clock
  BY TxTimesNat DEF RowTypes, AccountJob, TxTimes
<1>2. deletion[a].recoverUntil \in Nat /\ breakup[p].finalDeadline \in Nat
  BY <1>1 DEF RowTypes, DeletionRow, BreakupRow
<1>3. a \in Overlays(p) /\ deletion[a].recoverUntil <= now
  BY <1>1 DEF FinalizePartneredAccount, CurrentAccountJob, Overlays, SlotsFollowLifecycle
<1> HIDE DEF a
<1>4. CASE BreakupWins(p, a)
  <2>1. partnership'[p].terminatedAt = breakup[p].finalDeadline
    BY <1>4, DissolveEnds DEF FinalizePartneredAccount, a
  <2>2. breakup[p].open /\ breakup[p].finalDeadline <= deletion[a].recoverUntil
    BY <1>4 DEF BreakupWins
  <2> QED
    BY <1>1, <1>2, <1>3, <2>1, <2>2 DEF EarliestDeadline, Deadlines
<1>5. CASE ~ BreakupWins(p, a)
  <2>1. partnership'[p].terminatedAt = deletion[a].recoverUntil
    BY <1>5, DissolveEnds DEF FinalizePartneredAccount, a
  <2>2. breakup[p].open => deletion[a].recoverUntil <= breakup[p].finalDeadline
    BY <1>2, <1>5 DEF BreakupWins
  <2> QED
    BY <1>1, <1>2, <1>3, <2>1, <2>2 DEF EarliestDeadline, Deadlines
<1> QED
  BY <1>4, <1>5

EndsAtEarliest ==
    \A p \in Partnerships :
        /\ (\A a, b \in Overlays(p) : a = b) => EarliestDeadline(p)
        /\ Live(p) /\ partnership'[p].state = "terminated"
              => partnership'[p].terminatedAt <= clock

LEMMA EndsAtEarliestStep == RowTypes /\ SlotsFollowLifecycle /\ [Next]_vars => EndsAtEarliest
<1> SUFFICES ASSUME RowTypes, SlotsFollowLifecycle, [Next]_vars PROVE EndsAtEarliest
  OBVIOUS
<1>1. ASSUME NEW p \in Partnerships, Live(p), partnership'[p].state = "terminated"
      PROVE  /\ (\A a, b \in Overlays(p) : a = b) => EarliestDeadline(p)
             /\ partnership'[p].terminatedAt <= clock
  BY <1>1, EndingStep, FinalizeAtEarliest, DeletionAtEarliest
<1> QED
  BY <1>1 DEF EndsAtEarliest, EarliestDeadline

\* Whichever of the two workers comes first, and however late, a partnership is
\* terminated at its earliest destructive deadline, and never before it, unless
\* both members are being deleted.
THEOREM EndsAtEarliestDeadline == Spec => EarliestDeadlineWins
BY RowsTyped, SlotsCorrect, EndsAtEarliestStep, PTL
   DEF Spec, EarliestDeadlineWins, EndsAtEarliest

FrozenStep ==
    \A p \in Partnerships :
        Live(p) /\ Overlays(p) # {} =>
            \/ partnership'[p].state = "terminated"
            \/ partnership'[p] = partnership[p] /\ breakup'[p] = breakup[p]

LEMMA StepFrozen == RowTypes /\ [Next]_vars => FrozenStep
<1> SUFFICES ASSUME RowTypes, [Next]_vars, NEW p \in Partnerships, Live(p), Overlays(p) # {}
             PROVE  \/ partnership'[p].state = "terminated"
                    \/ partnership'[p] = partnership[p] /\ breakup'[p] = breakup[p]
  BY DEF FrozenStep
<1>1. ASSUME NEW q \in Partnerships, NEW a \in Accounts, NEW b \in Accounts, Forms(q, a, b)
      PROVE  partnership'[p] = partnership[p] /\ breakup'[p] = breakup[p]
  BY <1>1 DEF Forms, Live
<1> QED
  BY <1>1, StepKinds DEF Leaves, Moves, Ends

\* While a member's deletion is pending no handler touches the lifecycle rows,
\* short of the one that terminates the partnership.
THEOREM DeletionAlwaysFreezes == Spec => DeletionFreezes
BY RowsTyped, StepFrozen, PTL DEF Spec, DeletionFreezes, FrozenStep

-----------------------------------------------------------------------------
\* A row that no partnership took yet is blank.
Blank(p) ==
    /\ partnership[p].members = {} /\ partnership[p].generation = 0
    /\ partnership[p].reason = "none"

BlankUntilFormed == \A p \in Partnerships : partnership[p].state = "none" => Blank(p)

LEMMA BlankStep == RowTypes /\ BlankUntilFormed /\ [Next]_vars => BlankUntilFormed'
<1> SUFFICES ASSUME RowTypes, BlankUntilFormed, [Next]_vars PROVE BlankUntilFormed'
  OBVIOUS
<1>1. ASSUME NEW p \in Partnerships, partnership'[p] = partnership[p]
      PROVE  partnership'[p].state = "none" => Blank(p)'
  BY <1>1 DEF BlankUntilFormed, Blank
<1>2. ASSUME NEW p \in Partnerships, partnership'[p].state = "none"
      PROVE  partnership'[p] = partnership[p]
  BY <1>2, StepKinds DEF Leaves, Forms, Moves, Ends
<1> QED
  BY <1>1, <1>2 DEF BlankUntilFormed

LEMMA BlankInit == Init => BlankUntilFormed
BY DEF Init, BlankUntilFormed, Blank, NoPartnership

FencedStep ==
    \A p \in Partnerships :
        /\ partnership'[p].generation \in
               {partnership[p].generation, partnership[p].generation + 1}
        /\ partnership'[p].generation = partnership[p].generation =>
               partnership'[p] = partnership[p] /\ breakup'[p] = breakup[p]
        /\ partnership[p].state = "terminated" => partnership'[p] = partnership[p]

LEMMA StepFenced == RowTypes /\ BlankUntilFormed /\ [Next]_vars => FencedStep
<1> SUFFICES ASSUME RowTypes, BlankUntilFormed, [Next]_vars PROVE FencedStep
  OBVIOUS
<1> SUFFICES ASSUME NEW p \in Partnerships
             PROVE  \/ partnership'[p] = partnership[p] /\ breakup'[p] = breakup[p]
                    \/ /\ partnership'[p].generation = partnership[p].generation + 1
                       /\ partnership[p].state # "terminated"
  <2>1. \A p \in Partnerships : partnership[p].generation \in Nat
    BY DEF RowTypes, PartnershipRow
  <2> QED
    BY <2>1 DEF FencedStep
<1>1. CASE Leaves
  BY <1>1 DEF Leaves
<1>2. ASSUME NEW q \in Partnerships, NEW a \in Accounts, NEW b \in Accounts, Forms(q, a, b)
      PROVE  \/ partnership'[p] = partnership[p] /\ breakup'[p] = breakup[p]
             \/ /\ partnership'[p].generation = partnership[p].generation + 1
                /\ partnership[p].state # "terminated"
  BY <1>2 DEF Forms, BlankUntilFormed, Blank
<1>3. ASSUME NEW q \in Partnerships, Moves(q) \/ Ends(q)
      PROVE  \/ partnership'[p] = partnership[p] /\ breakup'[p] = breakup[p]
             \/ /\ partnership'[p].generation = partnership[p].generation + 1
                /\ partnership[p].state # "terminated"
  BY <1>3 DEF Moves, Ends, RowKept, Live
<1> QED
  BY <1>1, <1>2, <1>3, StepKinds

\* A lifecycle row changes under the next generation or not at all, and a
\* terminated one never again.
THEOREM GenerationsFence == Spec => GenerationFences
BY BlankInit, BlankStep, RowsTyped, StepFenced, PTL DEF Spec, GenerationFences, FencedStep

-----------------------------------------------------------------------------
(* Cooldowns.                                                               *)

LEMMA ResolvedWhenEligible ==
    ASSUME NEW a, NEW now, Eligible(a, now)
    PROVE  ~ ResolvedCooldown(a, now).open
BY DEF Eligible, ResolvedCooldown, NoCooldown

LEMMA CollisionStep ==
    ASSUME RowTypes, SlotsFollowLifecycle, NoCooldownCollision, [Next]_vars
    PROVE  NoCooldownCollision'
<1>1. CASE Leaves
  BY <1>1 DEF Leaves, NoCooldownCollision, Live
<1>2. ASSUME NEW p \in Partnerships, NEW a \in Accounts, NEW b \in Accounts, Forms(p, a, b)
      PROVE  NoCooldownCollision'
  <2> DEFINE now == partnership'[p].activatedAt
  <2>1. /\ cooldown' = [cooldown EXCEPT ![a] = ResolvedCooldown(a, now),
                                       ![b] = ResolvedCooldown(b, now)]
        /\ Eligible(a, now) /\ Eligible(b, now)
    BY <1>2 DEF Forms
  <2>2. \A c \in Accounts : cooldown'[c] = IF c = b THEN ResolvedCooldown(b, now)
                                  ELSE IF c = a THEN ResolvedCooldown(a, now) ELSE cooldown[c]
    BY <2>1 DEF RowTypes
  <2>3. ASSUME NEW c \in Accounts, cooldown'[c].open PROVE c \notin {a, b} /\ cooldown[c].open
    BY <2>1, <2>2, <2>3, ResolvedWhenEligible
  <2>4. ASSUME NEW q \in Partnerships, Live(q)', NEW c \in partnership'[q].members,
               cooldown'[c].open
        PROVE  FALSE
    <3>1. c \in Accounts
      <4>1. partnership'[q] \in PartnershipRow
        BY StepType DEF RowTypes
      <4> QED
        BY <4>1 DEF PartnershipRow
    <3>2. CASE q = p
      BY <1>2, <2>3, <2>4, <3>1, <3>2 DEF Forms
    <3>3. CASE q # p
      BY <1>2, <2>3, <2>4, <3>1, <3>3 DEF Forms, NoCooldownCollision, Live
    <3> QED
      BY <3>2, <3>3
  <2> QED
    BY <2>4 DEF NoCooldownCollision
<1>3. ASSUME NEW p \in Partnerships, Moves(p) PROVE NoCooldownCollision'
  BY <1>3 DEF Moves, RowKept, NoCooldownCollision, Live
<1>4. ASSUME NEW p \in Partnerships, Ends(p) PROVE NoCooldownCollision'
  <2>1. ASSUME NEW q \in Partnerships, Live(q)', NEW c \in partnership'[q].members
        PROVE  ~ cooldown'[c].open
    <3>1. q # p /\ partnership'[q] = partnership[q]
      BY <1>4, <2>1 DEF Ends, Live
    <3>2. Live(q) /\ c \in partnership[q].members /\ c \in Accounts
      BY <2>1, <3>1 DEF Live, RowTypes, PartnershipRow
    <3>3. c \notin partnership[p].members
      BY <1>4, <3>1, <3>2 DEF Ends, SlotsFollowLifecycle
    <3>4. cooldown'[c] = cooldown[c]
      BY <1>4, <3>2, <3>3 DEF Ends
    <3> QED
      BY <3>2, <3>4 DEF NoCooldownCollision
  <2> QED
    BY <2>1 DEF NoCooldownCollision
<1> QED
  BY <1>1, <1>2, <1>3, <1>4, StepKinds

\* The cooldown a dissolution inserts never meets an open one, which the unique
\* index would refuse: a claimed finalizer never fails on it.
THEOREM CooldownsNeverCollide == Spec => []NoCooldownCollision
<1>1. Init => NoCooldownCollision
  BY DEF Init, NoCooldownCollision, Live, NoPartnership
<1> QED
  BY <1>1, RowsTyped, SlotsCorrect, CollisionStep, PTL DEF Spec

-----------------------------------------------------------------------------
\* The timestamps of the rows, in order.  A deletion that overlays a live
\* partnership is due after the partnership began.
LiveInOrder(p) ==
    /\ partnership[p].reason = "none"
    /\ \A a \in Overlays(p) : partnership[p].activatedAt <= deletion[a].recoverUntil

EndedInOrder(p) ==
    /\ partnership[p].reason # "none"
    /\ partnership[p].activatedAt <= partnership[p].terminatedAt

RowInOrder(p) ==
    /\ partnership[p].activatedAt <= partnership[p].visible /\ partnership[p].visible <= clock
    /\ breakup[p].open => partnership[p].activatedAt <= breakup[p].initiatedAt
    /\ Live(p) => LiveInOrder(p)
    /\ partnership[p].state = "terminated" => EndedInOrder(p)

RowsInOrder == \A p \in Partnerships : RowInOrder(p)

\* What a step does to the account and deletion rows of one account.
AccountMoves(a) ==
    /\ deletion'[a].pending => \/ deletion'[a] = deletion[a]
                               \/ clock <= deletion'[a].recoverUntil
    /\ account[a] = "deleted" => account'[a] = "deleted"
    /\ account'[a] = "deleted" => account[a] = "deleted" \/ slots'[a] = {}

LEMMA AccountErasedMoves ==
    ASSUME RowTypes, DeletionArmed, SlotsFollowLifecycle, NEW j \in accountJobs,
           AccountWorkerStep(j), NEW b \in Accounts
    PROVE  AccountMoves(b)
<1> DEFINE a == j.account
<1>1. a \in Accounts
  BY DEF RowTypes, AccountJob
<1>2. CASE DropStaleAccountJob(j)
  BY <1>2 DEF DropStaleAccountJob, AccountMoves, rowVars
<1>3. CASE AccountErased(a) /\ slots'[a] = {}
  BY <1>1, <1>3 DEF AccountErased, AccountMoves, NoDeletion, RowTypes
<1>4. ASSUME NEW now \in TxTimes, FinalizeSingleAccount(j, now)
      PROVE  AccountErased(a) /\ slots'[a] = {}
  BY <1>4 DEF FinalizeSingleAccount
<1>5. ASSUME NEW p \in Partnerships, NEW now \in TxTimes, FinalizePartneredAccount(j, p, now)
      PROVE  AccountErased(a) /\ slots'[a] = {}
  <2>1. p \in slots[a] /\ \A q \in slots[a] : q = p
    BY <1>1, <1>5 DEF FinalizePartneredAccount, SlotsFollowLifecycle
  <2>2. slots'[a] = slots[a] \ {p}
    BY <1>1, <1>5 DEF FinalizePartneredAccount, Dissolve, TerminateRows
  <2> QED
    BY <1>5, <2>1, <2>2 DEF FinalizePartneredAccount
<1> QED
  BY <1>2, <1>3, <1>4, <1>5 DEF AccountWorkerStep

LEMMA AccountSteps ==
    ASSUME RowTypes, DeletionArmed, SlotsFollowLifecycle, [Next]_vars, NEW b \in Accounts
    PROVE  AccountMoves(b)
<1>1. CASE account' = account /\ deletion' = deletion
  BY <1>1 DEF AccountMoves
<1>2. CASE Tick \/ UNCHANGED vars
  BY <1>1, <1>2 DEF Tick, vars, rowVars
<1>3. ASSUME NEW a \in Accounts, NEW now \in TxTimes, RequestDeletion(a, now)
      PROVE  AccountMoves(b)
  <2>1. now \in Nat /\ clock \in Nat /\ clock - now <= MaxLag
    BY TxTimesNat DEF RowTypes, TxTimes
  <2>2. clock <= now + RecoveryWindow
    BY <2>1, LagAssumption, WindowsAssumption, BoundsAssumption
  <2>3. account[a] = "active" /\ account' = [account EXCEPT ![a] = "deletion_pending"]
    BY <1>3 DEF RequestDeletion
  <2>4. \/ deletion'[b] = deletion[b]
        \/ deletion'[b].recoverUntil = now + RecoveryWindow
    BY <1>3 DEF RequestDeletion, RowTypes
  <2> QED
    BY <2>2, <2>3, <2>4 DEF AccountMoves, RowTypes
<1>4. ASSUME NEW a \in Accounts, NEW now \in TxTimes, RecoverAccount(a, now)
      PROVE  AccountMoves(b)
  BY <1>4 DEF RecoverAccount, AccountMoves, NoDeletion, RowTypes, DeletionArmed
<1>5. CASE ApiStep
  <2>1. ASSUME NEW p \in Partnerships, NEW a \in Accounts, NEW now \in TxTimes,
               \/ InitiateBreakup(p, a, now) \/ CancelBreakup(p, a, now)
               \/ SubmitFirstIntent(p, a, now) \/ SubmitSecondIntent(p, a, now)
        PROVE  account' = account /\ deletion' = deletion
    BY <2>1 DEF InitiateBreakup, CancelBreakup, SubmitFirstIntent, SubmitSecondIntent
  <2>2. ASSUME NEW p \in Partnerships, NEW a \in Accounts, NEW c \in Accounts,
               \/ \E now \in TxTimes : FormPartnership(p, a, c, now)
               \/ BlockFormerPartner(p, a, c) \/ UnblockFormerPartner(p, a)
        PROVE  account' = account /\ deletion' = deletion
    BY <2>2 DEF FormPartnership, BlockFormerPartner, UnblockFormerPartner
  <2> QED
    BY <1>1, <1>3, <1>4, <1>5, <2>1, <2>2 DEF ApiStep
<1>6. CASE \E j \in breakupJobs : ClaimBreakupJob(j) \/ RetryBreakupJob(j) \/ BreakupWorkerStep(j)
  BY <1>1, <1>6 DEF ClaimBreakupJob, RetryBreakupJob, BreakupWorkerStep, DropStaleBreakupJob,
     YieldToDeletion, FinalizeBreakup, rowVars
<1>7. CASE \E j \in accountJobs : ClaimAccountJob(j) \/ RetryAccountJob(j) \/ AccountWorkerStep(j)
  BY <1>1, <1>7, AccountErasedMoves DEF ClaimAccountJob, RetryAccountJob, rowVars
<1> QED
  BY <1>2, <1>5, <1>6, <1>7 DEF Next

\* Whether the row ended in this step, and what the dissolution did.
FreeAt(p) ==
    partnership[p].terminatedAt
        + (IF partnership[p].reason = "breakup" THEN BreakupCooldown ELSE DeletionCooldown)

Ended(p) ==
    /\ partnership'[p].terminatedAt \in Deadlines(p)
    /\ partnership'[p].reason \in {"breakup", "partner_account_deleted"}
    /\ \A a \in partnership[p].members :
           \/ account'[a] = "deleted"
           \/ cooldown'[a].open /\ cooldown'[a].eligibleAt = FreeAt(p)'

LEMMA DissolveCools ==
    ASSUME RowTypes, NEW p \in Partnerships, NEW why \in {"breakup", "partner_account_deleted"},
           NEW at, NEW leaving, Dissolve(p, why, at, leaving), blocks' = blocks
    PROVE  /\ partnership'[p].reason = why /\ partnership'[p].terminatedAt = at
           /\ \A a \in partnership[p].members :
                  why = "breakup" \/ a # leaving =>
                      cooldown'[a].open /\ cooldown'[a].eligibleAt = FreeAt(p)'
<1>1. partnership'[p].reason = why /\ partnership'[p].terminatedAt = at
  BY DissolveEnds
<1>2. FreeAt(p)' = at + CooldownLength(why)
  BY <1>1 DEF FreeAt, CooldownLength
<1>3. partnership[p].members \subseteq Accounts
  BY DEF RowTypes, PartnershipRow
<1>4. ASSUME NEW a \in partnership[p].members, why = "breakup" \/ a # leaving
      PROVE  cooldown'[a] = [open |-> TRUE, eligibleAt |-> at + CooldownLength(why)]
  BY <1>3, <1>4 DEF Dissolve, InsertCooldowns, Cooled
<1> QED
  BY <1>1, <1>2, <1>4

LEMMA EndingEnds ==
    ASSUME RowTypes, SlotsFollowLifecycle, [Next]_vars, NEW p \in Partnerships,
           Live(p), partnership'[p].state = "terminated"
    PROVE  Ended(p)
<1>1. ASSUME NEW j \in breakupJobs, NEW now \in TxTimes, FinalizeBreakup(j, now),
             j.partnership = p
      PROVE  Ended(p)
  <2>1. breakup[p].open /\ Dissolve(p, "breakup", breakup[p].finalDeadline, NoAccount)
        /\ blocks' = blocks
    BY <1>1 DEF FinalizeBreakup, CurrentBreakupJob
  <2> QED
    BY <2>1, DissolveCools DEF Ended, Deadlines
<1>2. ASSUME NEW j \in accountJobs, NEW now \in TxTimes, FinalizePartneredAccount(j, p, now)
      PROVE  Ended(p)
  <2> DEFINE a == j.account
  <2>1. a \in Accounts
    BY DEF RowTypes, AccountJob
  <2>2. a \in Overlays(p) /\ blocks' = blocks /\ AccountErased(a)
    BY <1>2, <2>1 DEF FinalizePartneredAccount, CurrentAccountJob, Overlays, SlotsFollowLifecycle
  <2>3. account'[a] = "deleted"
    BY <2>1, <2>2 DEF AccountErased, RowTypes
  <2>4. \/ breakup[p].open /\ Dissolve(p, "breakup", breakup[p].finalDeadline, NoAccount)
        \/ Dissolve(p, "partner_account_deleted", deletion[a].recoverUntil, a)
    BY <1>2 DEF FinalizePartneredAccount, BreakupWins
  <2> HIDE DEF a
  <2> QED
    BY <2>2, <2>3, <2>4, DissolveCools DEF Ended, Deadlines
<1> QED
  BY <1>1, <1>2, EndingStep

\* What the rows of one partnership are typed as, for the arithmetic on them.
LEMMA RowTimes ==
    ASSUME RowTypes, NEW p \in Partnerships
    PROVE  /\ partnership[p].activatedAt \in Nat /\ partnership[p].visible \in Nat
           /\ partnership[p].terminatedAt \in Nat
           /\ breakup[p].initiatedAt \in Nat /\ breakup[p].finalDeadline \in Nat
           /\ partnership[p].members \subseteq Accounts
           /\ \A a \in Accounts : deletion[a].recoverUntil \in Nat /\ cooldown[a].eligibleAt \in Nat
           /\ clock \in Nat
BY DEF RowTypes, PartnershipRow, BreakupRow, DeletionRow, CooldownRow

\* A row that a step leaves as it is, or moves, stays in order.
LEMMA RowStaysInOrder ==
    ASSUME RowTypes, DeletionArmed, SlotsFollowLifecycle, [Next]_vars, NEW p \in Partnerships,
           RowInOrder(p),
           partnership'[p].activatedAt = partnership[p].activatedAt,
           partnership'[p].visible = partnership[p].visible,
           partnership'[p].members = partnership[p].members,
           partnership'[p].reason = partnership[p].reason,
           partnership'[p].terminatedAt = partnership[p].terminatedAt
               \/ partnership'[p].state # "terminated",
           Live(p)' => Live(p),
           partnership'[p].state = "terminated" => partnership[p].state = "terminated",
           breakup'[p].open => partnership[p].activatedAt <= breakup'[p].initiatedAt
    PROVE  RowInOrder(p)'
<1>1. clock <= clock' /\ clock' \in Nat /\ clock \in Nat
  BY ClockStep DEF RowTypes
<1>2. partnership[p].activatedAt \in Nat /\ partnership[p].visible \in Nat
  BY RowTimes
<1>3. ASSUME Live(p)' PROVE LiveInOrder(p)'
  <2>1. ASSUME NEW a \in Overlays(p)' PROVE partnership[p].activatedAt <= deletion'[a].recoverUntil
    <3>1. a \in Accounts /\ a \in partnership[p].members /\ deletion'[a].pending
      BY <2>1, RowTimes DEF Overlays
    <3>2. deletion'[a] = deletion[a] \/ clock <= deletion'[a].recoverUntil
      BY <3>1, AccountSteps DEF AccountMoves
    <3>3. CASE deletion'[a] = deletion[a]
      BY <1>3, <3>1, <3>3 DEF RowInOrder, LiveInOrder, Overlays
    <3>4. CASE clock <= deletion'[a].recoverUntil
      <4>1. deletion'[a].recoverUntil \in Nat
        BY <3>1, StepType DEF RowTypes, DeletionRow
      <4> QED
        BY <1>1, <1>2, <3>4, <4>1 DEF RowInOrder
    <3> QED
      BY <3>2, <3>3, <3>4
  <2> QED
    BY <1>3, <2>1 DEF LiveInOrder, RowInOrder
<1> QED
  BY <1>1, <1>2, <1>3 DEF RowInOrder, EndedInOrder

LEMMA RowUnchanged ==
    ASSUME RowTypes, DeletionArmed, SlotsFollowLifecycle, [Next]_vars, NEW p \in Partnerships,
           RowInOrder(p), partnership'[p] = partnership[p], breakup'[p] = breakup[p]
    PROVE  RowInOrder(p)'
BY RowStaysInOrder DEF RowInOrder, Live

LEMMA RowFormed ==
    ASSUME RowTypes, DeletionArmed, BreakupMatchesLifecycle, [Next]_vars,
           NEW p \in Partnerships, NEW a \in Accounts, NEW b \in Accounts, Forms(p, a, b)
    PROVE  RowInOrder(p)'
<1> DEFINE now == partnership'[p].activatedAt
<1>1. now \in Nat /\ now <= clock /\ clock \in Nat
  BY TxTimesNat DEF Forms, TxTimes, RowTypes
<1>2. clock <= clock' /\ clock' \in Nat
  BY ClockStep
<1>3. Overlays(p)' = {}
  BY DEF Forms, Eligible, Overlays, DeletionArmed
<1>4. ~ breakup'[p].open
  BY DEF Forms, BreakupMatchesLifecycle
<1>5. partnership'[p].state = "active" /\ partnership'[p].reason = "none"
      /\ partnership'[p].visible = clock
  BY DEF Forms
<1> HIDE DEF now
<1> QED
  BY <1>1, <1>2, <1>3, <1>4, <1>5 DEF RowInOrder, LiveInOrder, now

LEMMA RowMoved ==
    ASSUME RowTypes, DeletionArmed, SlotsFollowLifecycle, [Next]_vars, NEW p \in Partnerships,
           RowInOrder(p), Moves(p)
    PROVE  RowInOrder(p)'
<1>1. breakup'[p].open => partnership[p].activatedAt <= breakup'[p].initiatedAt
  <2>1. breakup'[p].initiatedAt \in Nat
    BY StepType DEF RowTypes, BreakupRow
  <2> QED
    BY <2>1, RowTimes DEF RowInOrder, Moves
<1> QED
  BY <1>1, RowStaysInOrder DEF Moves, RowKept, Live

LEMMA RowTerminated ==
    ASSUME RowTypes, DeletionArmed, SlotsFollowLifecycle, BreakupMatchesLifecycle, [Next]_vars,
           NEW p \in Partnerships, RowInOrder(p), Ends(p)
    PROVE  RowInOrder(p)'
<1>1. Ended(p) /\ Live(p)
  BY EndingEnds DEF Ends
<1>2. clock <= clock' /\ clock' \in Nat
  BY ClockStep
<1>3. partnership[p].activatedAt <= partnership'[p].terminatedAt
  <2>1. ASSUME breakup[p].open, partnership'[p].terminatedAt = breakup[p].finalDeadline
        PROVE  partnership[p].activatedAt <= partnership'[p].terminatedAt
    <3>1. breakup[p].initiatedAt <= breakup[p].finalDeadline
      BY <2>1, RowTimes, WindowsAssumption DEF BreakupMatchesLifecycle
    <3> QED
      BY <2>1, <3>1, RowTimes DEF RowInOrder
  <2>2. ASSUME NEW a \in Overlays(p), partnership'[p].terminatedAt = deletion[a].recoverUntil
        PROVE  partnership[p].activatedAt <= partnership'[p].terminatedAt
    BY <1>1, <2>2 DEF RowInOrder, LiveInOrder
  <2> QED
    BY <1>1, <2>1, <2>2 DEF Ended, Deadlines
<1>4. /\ partnership'[p].state = "terminated" /\ breakup'[p] = NoBreakup /\ RowKept(p)
      /\ partnership'[p].reason # "none"
  BY <1>1 DEF Ends, Ended
<1> QED
  BY <1>2, <1>3, <1>4, RowTimes DEF RowInOrder, EndedInOrder, RowKept, NoBreakup, Live

LEMMA RowsInOrderStep ==
    ASSUME RowTypes, DeletionArmed, SlotsFollowLifecycle, BreakupMatchesLifecycle, RowsInOrder,
           [Next]_vars
    PROVE  RowsInOrder'
<1> SUFFICES ASSUME NEW p \in Partnerships PROVE RowInOrder(p)'
  BY DEF RowsInOrder
<1>1. RowInOrder(p)
  BY DEF RowsInOrder
<1>2. CASE partnership'[p] = partnership[p] /\ breakup'[p] = breakup[p]
  BY <1>1, <1>2, RowUnchanged
<1>3. ASSUME NEW q \in Partnerships, NEW a \in Accounts, NEW b \in Accounts, Forms(q, a, b)
      PROVE  RowInOrder(p)'
  <2>1. q # p => partnership'[p] = partnership[p] /\ breakup'[p] = breakup[p]
    BY <1>3 DEF Forms
  <2> QED
    BY <1>2, <1>3, <2>1, RowFormed
<1>4. ASSUME NEW q \in Partnerships, Moves(q) \/ Ends(q) PROVE RowInOrder(p)'
  <2>1. q # p => partnership'[p] = partnership[p] /\ breakup'[p] = breakup[p]
    BY <1>4 DEF Moves, Ends
  <2> QED
    BY <1>1, <1>2, <1>4, <2>1, RowMoved, RowTerminated
<1> QED
  BY <1>2, <1>3, <1>4, StepKinds DEF Leaves

\* A deleted account holds no slot.
DeletedLeft == \A a \in Accounts : account[a] = "deleted" => slots[a] = {}

LEMMA DeletedLeftStep ==
    ASSUME RowTypes, DeletionArmed, SlotsFollowLifecycle, DeletedLeft, [Next]_vars
    PROVE  DeletedLeft'
<1> SUFFICES ASSUME NEW c \in Accounts, account'[c] = "deleted", slots'[c] # {} PROVE FALSE
  BY DEF DeletedLeft
<1>1. account[c] = "deleted" /\ slots[c] = {}
  BY AccountSteps DEF AccountMoves, DeletedLeft
<1>2. ASSUME NEW p \in Partnerships, NEW a \in Accounts, NEW b \in Accounts, Forms(p, a, b)
      PROVE  FALSE
  <2>1. c # a /\ c # b
    BY <1>1, <1>2 DEF Forms, Eligible
  <2>2. slots'[c] = slots[c]
    BY <1>2, <2>1 DEF Forms, RowTypes
  <2> QED
    BY <1>1, <2>2
<1>3. ASSUME NEW p \in Partnerships, Moves(p) \/ Ends(p) PROVE FALSE
  BY <1>1, <1>3 DEF Moves, Ends
<1> QED
  BY <1>1, <1>2, <1>3, StepKinds DEF Leaves

\* A member that dissolution put on cooldown is gone, still sits it out, or
\* entered a partnership after it.
SitsOut(p, a) ==
    \/ account[a] = "deleted"
    \/ cooldown[a].open /\ FreeAt(p) <= cooldown[a].eligibleAt
    \/ \E q \in slots[a] : FreeAt(p) <= partnership[q].activatedAt

CooldownsServed ==
    \A p \in Partnerships : partnership[p].state = "terminated" =>
        \A a \in partnership[p].members : SitsOut(p, a)

CooldownInv ==
    /\ BlankUntilFormed
    /\ RowsInOrder
    /\ DeletedLeft
    /\ NoCooldownCollision
    /\ CooldownsServed
    /\ CooldownEnforced

\* What the code relies on besides.
Lifecycle ==
    /\ RowTypes /\ SlotsFollowLifecycle /\ BreakupMatchesLifecycle /\ DeletionArmed

LEMMA CooldownEnforcedAs ==
    CooldownEnforced <=>
        \A p, q \in Partnerships, a \in Accounts :
            /\ p # q
            /\ a \in partnership[p].members /\ a \in partnership[q].members
            /\ partnership[p].reason # "none"
            /\ partnership[p].activatedAt <= partnership[q].activatedAt
            => FreeAt(p) <= partnership[q].activatedAt
BY DEF CooldownEnforced, FreeAt

\* A row with a reason is terminated, and its members wait for it.
LEMMA ReasonServed ==
    ASSUME Lifecycle, CooldownInv, NEW p \in Partnerships, partnership[p].reason # "none"
    PROVE  /\ partnership[p].state = "terminated"
           /\ \A a \in partnership[p].members : SitsOut(p, a)
           /\ partnership[p].activatedAt < FreeAt(p)
           /\ FreeAt(p) \in Nat
<1>1. partnership[p].state = "terminated"
  <2>1. partnership[p].state \in LifecycleState
    BY DEF Lifecycle, RowTypes, PartnershipRow
  <2> QED
    BY <2>1 DEF CooldownInv, BlankUntilFormed, Blank, RowsInOrder, RowInOrder, LiveInOrder, Live,
       LifecycleState
<1>2. partnership[p].activatedAt <= partnership[p].terminatedAt
  BY <1>1 DEF CooldownInv, RowsInOrder, RowInOrder, EndedInOrder
<1>3. partnership[p].activatedAt \in Nat /\ partnership[p].terminatedAt \in Nat
  BY RowTimes DEF Lifecycle
<1> QED
  BY <1>1, <1>2, <1>3, WindowsAssumption DEF FreeAt, CooldownInv, CooldownsServed

LEMMA ServedForm ==
    ASSUME Lifecycle, CooldownInv, NEW q \in Partnerships, NEW a \in Accounts, NEW b \in Accounts,
           Forms(q, a, b)
    PROVE  CooldownsServed'
<1> DEFINE now == partnership'[q].activatedAt
<1>1. RowTypes /\ now \in Nat
  BY TxTimesNat DEF Lifecycle, Forms
<1> SUFFICES ASSUME NEW p \in Partnerships, partnership'[p].state = "terminated",
                    NEW c \in partnership'[p].members
             PROVE  SitsOut(p, c)'
  BY DEF CooldownsServed
<1>2. p # q /\ partnership'[p] = partnership[p] /\ c \in Accounts
  BY <1>1, RowTimes DEF Forms
<1>3. SitsOut(p, c) /\ FreeAt(p)' = FreeAt(p)
  BY <1>2 DEF CooldownInv, CooldownsServed, FreeAt
<1>4. CASE account[c] = "deleted"
  BY <1>4 DEF Forms, SitsOut
<1>5. CASE cooldown[c].open /\ FreeAt(p) <= cooldown[c].eligibleAt
  <2>1. CASE c \in {a, b}
    <3>1. cooldown[c].eligibleAt <= now
      BY <1>5, <2>1 DEF Forms, Eligible
    <3>2. q \in slots'[c]
      BY <1>1, <2>1 DEF Forms, RowTypes
    <3>3. FreeAt(p) <= now
      <4>1. FreeAt(p) \in Int
        BY <1>1, RowTimes, WindowsAssumption DEF FreeAt
      <4>2. cooldown[c].eligibleAt \in Nat
        BY <1>1, <1>2, RowTimes
      <4> QED
        BY <1>1, <1>5, <3>1, <4>1, <4>2
    <3> QED
      BY <1>3, <3>2, <3>3 DEF SitsOut
  <2>2. CASE c \notin {a, b}
    <3>1. cooldown'[c] = cooldown[c]
      BY <1>1, <1>2, <2>2 DEF Forms, RowTypes
    <3> QED
      BY <1>3, <1>5, <3>1 DEF SitsOut
  <2> QED
    BY <2>1, <2>2
<1>6. ASSUME NEW r \in slots[c], FreeAt(p) <= partnership[r].activatedAt PROVE SitsOut(p, c)'
  <2>1. r \in Partnerships /\ r # q
    BY <1>1, <1>2 DEF Lifecycle, SlotsFollowLifecycle, Forms, Live, RowTypes
  <2>2. r \in slots'[c] /\ partnership'[r] = partnership[r]
    BY <1>1, <1>2, <2>1 DEF Forms, RowTypes
  <2> QED
    BY <1>3, <1>6, <2>2 DEF SitsOut
<1> QED
  BY <1>3, <1>4, <1>5, <1>6 DEF SitsOut

LEMMA EnforcedForm ==
    ASSUME Lifecycle, CooldownInv, NEW q \in Partnerships, NEW a \in Accounts, NEW b \in Accounts,
           Forms(q, a, b)
    PROVE  CooldownEnforced'
<1>1. RowTypes /\ partnership'[q].activatedAt \in Nat
  BY TxTimesNat DEF Lifecycle, Forms
<1> SUFFICES ASSUME NEW p1 \in Partnerships, NEW p2 \in Partnerships, NEW c \in Accounts,
                    p1 # p2, c \in partnership'[p1].members, c \in partnership'[p2].members,
                    partnership'[p1].reason # "none",
                    partnership'[p1].activatedAt <= partnership'[p2].activatedAt
             PROVE  FreeAt(p1)' <= partnership'[p2].activatedAt
  BY CooldownEnforcedAs DEF CooldownEnforced, FreeAt
<1>2. p1 # q /\ partnership'[p1] = partnership[p1] /\ FreeAt(p1)' = FreeAt(p1)
  BY DEF Forms, FreeAt
<1>3. CASE p2 # q
  <2>1. partnership'[p2] = partnership[p2]
    BY <1>3 DEF Forms
  <2> QED
    BY <1>2, <2>1, CooldownEnforcedAs DEF CooldownInv
<1>4. CASE p2 = q
  <2>1. SitsOut(p1, c) /\ FreeAt(p1) \in Nat
    BY <1>2, ReasonServed
  <2>2. c \in {a, b}
    BY <1>4 DEF Forms
  <2>3. Eligible(c, partnership'[q].activatedAt)
    BY <2>2 DEF Forms
  <2>4. /\ cooldown[c].open /\ FreeAt(p1) <= cooldown[c].eligibleAt
        /\ cooldown[c].eligibleAt <= partnership'[q].activatedAt
    BY <2>1, <2>3 DEF Eligible, SitsOut
  <2>5. cooldown[c].eligibleAt \in Nat
    BY <1>1, RowTimes
  <2> QED
    BY <1>1, <1>2, <1>4, <2>1, <2>4, <2>5
<1> QED
  BY <1>3, <1>4

\* What ends a partnership of a member: he was on no cooldown, and is now.
LEMMA ServedEnd ==
    ASSUME Lifecycle, CooldownInv, [Next]_vars, NEW q \in Partnerships, Ends(q)
    PROVE  CooldownsServed'
<1>1. RowTypes /\ Ended(q) /\ Live(q)
  BY EndingEnds DEF Lifecycle, Ends
<1> SUFFICES ASSUME NEW p \in Partnerships, partnership'[p].state = "terminated",
                    NEW c \in partnership'[p].members
             PROVE  SitsOut(p, c)'
  BY DEF CooldownsServed
<1>2. FreeAt(q)' \in Nat /\ partnership'[q].activatedAt <= FreeAt(q)'
      /\ partnership'[q].activatedAt = partnership[q].activatedAt
  <2>1. partnership'[q].activatedAt <= partnership'[q].terminatedAt
    <3>1. RowInOrder(q)'
      BY RowsInOrderStep DEF Lifecycle, CooldownInv, RowsInOrder
    <3> QED
      BY <3>1 DEF RowInOrder, EndedInOrder, Ends
  <2>2. partnership'[q].activatedAt \in Nat /\ partnership'[q].terminatedAt \in Nat
    BY <1>1, StepType DEF RowTypes, PartnershipRow
  <2> QED
    BY <2>1, <2>2, WindowsAssumption DEF FreeAt, Ends, RowKept
<1>3. CASE p = q
  <2>1. c \in partnership[q].members
    BY <1>3 DEF Ends, RowKept
  <2>2. account'[c] = "deleted" \/ (cooldown'[c].open /\ cooldown'[c].eligibleAt = FreeAt(q)')
    BY <1>1, <2>1 DEF Ended
  <2> QED
    BY <1>2, <1>3, <2>2 DEF SitsOut
<1>4. CASE p # q
  <2>1. partnership'[p] = partnership[p] /\ FreeAt(p)' = FreeAt(p) /\ c \in Accounts
    BY <1>1, <1>4, RowTimes DEF Ends, FreeAt
  <2>2. SitsOut(p, c)
    BY <2>1 DEF CooldownInv, CooldownsServed
  <2>3. CASE account[c] = "deleted"
    BY <2>1, <2>3, AccountSteps DEF Lifecycle, AccountMoves, SitsOut
  <2>4. CASE cooldown[c].open /\ FreeAt(p) <= cooldown[c].eligibleAt
    <3>1. c \notin partnership[q].members
      BY <1>1, <2>4 DEF CooldownInv, NoCooldownCollision
    <3>2. cooldown'[c] = cooldown[c]
      BY <2>1, <3>1 DEF Ends
    <3> QED
      BY <2>1, <2>4, <3>2 DEF SitsOut
  <2>5. ASSUME NEW r \in slots[c], FreeAt(p) <= partnership[r].activatedAt PROVE SitsOut(p, c)'
    <3>1. CASE r = q
      <4>1. c \in partnership[q].members
        BY <2>1, <3>1 DEF Lifecycle, SlotsFollowLifecycle
      <4>2. account'[c] = "deleted" \/ (cooldown'[c].open /\ cooldown'[c].eligibleAt = FreeAt(q)')
        BY <1>1, <4>1 DEF Ended
      <4>3. FreeAt(p) <= FreeAt(q)'
        <5>1. FreeAt(p) \in Nat /\ partnership[q].activatedAt \in Nat
          BY <1>1, RowTimes, WindowsAssumption DEF FreeAt
        <5> QED
          BY <1>2, <2>5, <3>1, <5>1
      <4> QED
        BY <2>1, <4>2, <4>3 DEF SitsOut
    <3>2. CASE r # q
      <4>1. r \in slots'[c] /\ r \in Partnerships
        BY <1>1, <2>1, <3>2 DEF Ends, RowTypes
      <4>2. partnership'[r] = partnership[r]
        BY <3>2, <4>1 DEF Ends
      <4> QED
        BY <2>1, <2>5, <4>1, <4>2 DEF SitsOut
    <3> QED
      BY <3>1, <3>2
  <2> QED
    BY <2>2, <2>3, <2>4, <2>5 DEF SitsOut
<1> QED
  BY <1>3, <1>4

LEMMA EnforcedEnd ==
    ASSUME Lifecycle, CooldownInv, NEW q \in Partnerships, Ends(q)
    PROVE  CooldownEnforced'
<1>1. RowTypes /\ Live(q)
  BY DEF Lifecycle, Ends
<1>2. \A p \in Partnerships : /\ partnership'[p].members = partnership[p].members
                              /\ partnership'[p].activatedAt = partnership[p].activatedAt
  BY DEF Ends, RowKept
<1> SUFFICES ASSUME NEW p1 \in Partnerships, NEW p2 \in Partnerships, NEW c \in Accounts,
                    p1 # p2, c \in partnership[p1].members, c \in partnership[p2].members,
                    partnership'[p1].reason # "none",
                    partnership[p1].activatedAt <= partnership[p2].activatedAt
             PROVE  FreeAt(p1)' <= partnership[p2].activatedAt
  BY <1>2 DEF CooldownEnforced, FreeAt
<1>3. CASE p1 # q
  <2>1. partnership'[p1] = partnership[p1] /\ FreeAt(p1)' = FreeAt(p1)
    BY <1>3 DEF Ends, FreeAt
  <2> QED
    BY <2>1, CooldownEnforcedAs DEF CooldownInv
<1>4. CASE p1 = q
  <2>1. q \in slots[c] /\ \A r \in slots[c] : r = q
    BY <1>1, <1>4 DEF Lifecycle, SlotsFollowLifecycle
  <2>2. partnership[p2].reason # "none"
    <3>1. ~ Live(p2) /\ partnership[p2].state \in LifecycleState
      BY <1>1, <1>4, <2>1 DEF Lifecycle, SlotsFollowLifecycle, RowTypes, PartnershipRow
    <3>2. partnership[p2].state # "none"
      BY DEF CooldownInv, BlankUntilFormed, Blank
    <3> QED
      BY <3>1, <3>2 DEF CooldownInv, RowsInOrder, RowInOrder, EndedInOrder, Live, LifecycleState
  <2>3. SitsOut(p2, c) /\ partnership[p2].activatedAt < FreeAt(p2) /\ FreeAt(p2) \in Nat
    BY <2>2, ReasonServed
  <2>4. account[c] # "deleted"
    BY <2>1 DEF CooldownInv, DeletedLeft
  <2>5. ~ cooldown[c].open
    BY <1>1, <1>4 DEF CooldownInv, NoCooldownCollision
  <2>6. FreeAt(p2) <= partnership[q].activatedAt
    BY <2>1, <2>3, <2>4, <2>5 DEF SitsOut
  <2>7. partnership[p2].activatedAt \in Nat /\ partnership[q].activatedAt \in Nat
    BY <1>1, RowTimes
  <2> QED
    BY <1>4, <2>3, <2>6, <2>7
<1> QED
  BY <1>3, <1>4

LEMMA ServedKept ==
    ASSUME Lifecycle, CooldownInv, [Next]_vars,
           Leaves \/ \E p \in Partnerships : Moves(p)
    PROVE  CooldownsServed' /\ CooldownEnforced'
<1>1. slots' = slots /\ cooldown' = cooldown
  BY DEF Leaves, Moves
<1>2. ASSUME NEW p \in Partnerships
      PROVE  /\ partnership'[p].members = partnership[p].members
             /\ partnership'[p].activatedAt = partnership[p].activatedAt
             /\ partnership'[p].reason = partnership[p].reason
             /\ partnership[p].reason # "none" => partnership'[p] = partnership[p]
             /\ partnership'[p].state = "terminated" => partnership[p].reason # "none"
  BY DEF Leaves, Moves, RowKept, CooldownInv, RowsInOrder, RowInOrder, LiveInOrder, EndedInOrder
<1>3. \A p \in Partnerships : partnership[p].reason # "none" => FreeAt(p)' = FreeAt(p)
  BY <1>2 DEF FreeAt
<1>4. \A a \in Accounts : account[a] = "deleted" => account'[a] = "deleted"
  BY AccountSteps DEF Lifecycle, AccountMoves
<1>5. ASSUME NEW p \in Partnerships, partnership'[p].state = "terminated",
             NEW c \in partnership'[p].members
      PROVE  SitsOut(p, c)'
  <2>1. SitsOut(p, c) /\ FreeAt(p)' = FreeAt(p) /\ c \in Accounts
    BY <1>2, <1>3, <1>5, ReasonServed, RowTimes DEF Lifecycle
  <2>2. slots[c] \subseteq Partnerships
    BY <2>1 DEF Lifecycle, RowTypes
  <2> QED
    BY <1>1, <1>2, <1>4, <2>1, <2>2 DEF SitsOut
<1>6. CooldownEnforced'
  <2> SUFFICES ASSUME NEW p1 \in Partnerships, NEW p2 \in Partnerships, NEW c \in Accounts,
                      p1 # p2, c \in partnership[p1].members, c \in partnership[p2].members,
                      partnership[p1].reason # "none",
                      partnership[p1].activatedAt <= partnership[p2].activatedAt
               PROVE  FreeAt(p1)' <= partnership[p2].activatedAt
    BY <1>2 DEF CooldownEnforced, FreeAt
  <2> QED
    BY <1>3, CooldownEnforcedAs DEF CooldownInv
<1> QED
  BY <1>5, <1>6 DEF CooldownsServed

LEMMA CooldownStep == Lifecycle /\ CooldownInv /\ [Next]_vars => CooldownInv'
<1> SUFFICES ASSUME Lifecycle, CooldownInv, [Next]_vars PROVE CooldownInv'
  OBVIOUS
<1>1. BlankUntilFormed' /\ RowsInOrder' /\ DeletedLeft' /\ NoCooldownCollision'
  BY BlankStep, RowsInOrderStep, DeletedLeftStep, CollisionStep DEF Lifecycle, CooldownInv
<1>2. CooldownsServed' /\ CooldownEnforced'
  BY ServedKept, ServedForm, EnforcedForm, ServedEnd, EnforcedEnd, StepKinds DEF Lifecycle
<1> QED
  BY <1>1, <1>2 DEF CooldownInv

LEMMA CooldownInit == Init => CooldownInv
<1> SUFFICES ASSUME Init PROVE CooldownInv
  OBVIOUS
<1>1. clock = 0 /\ \A p \in Partnerships : partnership[p] = NoPartnership /\ breakup[p] = NoBreakup
  BY DEF Init
<1>2. BlankUntilFormed /\ CooldownsServed /\ CooldownEnforced /\ NoCooldownCollision
  BY <1>1 DEF BlankUntilFormed, Blank, CooldownsServed, CooldownEnforced, NoCooldownCollision,
     NoPartnership, Live
<1>3. RowsInOrder
  BY <1>1 DEF RowsInOrder, RowInOrder, NoPartnership, NoBreakup, Live
<1>4. DeletedLeft
  BY DEF Init, DeletedLeft
<1> QED
  BY <1>2, <1>3, <1>4 DEF CooldownInv

\* Whoever a dissolution put on cooldown enters no partnership before it ended,
\* on whatever timestamps the dissolution and the formation are decided.
THEOREM CooldownsEnforced == Spec => []CooldownEnforced
<1>1. CooldownInv => CooldownEnforced
  BY DEF CooldownInv
<1>2. RowTypes /\ SlotsFollowLifecycle /\ BreakupMatchesLifecycle /\ DeletionArmed => Lifecycle
  BY DEF Lifecycle
<1> QED
  BY <1>1, <1>2, CooldownInit, CooldownStep, RowsTyped, SlotsCorrect, BreakupCorrect,
     DeletionAlwaysArmed, PTL DEF Spec

-----------------------------------------------------------------------------
\* An open breakup that no live action will finalize and that no deletion which was
\* due first, of a member, will dissolve either.
Abandoned(p) == breakup[p].open /\ ~ Armed(p) /\ ~ LateDeletion(p)

\* A member recovers after the breakup's deadline, hence after the end of its own
\* window, on a timestamp of BEGIN inside the window.
LateRecovery(p) ==
    \E a \in Overlays(p), now \in TxTimes :
        /\ RecoverAccount(a, now)
        /\ deletion[a].recoverUntil < breakup[p].finalDeadline
        /\ breakup[p].finalDeadline <= clock

\* A breakup is abandoned by nothing but such a recovery, however old the timestamps
\* of the transactions are.
OnlyLateRecoveryAbandons ==
    [][\A p \in Partnerships : ~ Abandoned(p) /\ Abandoned(p)' => LateRecovery(p)]_vars

\* A deletion that is past its window by the time a worker may leave a breakup to
\* it stays, unless it is recovered late.
LEMMA LateStays ==
    ASSUME Lifecycle, [Next]_vars, NEW p \in Partnerships, LateDeletion(p),
           breakup[p].open, breakup'[p] = breakup[p], ~ LateRecovery(p)
    PROVE  LateDeletion(p)'
<1>1. RowTypes /\ clock <= clock' /\ clock' \in Nat /\ clock \in Nat
  BY ClockStep DEF Lifecycle, RowTypes
<1>2. PICK a \in Overlays(p) : /\ deletion[a].recoverUntil < breakup[p].finalDeadline
                               /\ breakup[p].finalDeadline <= clock
  BY DEF LateDeletion
<1>3. /\ a \in Accounts /\ a \in partnership[p].members /\ deletion[a].pending
      /\ deletion[a].recoverUntil \in Nat /\ breakup[p].finalDeadline \in Nat
  BY <1>1, RowTimes DEF Overlays
<1>4. Live(p) /\ p \in slots[a]
  BY <1>3 DEF Lifecycle, BreakupMatchesLifecycle, SlotsFollowLifecycle, Live
<1>5. partnership'[p].members = partnership[p].members
  BY <1>1, <1>4, StepKinds DEF Leaves, Forms, Moves, Ends, RowKept, Live
<1>6. CASE deletion'[a] = deletion[a]
  <2>1. a \in Overlays(p)'
    BY <1>3, <1>5, <1>6 DEF Overlays
  <2> QED
    BY <1>1, <1>2, <1>3, <1>6, <2>1 DEF LateDeletion
<1>7. ASSUME NEW b \in Accounts, NEW now \in TxTimes, RequestDeletion(b, now) \/ RecoverAccount(b, now)
      PROVE  deletion'[a] = deletion[a]
  <2>1. CASE b # a
    <3>1. PICK row : deletion' = [deletion EXCEPT ![b] = row]
      BY <1>7 DEF RequestDeletion, RecoverAccount
    <3> QED
      BY <1>1, <1>3, <2>1, <3>1 DEF RowTypes
  <2>2. CASE b = a
    <3>1. CASE RequestDeletion(b, now)
      BY <1>3, <2>2, <3>1 DEF RequestDeletion, Lifecycle, DeletionArmed
    <3>2. CASE RecoverAccount(b, now)
      BY <1>2, <2>2, <3>2 DEF LateRecovery
    <3> QED
      BY <1>7, <3>1, <3>2
  <2> QED
    BY <2>1, <2>2
<1>8. CASE ApiStep
  <2>1. ASSUME NEW q \in Partnerships, NEW b \in Accounts, NEW now \in TxTimes,
               \/ InitiateBreakup(q, b, now) \/ CancelBreakup(q, b, now)
               \/ SubmitFirstIntent(q, b, now) \/ SubmitSecondIntent(q, b, now)
        PROVE  deletion' = deletion
    BY <2>1 DEF InitiateBreakup, CancelBreakup, SubmitFirstIntent, SubmitSecondIntent
  <2>2. ASSUME NEW q \in Partnerships, NEW b \in Accounts, NEW c \in Accounts,
               \/ \E now \in TxTimes : FormPartnership(q, b, c, now)
               \/ BlockFormerPartner(q, b, c) \/ UnblockFormerPartner(q, b)
        PROVE  deletion' = deletion
    BY <2>2 DEF FormPartnership, BlockFormerPartner, UnblockFormerPartner
  <2> QED
    BY <1>6, <1>7, <1>8, <2>1, <2>2 DEF ApiStep
<1>9. CASE \E j \in breakupJobs : ClaimBreakupJob(j) \/ RetryBreakupJob(j) \/ BreakupWorkerStep(j)
  BY <1>6, <1>9 DEF ClaimBreakupJob, RetryBreakupJob, BreakupWorkerStep, DropStaleBreakupJob,
     YieldToDeletion, FinalizeBreakup, rowVars
<1>10. ASSUME NEW j \in accountJobs, AccountWorkerStep(j), j.account = a PROVE deletion'[a] = deletion[a]
  <2>1. CASE DropStaleAccountJob(j)
    BY <2>1 DEF DropStaleAccountJob, rowVars
  <2>2. ASSUME NEW now \in TxTimes, FinalizeSingleAccount(j, now) PROVE FALSE
    BY <1>4, <1>10, <2>2 DEF FinalizeSingleAccount
  <2>3. ASSUME NEW q \in Partnerships, NEW now \in TxTimes, FinalizePartneredAccount(j, q, now)
        PROVE  FALSE
    <3>1. q = p
      BY <1>3, <1>4, <1>10, <2>3 DEF FinalizePartneredAccount, Lifecycle, SlotsFollowLifecycle
    <3>2. Ends(p)
      BY <1>1, <2>3, <3>1, DissolveEnds DEF FinalizePartneredAccount
    <3> QED
      BY <3>2 DEF Ends, NoBreakup
  <2> QED
    BY <1>10, <2>1, <2>2, <2>3 DEF AccountWorkerStep
<1>11. ASSUME NEW j \in accountJobs, AccountWorkerStep(j), j.account # a PROVE deletion'[a] = deletion[a]
  BY <1>1, <1>3, <1>11 DEF AccountWorkerStep, DropStaleAccountJob, FinalizeSingleAccount,
     FinalizePartneredAccount, AccountErased, RowTypes, rowVars
<1>12. CASE \E j \in accountJobs : ClaimAccountJob(j) \/ RetryAccountJob(j) \/ AccountWorkerStep(j)
  BY <1>6, <1>10, <1>11, <1>12 DEF ClaimAccountJob, RetryAccountJob, rowVars
<1>13. CASE Tick \/ UNCHANGED vars
  BY <1>6, <1>13 DEF Tick, vars, rowVars
<1> QED
  BY <1>8, <1>9, <1>12, <1>13 DEF Next

LEMMA AbandonStep ==
    ASSUME Lifecycle, [Next]_vars, NEW p \in Partnerships, ~ Abandoned(p), Abandoned(p)'
    PROVE  LateRecovery(p)
<1>1. breakup'[p].open /\ ~ Armed(p)' /\ ~ LateDeletion(p)'
  BY DEF Abandoned
<1>2. CASE Armed(p) \/ breakup'[p] # breakup[p]
  <2>1. LateDeletion(p) /\ UNCHANGED <<breakup, deletion, partnership, clock>>
    BY <1>1, <1>2, ArmedStep DEF Lifecycle
  <2> QED
    BY <1>1, <2>1 DEF LateDeletion, Overlays
<1>3. CASE ~ Armed(p) /\ breakup'[p] = breakup[p]
  <2>1. breakup[p].open /\ LateDeletion(p)
    BY <1>1, <1>3 DEF Abandoned
  <2> QED
    BY <1>1, <1>3, <2>1, LateStays
<1> QED
  BY <1>2, <1>3

LEMMA LifecycleCorrect == Spec => []Lifecycle
<1>1. RowTypes /\ SlotsFollowLifecycle /\ BreakupMatchesLifecycle /\ DeletionArmed => Lifecycle
  BY DEF Lifecycle
<1> QED
  BY <1>1, RowsTyped, SlotsCorrect, BreakupCorrect, DeletionAlwaysArmed, PTL

\* Whatever the lag of the transactions, one thing can leave an open breakup without
\* an action that ends it: a member that recovers after the breakup's deadline on a
\* timestamp from before it, when the worker may have yielded to that member's
\* deletion already.  The run lifecycle_late_recovery shows that it happens.
THEOREM BreakupsAbandonedByLateRecovery ==
    Spec => (\A p \in Partnerships : ~ Abandoned(p)) /\ OnlyLateRecoveryAbandons
<1>1. Init => \A p \in Partnerships : ~ Abandoned(p)
  BY DEF Init, Abandoned, NoBreakup
<1> DEFINE Step == \A p \in Partnerships : ~ Abandoned(p) /\ Abandoned(p)' => LateRecovery(p)
<1>2. Lifecycle /\ [Next]_vars => Step
  BY AbandonStep
<1>3. Lifecycle /\ [Next]_vars => [Step]_vars
  BY <1>2
<1> QED
  BY <1>1, <1>3, LifecycleCorrect, PTL DEF Spec, OnlyLateRecoveryAbandons

=============================================================================
