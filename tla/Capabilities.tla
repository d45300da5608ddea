---------------------------- MODULE Capabilities ----------------------------
(***************************************************************************)
(* What the members of a partnership may do: the domain's transitions of a *)
(* partnership, the capabilities it derives from its state, and the        *)
(* contexts in which the services ask for them.  Each service translates   *)
(* the rows it has locked into a context of its own, the calls have a      *)
(* policy of their own, and the start date is changed under a third view   *)
(* of the same rows.                                                       *)
(*                                                                         *)
(* Only what a decision allows is kept of it, not the reason of a denial.  *)
(* Time is counted in ticks; the deletion finalizer and the breakup        *)
(* finalizer carry the generation they were scheduled with.                *)
(***************************************************************************)
EXTENDS Naturals, Sequences

CONSTANTS
    Couple,           \* the two members
    CancelTicks,      \* addHours(now, 1)
    BreakupTicks,     \* addDays(now, 7)
    ExtendedTicks,    \* addDays(initiatedAt, 10)
    RecoveryTicks,    \* addDays(now, 7)
    EditTicks,        \* MESSAGE_EDIT_WINDOW_MS
    MaxTicks,         \* bound: the clock
    MaxTransitions,   \* bound: transitions of a partnership
    MaxSent           \* bound: messages

ASSUME TicksAssumption ==
    {CancelTicks, BreakupTicks, ExtendedTicks, RecoveryTicks, EditTicks, MaxTicks,
     MaxTransitions, MaxSent} \subseteq Nat

VARIABLES
    partnership,   \* lifecycle, generation and the open breakup process, if any
    leaving,       \* pending account_deletion_requests, in the order of requested_at
    endings,       \* how the partnership has been terminated
    letters,       \* messages, and whether each was sent during the breakup that is open
    metadata,      \* the members that have loaded the start date of the current version
    today          \* the clock

capabilityVars == <<partnership, leaving, endings, letters, metadata, today>>

Lifecycles == {"active", "breakup_pending", "terminated"}
BreakupProcess == [by : Couple, cancelUntil : Nat, initiated : Nat, final : Nat, intents : SUBSET Couple,
                   generation : Nat, freeze : Nat]
LeaveRequest == [account : Couple, recoverUntil : Nat, generation : Nat]
SentMessage == [by : Couple, at : Nat, during : BOOLEAN, deleted : BOOLEAN]

CapabilityTypeOK ==
    /\ partnership.lifecycle \in Lifecycles /\ partnership.generation \in 1 .. MaxTransitions + 1
    /\ partnership.breakup \subseteq BreakupProcess
    /\ leaving \in Seq(LeaveRequest)
    /\ endings \in Seq({"breakup", "partner_account_deleted"})
    /\ letters \in Seq(SentMessage)
    /\ metadata \in [loaded : SUBSET Couple, blind : BOOLEAN]
    /\ today \in 0 .. MaxTicks

CapabilityInit ==
    /\ partnership = [lifecycle |-> "active", generation |-> 1, breakup |-> {}]
    /\ leaving = <<>> /\ endings = <<>> /\ letters = <<>>
    /\ metadata = [loaded |-> {}, blind |-> FALSE]
    /\ today = 0

OtherMember(a) == CHOOSE b \in Couple : b # a
Generation == partnership.generation
Following == Generation + 1
Bumps == Generation <= MaxTransitions
Leaves(a) == \E i \in 1 .. Len(leaving) : leaving[i].account = a

-----------------------------------------------------------------------------
(* The domain's transitions.                                                *)

InitiatesBreakup(a) ==
    /\ Bumps /\ partnership.lifecycle = "active" /\ leaving = <<>>
    /\ partnership' = [lifecycle |-> "breakup_pending", generation |-> Following,
                       breakup |-> {[by |-> a, initiated |-> today, cancelUntil |-> today + CancelTicks,
                                     final |-> today + BreakupTicks, intents |-> {}, generation |-> Following,
                                     freeze |-> Len(letters)]}]
    /\ letters' = [i \in 1 .. Len(letters) |-> [letters[i] EXCEPT !.during = FALSE]]
    /\ UNCHANGED <<leaving, endings, metadata, today>>

Restored == [lifecycle |-> "active", generation |-> Following, breakup |-> {}]

CancelBreakup(a) ==
    /\ Bumps /\ leaving = <<>>
    /\ \E b \in partnership.breakup :
           partnership.lifecycle = "breakup_pending" /\ b.by = a /\ today < b.cancelUntil
    /\ partnership' = Restored
    /\ UNCHANGED <<leaving, endings, letters, metadata, today>>

\* The second intent restores, the first moves the deadline.
SubmitRestoreIntent(a) ==
    /\ Bumps /\ leaving = <<>> /\ partnership.lifecycle = "breakup_pending"
    /\ \E b \in partnership.breakup :
           /\ b.cancelUntil <= today /\ today < b.final /\ a \notin b.intents
           /\ partnership' = IF OtherMember(a) \in b.intents THEN Restored
                             ELSE [partnership EXCEPT
                                       !.generation = Following,
                                       !.breakup = {[b EXCEPT !.intents = {a}, !.generation = Following,
                                                              !.final = b.initiated + ExtendedTicks]}]
    /\ UNCHANGED <<leaving, endings, letters, metadata, today>>

\* The process stays with the partnership it has ended.
FinalizeBreakup(generation) ==
    /\ Bumps /\ partnership.lifecycle = "breakup_pending"
    /\ \E b \in partnership.breakup : b.generation = generation /\ b.final <= today
    /\ partnership' = [partnership EXCEPT !.lifecycle = "terminated", !.generation = Following]
    /\ endings' = Append(endings, "breakup")
    /\ UNCHANGED <<leaving, letters, metadata, today>>

RequestsAccountDeletion(a) ==
    /\ Bumps /\ partnership.lifecycle # "terminated" /\ leaving = <<>>
    /\ partnership' = [partnership EXCEPT !.generation = Following]
    /\ leaving' = <<[account |-> a, recoverUntil |-> today + RecoveryTicks, generation |-> Following]>>
    /\ UNCHANGED <<endings, letters, metadata, today>>

\* The API lets the other member leave as well; the domain knows the first of them only.
AlsoRequestsDeletion(a) ==
    /\ Bumps /\ partnership.lifecycle # "terminated" /\ leaving # <<>> /\ ~ Leaves(a)
    /\ partnership' = [partnership EXCEPT !.generation = Following]
    /\ leaving' = Append(leaving, [account |-> a, recoverUntil |-> today + RecoveryTicks,
                                   generation |-> Following])
    /\ UNCHANGED <<endings, letters, metadata, today>>

RecoverDeletedAccount(a) ==
    /\ Bumps
    /\ \E i \in 1 .. Len(leaving) :
           /\ leaving[i].account = a /\ today < leaving[i].recoverUntil
           /\ leaving' = SelectSeq(leaving, LAMBDA r : r.account # a)
    /\ partnership' = [partnership EXCEPT !.generation = Following]
    /\ UNCHANGED <<endings, letters, metadata, today>>

\* Mutation: the deadline of the breakup that has come first is not looked at.
BreakupComesFirst_Never == FALSE

BreakupComesFirst == \E b \in partnership.breakup : b.final <= today

\* The members are released: a request of the other one is no matter of the partnership.
FinalizeAccountDeletion(generation) ==
    /\ Bumps /\ leaving # <<>>
    /\ Head(leaving).generation = generation /\ Head(leaving).recoverUntil <= today
    /\ ~ BreakupComesFirst
    /\ partnership' = [partnership EXCEPT !.lifecycle = "terminated", !.generation = Following]
    /\ leaving' = <<>>
    /\ endings' = Append(endings, "partner_account_deleted")
    /\ UNCHANGED <<letters, metadata, today>>

-----------------------------------------------------------------------------
(* Contexts.                                                                *)

\* lockPartnershipLifecycle's overlay: the request that was made first.
Overlay == IF leaving = <<>> THEN {} ELSE {Head(leaving).account}

AccountStatus(a) == IF Leaves(a) THEN "deletion_pending" ELSE "active"

NoMessage == {}

\* lifecycleCapabilityContext of the partnership service.
PartnershipContext(a) ==
    [actor |-> a, status |-> AccountStatus(a), lifecycle |-> partnership.lifecycle,
     breakup |-> partnership.breakup, deletion |-> Overlay, message |-> NoMessage]

MediaContext(a) == PartnershipContext(a)

MessageContext(a, i) == [PartnershipContext(a) EXCEPT !.message = {i}]

\* The relationship space leaves the freeze sequence out.
SpaceContext(a) ==
    [PartnershipContext(a) EXCEPT !.breakup = {[b EXCEPT !.freeze = 0] : b \in partnership.breakup}]

\* The change of the start date has no breakup and takes the actor to be active; the account
\* it finds view-only is the first, by id, that is not.
MetadataContext(a) ==
    [actor |-> a, status |-> "active", lifecycle |-> partnership.lifecycle, breakup |-> {},
     deletion |-> IF \E m \in Couple : AccountStatus(m) # "active"
                  THEN {CHOOSE m \in Couple : AccountStatus(m) # "active"} ELSE {},
     message |-> NoMessage]

CallContext(a) ==
    [actor |-> a, statuses |-> [m \in Couple |-> AccountStatus(m)], lifecycle |-> partnership.lifecycle,
     deletion |-> Overlay]

-----------------------------------------------------------------------------
(* Decisions.                                                               *)

\* Mutation: only the account that leaves is stopped.
ViewOnly_Own(ctx) == ctx.actor \in ctx.deletion

ViewOnly(ctx) == ctx.deletion # {}

AccountLocked(ctx) == ctx.status # "active" \/ ctx.actor \in ctx.deletion

FrozenByBreakup(ctx, i) == \E b \in ctx.breakup : i <= b.freeze

MessageDecision(capability, ctx) ==
    \E i \in ctx.message :
        /\ ~ letters[i].deleted
        /\ ctx.lifecycle = "breakup_pending" => ~ FrozenByBreakup(ctx, i)
        /\ capability \in {"edit_message", "delete_message"} => letters[i].by = ctx.actor
        /\ capability = "edit_message" => today < letters[i].at + EditTicks

Process(capability, ctx) ==
    CASE capability = "initiate_breakup" -> ctx.lifecycle = "active"
      [] capability = "cancel_breakup" ->
             \E b \in ctx.breakup : /\ ctx.lifecycle = "breakup_pending"
                                    /\ b.by = ctx.actor /\ today < b.cancelUntil
      [] capability = "submit_restore_intent" ->
             \E b \in ctx.breakup : /\ ctx.lifecycle = "breakup_pending"
                                    /\ b.cancelUntil <= today /\ today < b.final
                                    /\ ctx.actor \notin b.intents

ProcessCapabilities == {"initiate_breakup", "cancel_breakup", "submit_restore_intent"}
MessageCapabilities == {"edit_message", "delete_message", "react_message"}
ObjectCapabilities == {"create_relationship_object", "edit_relationship_object", "curate_relationship_space"}
Sendings == {"send_message", "send_media", "start_call", "change_nickname"}

\* evaluateCapability for the capabilities of a member.
Allows(capability, ctx) ==
    CASE capability = "recover_account" -> ctx.status = "deletion_pending" \/ ctx.actor \in ctx.deletion
      [] capability = "change_relationship_start_date" ->
             ctx.status = "active" /\ ctx.lifecycle # "terminated" /\ ~ ViewOnly(ctx)
      [] capability = "change_username" -> ~ AccountLocked(ctx) /\ ctx.lifecycle = "terminated"
      [] capability = "view_shared_data" -> ~ AccountLocked(ctx) /\ ctx.lifecycle # "terminated"
      [] capability = "block_former_partner" -> ~ AccountLocked(ctx) /\ ctx.lifecycle = "terminated"
      [] OTHER ->
             /\ ~ AccountLocked(ctx) /\ ctx.lifecycle # "terminated" /\ ~ ViewOnly(ctx)
             /\ capability \in ProcessCapabilities => Process(capability, ctx)
             /\ capability \in ObjectCapabilities => ctx.lifecycle # "breakup_pending"
             /\ capability \in MessageCapabilities => MessageDecision(capability, ctx)

EvaluateStartCall(ctx) ==
    ctx.lifecycle # "terminated" /\ ctx.deletion = {} /\ \A m \in Couple : ctx.statuses[m] = "active"

\* What GET /partnerships/current tells a member.
CurrentPartnership(a) ==
    [mode |-> IF Overlay # {} THEN "account_deletion_view_only"
              ELSE IF partnership.lifecycle = "breakup_pending" THEN "breakup_restricted" ELSE "normal",
     capabilities |-> {c \in ProcessCapabilities \cup {"change_relationship_start_date", "view_shared_data"} :
                           Allows(c, PartnershipContext(a))}]

-----------------------------------------------------------------------------
(* What the members do with them.                                           *)

SendsMessage(a) ==
    /\ Len(letters) < MaxSent /\ Allows("send_message", PartnershipContext(a))
    /\ letters' = Append(letters, [by |-> a, at |-> today, deleted |-> FALSE,
                             during |-> partnership.lifecycle = "breakup_pending"])
    /\ UNCHANGED <<partnership, leaving, endings, metadata, today>>

DeletesMessage(a, i) ==
    /\ i \in 1 .. Len(letters) /\ Allows("delete_message", MessageContext(a, i))
    /\ letters' = [letters EXCEPT ![i].deleted = TRUE]
    /\ UNCHANGED <<partnership, leaving, endings, metadata, today>>

LoadMetadata(a) ==
    /\ metadata' = [metadata EXCEPT !.loaded = @ \cup {a}]
    /\ UNCHANGED <<partnership, leaving, endings, letters, today>>

\* Mutation: the version the member has loaded is not compared.
SameVersion_Any(a) == TRUE

SameVersion(a) == a \in metadata.loaded

\* The version is incremented: the other member has the one before.  A date that is the
\* current one already is no change and needs no version.
UpdateStartDate(a) ==
    /\ Allows("change_relationship_start_date", MetadataContext(a)) /\ SameVersion(a)
    /\ metadata' = [loaded |-> {a}, blind |-> metadata.blind \/ a \notin metadata.loaded]
    /\ UNCHANGED <<partnership, leaving, endings, letters, today>>

ClockTicks ==
    /\ today < MaxTicks /\ today' = today + 1
    /\ UNCHANGED <<partnership, leaving, endings, letters, metadata>>

CapabilityNext ==
    \/ ClockTicks
    \/ \E a \in Couple : \/ InitiatesBreakup(a) \/ CancelBreakup(a) \/ SubmitRestoreIntent(a)
                         \/ RequestsAccountDeletion(a) \/ AlsoRequestsDeletion(a) \/ RecoverDeletedAccount(a)
                         \/ SendsMessage(a) \/ LoadMetadata(a) \/ UpdateStartDate(a)
                         \/ \E i \in 1 .. MaxSent : DeletesMessage(a, i)
    \/ \E g \in 1 .. MaxTransitions + 1 : FinalizeBreakup(g) \/ FinalizeAccountDeletion(g)

CapabilitySpec == CapabilityInit /\ [][CapabilityNext]_capabilityVars

-----------------------------------------------------------------------------
(* Properties.                                                              *)

\* Every view of a living partnership decides alike (evaluateCapability, evaluateStartCall):
\* what a member is told is what the domain's transitions let the member do; who leaves
\* may come back, and may do nothing else; while one leaves the other only looks on; a
\* breakup closes the shared objects and the messages sent before it, and nothing else.
\* The partnership ends once, and nobody replaces a start date unseen.
CapabilitiesAgree ==
    /\ Len(endings) <= 1
    /\ partnership.lifecycle = "terminated" <=> endings # <<>>
    /\ ~ metadata.blind
    /\ endings = <<>> => \A a \in Couple :
           LET here    == PartnershipContext(a)
               media   == MediaContext(a)
               space   == SpaceContext(a)
               told    == CurrentPartnership(a)
               may(c)  == Allows(c, here)
               closed  == partnership.lifecycle = "breakup_pending"
           IN  /\ may("start_call") <=> EvaluateStartCall(CallContext(a))
               /\ may("change_relationship_start_date")
                      <=> Allows("change_relationship_start_date", MetadataContext(a))
               /\ may("recover_account") <=> Leaves(a)
               /\ may("view_shared_data") <=> ~ Leaves(a)
               /\ Bumps => /\ "initiate_breakup" \in told.capabilities <=> ENABLED InitiatesBreakup(a)
                           /\ "cancel_breakup" \in told.capabilities <=> ENABLED CancelBreakup(a)
                           /\ "submit_restore_intent" \in told.capabilities <=> ENABLED SubmitRestoreIntent(a)
               /\ \A c \in Sendings : Allows(c, media) <=> told.mode # "account_deletion_view_only"
               /\ \A c \in ObjectCapabilities : Allows(c, space) <=> told.mode = "normal"
               /\ \A i \in 1 .. Len(letters) :
                      Allows("react_message", MessageContext(a, i))
                          <=> /\ leaving = <<>> /\ ~ letters[i].deleted
                              /\ closed => letters[i].during

=============================================================================
