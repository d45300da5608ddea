---------------------------- MODULE CryptoGroups ----------------------------
(* The encryption groups of one partnership, server side: the devices' crypto *)
(* identities and key packages, the generations of the group with their       *)
(* membership, epoch and ordered log of control messages, the policy that      *)
(* makes encryption compulsory, the recovery keys, and the content keys that   *)
(* are accepted (crypto-service.ts, repositories/crypto.ts, migrations 19-21). *)
(* Requests come from module CryptoRuntime.                                    *)
EXTENDS Integers, Sequences, FiniteSets

CONSTANTS
    AliceDevices, BobDevices,   \* the devices of the two members
    Enrolled,                   \* those that are trusted at the start
    KeyOwners,                  \* the members with a recovery key at the start
    Revocable,                  \* bound: those that may be revoked
    Packages,                   \* key packages a device uploads, once
    MaxVersion                  \* bound: versions of a recovery key

ASSUME CryptoAssumption ==
    /\ AliceDevices \cap BobDevices = {}
    /\ Enrolled \cup Revocable \subseteq AliceDevices \cup BobDevices
    /\ KeyOwners \subseteq {"alice", "bob"}
    /\ Packages \in Nat /\ MaxVersion \in Nat

VARIABLES
    trust,      \* device_crypto_identities.trust_state
    spent,      \* key packages consumed, oldest first
    challenge,  \* the recovery version of a device's open challenge, 0: none
    groups,     \* partnership_crypto_groups; the last generation is active
    cryptoPolicy,     \* partnerships.crypto_required_from, crypto_group_generation
    recovery,   \* account_crypto_recovery: the current version, 0: none
    setup,      \* setupRecovery between its reads and its commit
    contentKeys \* protected_content_keys

serverVars == <<trust, spent, challenge, groups, cryptoPolicy, recovery, setup,
                contentKeys>>

Devices == AliceDevices \cup BobDevices
Accounts == {"alice", "bob"}
OwnerOf(d) == IF d \in AliceDevices THEN "alice" ELSE "bob"
NoSetup == [owner |-> "none"]

Newest == Len(groups)
ActiveGroup == groups[Newest]
EpochOf(group) == Len(group.path) - 1

Trusted == {d \in Devices : trust[d] = "trusted"}
Unlocked(owner) == setup.owner # owner

IsMember(d) == d \in ActiveGroup.members

\* A package is offered once, by a device that is trusted.
Available(d, package) ==
    d \in Trusted /\ package = spent[d] + 1 /\ package <= Packages
Offered == {d \in Trusted : spent[d] < Packages}
Consume(d, package) == spent' = [spent EXCEPT ![d] = package]

\* What a device may read of the active group's log.
ControlsAfter(cursor) == SubSeq(ActiveGroup.log, cursor + 1, Len(ActiveGroup.log))

ServerInit ==
    /\ trust = [d \in Devices |-> IF d \in Enrolled THEN "trusted" ELSE "absent"]
    /\ spent = [d \in Devices |-> 0]
    /\ challenge = [d \in Devices |-> 0]
    /\ groups = <<>>
    /\ cryptoPolicy = [required |-> FALSE, generation |-> 0]
    /\ recovery = [o \in Accounts |-> IF o \in KeyOwners THEN 1 ELSE 0]
    /\ setup = NoSetup
    /\ contentKeys = {}

-----------------------------------------------------------------------------
(* Identities. *)

MarkTrusted(d) == trust[d] = "pending" /\ trust' = [trust EXCEPT ![d] = "trusted"]

\* The first device of an account is trusted at once, the others wait.
EnrollDevice(d) ==
    LET owner == OwnerOf(d)
        first == \A e \in Trusted : OwnerOf(e) # owner
    IN  /\ trust[d] = "absent" /\ Unlocked(owner)
        /\ trust' = [trust EXCEPT ![d] = IF first THEN "trusted" ELSE "pending"]
        /\ UNCHANGED <<spent, challenge, groups, cryptoPolicy, recovery, setup,
                       contentKeys>>

ApproveDevice(d) ==
    /\ Unlocked(OwnerOf(d))
    /\ \E by \in Trusted : OwnerOf(by) = OwnerOf(d)
    /\ MarkTrusted(d)
    /\ UNCHANGED <<spent, challenge, groups, cryptoPolicy, recovery, setup, contentKeys>>

\* A new challenge fails the one that was open.
OpenChallenge(d, version) == challenge' = [challenge EXCEPT ![d] = version]

\* It proves the key it was made for, while that is still the current one.
ChallengeHolds(d) == challenge[d] > 0 /\ challenge[d] = recovery[OwnerOf(d)]

CreateRecoveryChallenge(d) ==
    /\ trust[d] = "pending" /\ recovery[OwnerOf(d)] > 0
    /\ OpenChallenge(d, recovery[OwnerOf(d)])
    /\ UNCHANGED <<trust, spent, groups, cryptoPolicy, recovery, setup, contentKeys>>

ProveRecovery(d) ==
    /\ Unlocked(OwnerOf(d)) /\ ChallengeHolds(d)
    /\ MarkTrusted(d)
    /\ challenge' = [challenge EXCEPT ![d] = 0]
    /\ UNCHANGED <<spent, groups, cryptoPolicy, recovery, setup, contentKeys>>

\* The trigger on identities: the active group it is still a member of.
MarkRekey(d) ==
    IF Newest > 0 /\ IsMember(d)
    THEN [groups EXCEPT ![Newest].rekey = TRUE] ELSE groups

\* Revoking a device revokes its identity, and its unused packages with it.
RevokeIdentity(d) ==
    /\ d \in Revocable /\ trust[d] \in {"pending", "trusted"}
    /\ Unlocked(OwnerOf(d))
    /\ trust' = [trust EXCEPT ![d] = "revoked"]
    /\ groups' = MarkRekey(d)
    /\ UNCHANGED <<spent, challenge, cryptoPolicy, recovery, setup, contentKeys>>

-----------------------------------------------------------------------------
(* When encryption becomes compulsory. *)

\* Both members have a device in this generation and a recovery key.
Ready(all, generation, keys) ==
    /\ \A o \in Accounts : \E d \in all[generation].members : OwnerOf(d) = o
    /\ \A o \in Accounts : keys[o] > 0

\* Whether plaintext remains in the content tables is for them to say.
ActivateIfReady(all, generation, keys) ==
    \E plaintextRemains \in BOOLEAN :
        cryptoPolicy' = IF Ready(all, generation, keys) /\ ~plaintextRemains
                  THEN [required |-> TRUE, generation |-> generation]
                  ELSE cryptoPolicy

\* The account is locked; the group is read without a lock.
BeginRecoverySetup(d, version) ==
    /\ d \in Trusted /\ setup = NoSetup
    /\ version = recovery[OwnerOf(d)] + 1 /\ version <= MaxVersion
    /\ setup' = [owner |-> OwnerOf(d), device |-> d, version |-> version,
                 generation |-> Newest]
    /\ UNCHANGED <<trust, spent, challenge, groups, cryptoPolicy, recovery, contentKeys>>

ReplaceRecovery(owner, version) == [recovery EXCEPT ![owner] = version]

FinishRecoverySetup ==
    LET replaced == ReplaceRecovery(setup.owner, setup.version)
    IN  /\ setup # NoSetup
        /\ recovery' = replaced
        /\ IF setup.generation > 0
           THEN ActivateIfReady(groups, setup.generation, replaced)
           ELSE UNCHANGED cryptoPolicy
        /\ setup' = NoSetup
        /\ UNCHANGED <<trust, spent, challenge, groups, contentKeys>>

-----------------------------------------------------------------------------
(* The group: requests are records of module CryptoRuntime.                   *)

\* A generation: its id, state (the commits it went through), members, log and
\* the founder if it was revoked after its identity was read.
NewGroup(op, log) ==
    [id |-> op.id, path |-> op.path, members |-> {op.from}, rekey |-> FALSE,
     log |-> log, unvouched |-> {op.from} \ Trusted]

\* Writes are held to the new generation from here on.
ActivateReset(generation) ==
    cryptoPolicy' = [cryptoPolicy EXCEPT !.generation = generation]

Entry(op) == [id |-> op.id, kind |-> op.kind, target |-> op.target,
              path |-> op.path]

\* One epoch and one entry of the log further.
Advanced(group, op) ==
    [group EXCEPT !.path = op.path, !.log = Append(@, Entry(op))]
WithMember(group, d) == [group EXCEPT !.members = @ \cup {d}]
WithoutMember(group, d) == [group EXCEPT !.members = @ \ {d}]

\* Mutation: the generation is compared, the epoch is not.
AtHead_AnyEpoch(op) == Newest > 0 /\ op.generation = Newest

\* The group's row is locked: the request names its generation and epoch.
AtHead(op) ==
    /\ Newest > 0
    /\ op.generation = Newest /\ op.epoch = EpochOf(ActiveGroup)

MayBootstrap(op) == op.kind = "bootstrap" /\ Newest = 0

MayReset(op) ==
    /\ op.kind = "reset" /\ AtHead(op)
    /\ cryptoPolicy.required /\ op.version = recovery[OwnerOf(op.from)]

MayCommit(op) ==
    /\ AtHead(op)
    /\ IsMember(op.from)
    /\ ActiveGroup.rekey => op.kind = "remove"

MayAdd(op) ==
    /\ op.kind = "add" /\ MayCommit(op)
    /\ op.target \in Trusted \ ActiveGroup.members
    /\ Available(op.target, op.package)

MayRemove(op) ==
    /\ op.kind = "remove" /\ MayCommit(op)
    /\ trust[op.target] = "revoked" /\ IsMember(op.target)

\* The refusals after which the sender forgets the request.
Conflicts(op) ==
    \/ op.kind = "bootstrap" /\ Newest > 0
    \/ op.kind # "bootstrap" /\ Newest > 0 /\ ~AtHead(op)
    \/ op.kind = "reset" /\ AtHead(op) /\ cryptoPolicy.required
       /\ op.version # recovery[OwnerOf(op.from)]
    \/ op.kind = "add" /\ MayCommit(op) /\ op.target \in Trusted \ ActiveGroup.members
       /\ ~Available(op.target, op.package)

Bootstrap(op) ==
    /\ MayBootstrap(op)
    /\ groups' = <<NewGroup(op, <<>>)>>
    /\ UNCHANGED <<spent, cryptoPolicy>>

\* The old generation is superseded; the founder starts alone.
Reset(op) ==
    /\ MayReset(op)
    /\ groups' = Append(groups, NewGroup(op, <<Entry(op)>>))
    /\ ActivateReset(Newest + 1)
    /\ UNCHANGED spent

AddMember(op) ==
    LET all == [groups EXCEPT ![Newest] = WithMember(Advanced(@, op), op.target)]
    IN  /\ MayAdd(op)
        /\ groups' = all
        /\ Consume(op.target, op.package)
        /\ ActivateIfReady(all, Newest, recovery)

\* A group needs its key changed while a revoked device is a member.
RekeyRequired(members) == \E d \in members : trust[d] = "revoked"

RemoveMember(op) ==
    LET left == WithoutMember(Advanced(ActiveGroup, op), op.target)
        all == [groups EXCEPT ![Newest] =
                    [left EXCEPT !.rekey = RekeyRequired(left.members)]]
    IN  /\ MayRemove(op)
        /\ groups' = all
        /\ ActivateIfReady(all, Newest, recovery)
        /\ UNCHANGED spent

Apply(op) ==
    /\ Bootstrap(op) \/ Reset(op) \/ AddMember(op) \/ RemoveMember(op)
    /\ UNCHANGED <<trust, challenge, recovery, setup, contentKeys>>

Accepts(op) == MayBootstrap(op) \/ MayReset(op) \/ MayAdd(op) \/ MayRemove(op)

-----------------------------------------------------------------------------
(* Content. *)

\* What a protected write is checked against, without a lock on the group.
MayProtect(envelope) ==
    /\ cryptoPolicy.required /\ cryptoPolicy.generation = Newest
    /\ ~ActiveGroup.rekey
    /\ envelope.generation = Newest /\ envelope.epoch = EpochOf(ActiveGroup)
    /\ envelope.from \in Trusted \cap ActiveGroup.members
    /\ Trusted \subseteq ActiveGroup.members
    /\ \A o \in Accounts : recovery[o] > 0

InsertContentKey(envelope) ==
    /\ contentKeys' = contentKeys \cup {envelope}
    /\ UNCHANGED <<trust, spent, challenge, groups, cryptoPolicy, recovery, setup>>

=============================================================================
