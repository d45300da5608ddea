---------------------------- MODULE CryptoRuntime ----------------------------
(* The devices of a partnership bringing their copy of its encryption group   *)
(* up to date: every change is staged in the device's vault, sent, and         *)
(* promoted only when the server is seen to have accepted it, however its       *)
(* answer was lost (crypto-runtime.ts, local-vault.ts).                         *)
EXTENDS CryptoGroups

CONSTANTS
    Online,      \* bound: devices whose client runs
    Rotating,    \* bound: devices that set up a recovery key
    MaxSteps,    \* bound: requests staged
    MaxAbandoned,   \* bound: times a device stops halfway
    MaxSealed    \* bound: protected contents encrypted

ASSUME CryptoBounds == MaxSteps \in Nat /\ MaxAbandoned \in Nat /\ MaxSealed \in Nat

VARIABLES
    vault,    \* the stored group of each device: StoredGroupState, or NoGroup
    held,     \* the recovery key version the device holds
    operations,  \* the requests staged and not yet completed: FrozenCryptoOperation
    ensuring,    \* where ensurePartnership is, under the device's lock
    seen,     \* what the last loaded partnership state said
    reply,    \* the answer of the request a device waits for
    wire,     \* requests sent, by a device trusted then or not
    sealed,   \* protected writes on their way, checked or not yet
    staged,   \* how many requests were staged
    given,    \* how many times a device stopped halfway
    lag       \* a group was superseded under an open recovery setup

runtimeVars == <<vault, held, operations, ensuring, seen, reply, wire, sealed, staged,
                 given, lag>>
aux == <<given, lag>>
cryptoVars == <<serverVars, runtimeVars>>

NoGroup == [generation |-> 0, path |-> <<>>, epoch |-> 0, cursor |-> 0]
NoReply == [outcome |-> "none", sequence |-> 0]
Nothing == [generation |-> 0, epoch |-> 0, removals |-> {}, additions |-> {}]

RuntimeInit ==
    /\ vault = [d \in Devices |-> NoGroup]
    /\ held = [d \in Devices |-> IF d \in Enrolled THEN recovery[OwnerOf(d)] ELSE 0]
    /\ operations = [d \in Devices |-> {}]
    /\ ensuring = [d \in Devices |-> "idle"]
    /\ seen = [d \in Devices |-> Nothing]
    /\ reply = [d \in Devices |-> NoReply]
    /\ wire = {} /\ sealed = {} /\ staged = 0 /\ given = 0 /\ lag = FALSE

CryptoInit == ServerInit /\ RuntimeInit

-----------------------------------------------------------------------------
(* What a device reads and keeps.                                             *)

\* GET of the partnership's state, before its lists are needed and with them.
Summary ==
    [Nothing EXCEPT !.generation = Newest,
                    !.epoch = IF Newest = 0 THEN 0 ELSE EpochOf(ActiveGroup)]

Survey(d) ==
    [Summary EXCEPT
        !.removals = ActiveGroup.members \ (Trusted \cup {d}),
        !.additions = IF ActiveGroup.rekey THEN {}
                      ELSE Offered \ ActiveGroup.members]

\* A copy of the group that ensurePartnership keeps.
Matches(local, generation) ==
    /\ local # NoGroup
    /\ local.generation = generation /\ local.path[1] = groups[generation].id

\* A staged founding request that turns out to have made this generation.
Recovered(d, generation) ==
    {op \in operations[d] : op.kind \in {"bootstrap", "reset"}
                          /\ op.id = groups[generation].id}

Welcomes(d) ==
    {i \in 1 .. Len(ActiveGroup.log) : ActiveGroup.log[i].kind = "add" /\ ActiveGroup.log[i].target = d}

\* The request a device waits for is the one it staged last.
Awaited(d) == CHOOSE op \in operations[d] : \A other \in operations[d] : other.id <= op.id

Stage(d, kept, kind, local, target, base) ==
    LET id == staged + 1
        op == [id |-> id, from |-> d, kind |-> kind, generation |-> local.generation,
               epoch |-> local.epoch, target |-> target, path |-> Append(base, id),
               package |-> IF kind = "add" THEN spent[target] + 1 ELSE 0,
               version |-> IF kind = "reset" THEN held[d] ELSE 0]
    IN  /\ staged < MaxSteps
        /\ staged' = id
        /\ operations' = [operations EXCEPT ![d] = kept \cup {op}]
        /\ wire' = wire \cup {[op |-> op, admitted |-> d \in Trusted]}
        /\ ensuring' = [ensuring EXCEPT ![d] = "waiting"]

-----------------------------------------------------------------------------
(* ensurePartnership: one at a time on a device.                              *)

\* The first device to find no group founds one.
EnsurePartnership(d) ==
    /\ ensuring[d] = "idle" /\ d \in Trusted
    /\ \/ /\ Newest = 0
          /\ Stage(d, operations[d], "bootstrap", NoGroup, d, <<>>)
          /\ UNCHANGED seen
       \/ /\ Newest > 0
          /\ ensuring' = [ensuring EXCEPT ![d] = "loaded"]
          /\ seen' = [seen EXCEPT ![d] = Summary]
          /\ UNCHANGED <<operations, wire, staged>>
    /\ UNCHANGED <<serverVars, vault, held, reply, sealed, aux>>

\* A copy of another group is given up, unless it is the old one of a reset
\* whose answer was lost; without a copy: that reset, a lost bootstrap, or the
\* welcome in the log, which is read only now.
Reopened(d, generation) ==
    LET lost == {op \in Recovered(d, generation) : op.kind = "reset" \/ vault[d] = NoGroup}
        op == CHOOSE each \in lost : TRUE
        at == CHOOSE i \in Welcomes(d) : \A j \in Welcomes(d) : i <= j
        same == Matches(vault[d], generation)
        left == IF vault[d] = NoGroup THEN operations[d] ELSE {}
    IN  CASE same -> [local |-> vault[d], left |-> operations[d]]
          [] ~same /\ lost # {} ->
                [local |-> [generation |-> generation, path |-> op.path, epoch |-> 0,
                            cursor |-> IF op.kind = "reset" THEN 1 ELSE 0],
                 left |-> operations[d] \ {op}]
          [] ~same /\ lost = {} /\ Welcomes(d) # {} ->
                [local |-> [generation |-> generation, path |-> ActiveGroup.log[at].path,
                            epoch |-> Len(ActiveGroup.log[at].path) - 1, cursor |-> at],
                 left |-> left]
          [] OTHER -> [local |-> NoGroup, left |-> left]

\* One control message: a reset only moves the cursor, a commit must continue
\* the state the device is in, or the engine throws.
Follow(local, entry) ==
    CASE ~local.sound -> local
      [] local.sound /\ entry.kind = "reset" -> [local EXCEPT !.cursor = @ + 1]
      [] local.sound /\ entry.kind # "reset" /\ entry.path = Append(local.path, entry.id) ->
            [local EXCEPT !.path = entry.path, !.epoch = Len(entry.path) - 1,
                          !.cursor = @ + 1]
      [] OTHER -> [local EXCEPT !.sound = FALSE]

\* All of them, as a function, which a proof can unfold.
Followed(local, controls) ==
    LET reached[n \in 0 .. Len(controls)] ==
            IF n = 0 THEN local ELSE Follow(reached[n - 1], controls[n])
    IN  reached[Len(controls)]

Sound(local, sound) ==
    [generation |-> local.generation, path |-> local.path, epoch |-> local.epoch,
     cursor |-> local.cursor, sound |-> sound]
Stored(local) ==
    [generation |-> local.generation, path |-> local.path, epoch |-> local.epoch,
     cursor |-> local.cursor]

\* Members whose device is no longer trusted go first, then devices are added;
\* each request waits for the answer to the one before it.
CommitControl(d, kept, lists, local) ==
    \/ \E target \in lists.removals :
          Stage(d, kept, "remove", local, target, local.path)
    \/ /\ lists.removals = {}
       /\ \E target \in lists.additions :
             Stage(d, kept, "add", local, target, local.path)
    \/ /\ lists.removals = {} /\ lists.additions = {}
       /\ ensuring' = [ensuring EXCEPT ![d] = "idle"]
       /\ operations' = [operations EXCEPT ![d] = kept]
       /\ UNCHANGED <<wire, staged>>

\* The staged requests that are among the controls after the cursor.
Landed(opened) ==
    {op \in opened.left : op.kind # "bootstrap"
        /\ \E i \in opened.local.cursor + 1 .. Len(ActiveGroup.log) : ActiveGroup.log[i].id = op.id}

\* Those made for an epoch that is over.
Outdated(opened, epoch) == {op \in opened.left : op.kind # "bootstrap" /\ op.epoch < epoch}

\* The last of those that landed is promoted.
Promoted(opened, generation) ==
    LET mine == Landed(opened)
        own == CHOOSE op \in mine : \A other \in mine : other.id <= op.id
        at == CHOOSE i \in 1 .. Len(ActiveGroup.log) : ActiveGroup.log[i].id = own.id
    IN  IF mine = {} THEN opened.local
        ELSE [generation |-> generation, path |-> own.path,
              epoch |-> Len(ActiveGroup.log[at].path) - 1, cursor |-> at]

\* The controls after the cursor: first the device's own staged request is
\* promoted if it is among them, then the others are followed.  The state loaded
\* after them says what is left to commit.
ProcessControls(d) ==
    LET opened == Reopened(d, seen[d].generation)
        local == opened.local
        promoted == Promoted(opened, seen[d].generation)
        reached == Followed(Sound(promoted, TRUE), ControlsAfter(promoted.cursor))
        useless == local = NoGroup \/ ~reached.sound
        kept == opened.left \ IF local = NoGroup THEN {}
                              ELSE Landed(opened) \cup Outdated(opened, seen[d].epoch)
        lists == IF useless THEN Nothing ELSE Survey(d)
    IN  /\ ensuring[d] = "loaded" /\ d \in Trusted
        /\ vault' = [vault EXCEPT ![d] =
                IF local = NoGroup THEN NoGroup ELSE Stored(reached)]
        /\ CommitControl(d, kept, lists, vault'[d])
        /\ seen' = [seen EXCEPT ![d] = lists]
        /\ UNCHANGED <<serverVars, held, reply, sealed, aux>>

\* The repair offered to a trusted device that has no copy of the group.
ResetPartnershipGroup(d) ==
    /\ ensuring[d] = "idle" /\ d \in Trusted /\ Newest > 0 /\ cryptoPolicy.required
    /\ vault[d] = NoGroup /\ Recovered(d, Newest) = {}
    /\ held[d] > 0 /\ held[d] = recovery[OwnerOf(d)]
    /\ Stage(d, operations[d], "reset", Summary, d, <<>>)
    /\ UNCHANGED <<serverVars, vault, held, seen, reply, sealed, aux>>

-----------------------------------------------------------------------------
(* The request and its answer.                                                *)

Waits(op) == ensuring[op.from] = "waiting" /\ op \in operations[op.from] /\ op = Awaited(op.from)

Answer(op, outcome, sequence) ==
    reply' = IF Waits(op)
             THEN [reply EXCEPT ![op.from] = [outcome |-> outcome, sequence |-> sequence]]
             ELSE reply

\* The sender's identity is read without a lock: a request sent while it was
\* trusted may be served although it is revoked by then.  One that stays on the
\* wire for ever is lost.
ServeControl(w) ==
    /\ wire' = wire \ {w}
    /\ \/ w.admitted /\ Apply(w.op)
          /\ Answer(w.op, "accepted", Len(groups'[Len(groups')].log))
       \/ /\ w.op.from \notin Trusted \/ ~Accepts(w.op)
          /\ Answer(w.op, IF w.op.from \in Trusted /\ Conflicts(w.op)
                          THEN "conflict" ELSE "refused", 0)
          /\ UNCHANGED serverVars
    /\ UNCHANGED <<vault, held, operations, ensuring, seen, sealed, staged, aux>>

\* Promotion; then the state is loaded again and the next target is taken.
Accepted(d) ==
    LET op == Awaited(d)
        local == [generation |-> CASE op.kind = "bootstrap" -> 1
                                   [] op.kind = "reset" -> op.generation + 1
                                   [] OTHER -> vault[d].generation,
                  path |-> op.path, epoch |-> Len(op.path) - 1,
                  cursor |-> reply[d].sequence]
        superseded == op.kind = "reset" /\ ActiveGroup.id # op.id
        kept == IF superseded THEN operations[d] ELSE operations[d] \ {op}
        left == CASE d \notin Trusted \/ op.kind = "reset" -> Nothing
                  [] d \in Trusted /\ op.kind = "bootstrap" -> Survey(d)
                  [] d \in Trusted /\ op.kind = "remove" ->
                        [Survey(d) EXCEPT !.removals = seen[d].removals \ {op.target}]
                  [] OTHER -> [seen[d] EXCEPT !.additions = @ \ {op.target}]
    IN  /\ ensuring[d] = "waiting" /\ reply[d].outcome = "accepted"
        /\ reply' = [reply EXCEPT ![d] = NoReply]
        /\ vault' = IF superseded THEN vault ELSE [vault EXCEPT ![d] = local]
        /\ CommitControl(d, kept, left, local)
        /\ seen' = [seen EXCEPT ![d] = left]
        /\ UNCHANGED <<serverVars, held, sealed, aux>>

\* Refused for good: the staged request is forgotten.  A device that lost the
\* race to found the group goes on to look for its welcome.
Conflicted(d) ==
    LET op == Awaited(d)
        again == op.kind = "bootstrap" /\ d \in Trusted
    IN  /\ ensuring[d] = "waiting" /\ reply[d].outcome = "conflict"
        /\ reply' = [reply EXCEPT ![d] = NoReply]
        /\ operations' = [operations EXCEPT ![d] = @ \ {op}]
        /\ ensuring' = [ensuring EXCEPT ![d] = IF again THEN "loaded" ELSE "idle"]
        /\ seen' = [seen EXCEPT ![d] = IF again THEN Summary ELSE Nothing]
        /\ UNCHANGED <<serverVars, vault, held, wire, sealed, staged, aux>>

\* What was staged stays staged: after a refusal that may pass, and when the
\* network or the tab is lost, wherever the device was.
Stopped(d) ==
    /\ ensuring' = [ensuring EXCEPT ![d] = "idle"]
    /\ reply' = [reply EXCEPT ![d] = NoReply]
    /\ seen' = [seen EXCEPT ![d] = Nothing]
    /\ UNCHANGED <<serverVars, vault, held, operations, wire, sealed, staged, lag>>

Refused(d) == reply[d].outcome = "refused" /\ Stopped(d) /\ UNCHANGED given

StopHalfway(d) ==
    /\ ensuring[d] # "idle" /\ reply[d].outcome # "refused"
    /\ given < MaxAbandoned /\ given' = given + 1
    /\ Stopped(d)

-----------------------------------------------------------------------------
(* Recovery keys, and content. *)

\* A device enrols when its runtime starts; a trusted one approves it.
StartRuntime(d) == EnrollDevice(d) /\ UNCHANGED runtimeVars
ApprovePending(d) == ApproveDevice(d) /\ UNCHANGED runtimeVars

\* The version is the one after the device's own, not after the server's.
SetupRecovery(d) ==
    BeginRecoverySetup(d, held[d] + 1) /\ UNCHANGED runtimeVars

\* The device learns the key it set up only from the answer.
RecoverySetUp ==
    /\ FinishRecoverySetup
    /\ held' \in {held, [held EXCEPT ![setup.device] = setup.version]}
    /\ lag' = (lag \/ setup.generation < Newest)
    /\ UNCHANGED <<vault, operations, ensuring, seen, reply, wire, sealed, staged, given>>

\* So it is for the device that proves it has the key.
RecoverWithMasterSecret(d) ==
    /\ ProveRecovery(d)
    /\ held' \in {held, [held EXCEPT ![d] = challenge[d]]}
    /\ UNCHANGED <<vault, operations, ensuring, seen, reply, wire, sealed, staged, aux>>

\* Content is encrypted with whatever copy is stored, up to date or not: the
\* reconciliation before it may have failed for want of a network.
ProtectBytes(d) ==
    /\ ensuring[d] = "idle" /\ vault[d] # NoGroup /\ cryptoPolicy.required
    /\ Cardinality(sealed) + Cardinality(contentKeys) < MaxSealed
    /\ sealed' = sealed \cup {[from |-> d, generation |-> vault[d].generation,
                                epoch |-> vault[d].epoch, path |-> vault[d].path,
                                checked |-> FALSE]}
    /\ UNCHANGED <<serverVars, vault, held, operations, ensuring, seen, reply, wire,
                   staged, aux>>

RequireCryptoProtectedWrite(envelope) ==
    /\ ~envelope.checked
    /\ sealed' = (sealed \ {envelope}) \cup
            IF MayProtect(envelope) THEN {[envelope EXCEPT !.checked = TRUE]} ELSE {}
    /\ UNCHANGED <<serverVars, vault, held, operations, ensuring, seen, reply, wire,
                   staged, aux>>

WriteProtected(envelope) ==
    /\ envelope.checked /\ InsertContentKey(envelope)
    /\ sealed' = sealed \ {envelope}
    /\ UNCHANGED <<vault, held, operations, ensuring, seen, reply, wire, staged, aux>>

-----------------------------------------------------------------------------
CryptoNext ==
    \/ \E d \in Devices :
          \/ (CreateRecoveryChallenge(d) \/ RevokeIdentity(d)) /\ UNCHANGED runtimeVars
          \/ StartRuntime(d) \/ ApprovePending(d)
          \/ d \in Online /\ EnsurePartnership(d)
          \/ ProcessControls(d)
          \/ d \in Online /\ ResetPartnershipGroup(d)
          \/ Accepted(d) \/ Conflicted(d)
          \/ Refused(d) \/ StopHalfway(d)
          \/ d \in Rotating /\ SetupRecovery(d)
          \/ RecoverWithMasterSecret(d) \/ ProtectBytes(d)
    \/ RecoverySetUp
    \/ \E w \in wire : ServeControl(w)
    \/ \E envelope \in sealed :
          RequireCryptoProtectedWrite(envelope) \/ WriteProtected(envelope)

-----------------------------------------------------------------------------
CryptoTypeOK ==
    /\ trust \in [Devices -> {"absent", "pending", "trusted", "revoked"}]
    /\ spent \in [Devices -> 0 .. Packages]
    /\ challenge \in [Devices -> 0 .. MaxVersion]
    /\ recovery \in [Accounts -> 0 .. MaxVersion]
    /\ held \in [Devices -> 0 .. MaxVersion]
    /\ \A d \in Devices :
          /\ vault[d].path \in Seq(1 .. MaxSteps) /\ vault[d].cursor \in 0 .. MaxSteps
          /\ ensuring[d] \in {"idle", "loaded", "waiting"}
    /\ staged \in 0 .. MaxSteps /\ lag \in BOOLEAN

\* The state of a generation after the first entries of its log: that of the last commit of them.
PathAt(group, cursor) ==
    IF cursor = 0 \/ group.log[cursor].kind = "reset" THEN <<group.id>> ELSE group.log[cursor].path

\* Every accepted commit continues the accepted state before it, every copy a
\* device would go on using is the server's at its cursor, and every accepted
\* content was encrypted in the state its epoch had for all members.
EpochsAgree ==
    /\ \A g \in 1 .. Newest : LET log == groups[g].log IN
          \A i \in 1 .. Len(log) :
             log[i].kind # "reset" =>
                log[i].path = Append(IF i = 1 THEN <<groups[g].id>> ELSE log[i - 1].path,
                                     log[i].id)
    /\ \A d \in Devices : Newest > 0 /\ Matches(vault[d], Newest) =>
          /\ vault[d].cursor \in 0 .. Len(ActiveGroup.log)
          /\ vault[d].path = PathAt(ActiveGroup, vault[d].cursor)
          /\ vault[d].epoch = Len(vault[d].path) - 1
    /\ \A key \in contentKeys :
          key.path = SubSeq(groups[key.generation].path, 1, key.epoch + 1)

\* Each package is consumed by one addition; every member but the founder has
\* its welcome in the log, and a founder whose answer was lost its request.
MembersCanJoin ==
    /\ \A d \in Devices :
          spent[d] = Cardinality({at \in (1 .. Newest) \X (1 .. MaxSteps) :
                        LET log == groups[at[1]].log
                        IN  at[2] <= Len(log) /\ log[at[2]].kind = "add" /\ log[at[2]].target = d})
    /\ Newest > 0 => \A d \in ActiveGroup.members :
          \/ Matches(vault[d], Newest) \/ Welcomes(d) # {} \/ Recovered(d, Newest) # {}

\* The group is marked while a revoked device is in it.  The one it may miss is
\* a founder revoked between the reading of its identity and the founding.
RekeyTracked ==
    Newest > 0 =>
        /\ RekeyRequired(ActiveGroup.members \ ActiveGroup.unvouched) => ActiveGroup.rekey
        /\ ActiveGroup.rekey => RekeyRequired(ActiveGroup.members)

\* Writes are held to the active generation, unless a recovery setup that read
\* the group before a reset committed after it.
PolicyFollows ==
    cryptoPolicy.required =>
        cryptoPolicy.generation \in 1 .. Newest /\ (cryptoPolicy.generation = Newest \/ lag)

\* The encryption group of a partnership, on the server and on every device: the
\* copies agree, members can join, revoked ones are tracked, writes are fenced.
CryptoAccounted == EpochsAgree /\ MembersCanJoin /\ RekeyTracked /\ PolicyFollows

=============================================================================
