------------------------------ MODULE Nicknames ------------------------------
(***************************************************************************)
(* A nickname edited in the panel while the conversation is read again     *)
(* behind it, and while the other member or another device changes it.     *)
(*                                                                         *)
(* What the server admits besides the version is in Messaging.             *)
(***************************************************************************)
EXTENDS Naturals, Sequences

CONSTANTS
    MaxNames,      \* bound: versions of the nickname
    MaxRefreshes,  \* bound: reads of the conversation behind the panel
    MaxFaults      \* bound: requests that fail

ASSUME NicknamesAssumption == MaxNames \in Nat \ {0} /\ {MaxRefreshes, MaxFaults} \subseteq Nat

VARIABLES
    names,     \* for every version, the one it was written over by a member looking at it
    field,      \* the field, and the request under way
    behind,    \* a read of the conversation that is not shown yet: its version, or 0
    refreshes, faults

nameVars == <<names, field, behind, refreshes, faults>>

NameVersions == 1 .. MaxNames
FieldState == [known : NameVersions,       \* nicknameVersion of the conversation shown
         typed : BOOLEAN,        \* nicknameDirtyRef
         over : NameVersions,        \* the version the field showed last
         step : {"rest", "request", "saved", "conflict"}, expected : 0 .. MaxNames]

NameTypeOK ==
    /\ names \in Seq([by : {"panel", "elsewhere"}, over : 0 .. MaxNames, moved : BOOLEAN])
    /\ Len(names) \in NameVersions /\ field \in FieldState
    /\ behind \in 0 .. MaxNames /\ refreshes \in 0 .. MaxRefreshes /\ faults \in 0 .. MaxFaults

NameInit ==
    /\ names = <<[by |-> "elsewhere", over |-> 0, moved |-> FALSE]>>
    /\ field = [known |-> 1, typed |-> FALSE, over |-> 1, step |-> "rest", expected |-> 0]
    /\ behind = 0 /\ refreshes = 0 /\ faults = 0

\* refreshConversation: what is being typed stays, the version under it does not.
Renewed(f, version) == [f EXCEPT !.known = version, !.over = IF f.typed THEN @ ELSE version]

\* The field is disabled while a request is under way.
TypeNickname ==
    /\ field.step = "rest" /\ ~ field.typed
    /\ field' = [field EXCEPT !.typed = TRUE]
    /\ UNCHANGED <<names, behind, refreshes, faults>>

SaveNickname ==
    /\ field.step = "rest"
    /\ field' = [field EXCEPT !.step = "request", !.expected = field.known]
    /\ UNCHANGED <<names, behind, refreshes, faults>>

\* Mutation: a nickname is written whatever its version.
AtVersion_Any(expected) == TRUE

AtVersion(expected) == expected = Len(names)

WrittenNickname ==
    /\ AtVersion(field.expected) /\ Len(names) < MaxNames
    /\ names' = Append(names, [by |-> "panel", over |-> field.over, moved |-> field.expected # field.over])

NicknameSaved ==
    /\ field.step = "request" /\ WrittenNickname
    /\ field' = [field EXCEPT !.step = "saved", !.typed = FALSE, !.expected = 0]
    /\ UNCHANGED <<behind, refreshes, faults>>

NicknameConflict ==
    /\ field.step = "request" /\ ~ AtVersion(field.expected)
    /\ field' = [field EXCEPT !.step = "conflict", !.expected = 0]
    /\ UNCHANGED <<names, behind, refreshes, faults>>

\* The request, or only its answer, is lost.
SaveFails ==
    /\ field.step = "request" /\ faults < MaxFaults /\ faults' = faults + 1
    /\ WrittenNickname \/ UNCHANGED names
    /\ field' = [field EXCEPT !.step = "rest", !.expected = 0]
    /\ UNCHANGED <<behind, refreshes>>

\* The conversation is read again after the answer; after a conflict what was typed is kept.
RefreshAfter ==
    /\ field.step \in {"saved", "conflict"}
    /\ field' = [Renewed(field, Len(names)) EXCEPT !.step = "rest"]
    /\ UNCHANGED <<names, behind, refreshes, faults>>

ReadBehind ==
    /\ behind = 0 /\ refreshes < MaxRefreshes /\ refreshes' = refreshes + 1
    /\ behind' = Len(names)
    /\ UNCHANGED <<names, field, faults>>

\* It is shown whatever was shown since it was read.
ShowBehind ==
    /\ behind # 0 /\ behind' = 0
    /\ field' = Renewed(field, behind)
    /\ UNCHANGED <<names, refreshes, faults>>

NameElsewhere ==
    /\ Len(names) < MaxNames
    /\ names' = Append(names, [by |-> "elsewhere", over |-> Len(names), moved |-> FALSE])
    /\ UNCHANGED <<field, behind, refreshes, faults>>

NameNext ==
    \/ TypeNickname \/ SaveNickname \/ NicknameSaved \/ NicknameConflict \/ SaveFails \/ RefreshAfter
    \/ ReadBehind \/ ShowBehind \/ NameElsewhere

NameSpec == NameInit /\ [][NameNext]_nameVars

-----------------------------------------------------------------------------
(* Properties.                                                              *)

\* saveNickname replaces the version its member was looking at, whatever was read behind the
\* panel meanwhile and however late: unless a read behind moved the version from under what
\* was being typed, and then an unseen nickname is replaced.
NicknamesAccounted ==
    \A v \in DOMAIN names :
        (names[v].by = "panel" /\ ~ names[v].moved) => names[v].over = v - 1

=============================================================================
