--------------------------- MODULE AccountAccess ---------------------------
(* Sessions, devices, passwords and mailed codes of one account, and the      *)
(* cookies of the browsers that use it.  A request reads its session, or its  *)
(* password, before the transaction that acts on it, and its answer may be    *)
(* lost or come late.  The calls and the push subscriptions that a revocation *)
(* ends are those of Calls and of Outbox.                                     *)
EXTENDS Integers, FiniteSets

CONSTANTS
    Browsers,     \* each holds one session cookie and one device cookie
    Slots,        \* requests under way at once
    Emails,       \* addresses the account may have
    MaxSessions,  \* bound: sessions ever opened
    MaxDevices,   \* bound: devices ever created
    MaxSignOuts,  \* bound: resets, address changes and deletions
    MaxBegun,     \* bound: requests begun
    MaxAttempts,  \* wrong codes before a code is dead
    LoginLimit    \* logins of an identifier per window

ASSUME AccessAssumption == {MaxSessions, MaxDevices} \subseteq Nat \ {0}

SessionIds == 1..MaxSessions
DeviceIds == 1..MaxDevices
Purposes == {"email_change", "password_recovery", "account_recovery"}
Logins == 0..(LoginLimit + 1)

VARIABLES
    credentials, \* status, password, address, and whether its hash is dated
    session,     \* session |-> device, token generation, and whether it is live
    device,      \* device |-> generation of its handle, and whether it is revoked
    mailed,      \* purpose |-> its active code: address and wrong attempts
    bucket,      \* logins counted for the identifier; above the limit is blocked
    epoch,       \* times that every session was revoked
    begun,       \* requests begun
    jar,         \* browser |-> its cookies
    request,     \* slot |-> what the request has read, or the answer it carries
    orphaned     \* sessions whose last token a browser lost or replaced

accessVars == <<credentials, session, device, mailed, bucket, epoch, begun, jar,
                request, orphaned>>

NoToken == [session |-> 0, generation |-> 0]
NoHandle == [device |-> 0, generation |-> 0]
SameHandle == [device |-> 0, generation |-> 1]   \* the answer leaves the cookie as it is
NoCode == [email |-> "none", attempts |-> 0, expired |-> FALSE]
IdleSlot == [stage |-> "idle"]
Unopened == [device |-> 0, generation |-> 0, live |-> FALSE, epoch |-> 0, recent |-> FALSE]
Missing == [handle |-> 0, revoked |-> FALSE]

Opened == {s \in SessionIds : session[s] # Unopened}
Live == {s \in Opened : session[s].live}
Known == {d \in DeviceIds : device[d] # Missing}

\* One browser is signed in, on the account's first device.
AccessInit ==
    /\ credentials \in [status : {"active"}, password : {0}, email : Emails, dated : BOOLEAN]
    /\ session = [s \in SessionIds |-> IF s = 1 THEN [Unopened EXCEPT !.device = 1,
                      !.generation = 1, !.live = TRUE, !.recent = TRUE] ELSE Unopened]
    /\ device = [d \in DeviceIds |-> IF d = 1 THEN [Missing EXCEPT !.handle = 1] ELSE Missing]
    /\ mailed = [p \in Purposes |-> NoCode]
    /\ bucket = 0 /\ epoch = 0 /\ begun = 0
    /\ \E b \in Browsers : jar = [c \in Browsers |->
           IF c = b THEN [token |-> [session |-> 1, generation |-> 1],
                          handle |-> [device |-> 1, generation |-> 1]]
           ELSE [token |-> NoToken, handle |-> NoHandle]]
    /\ request = [r \in Slots |-> IdleSlot]
    /\ orphaned = {}

-----------------------------------------------------------------------------
(* Sessions and devices *)

FindSessionByVerifier(token) ==
    /\ token.session \in Live
    /\ session[token.session].generation = token.generation

Authenticated(token) ==
    /\ FindSessionByVerifier(token)
    /\ credentials.status = "active"
    /\ ~device[session[token.session].device].revoked

LockAuthenticatedSession(token) ==
    /\ FindSessionByVerifier(token)
    /\ ~device[session[token.session].device].revoked

RevokeSessions(ended) ==
    [s \in SessionIds |-> [session[s] EXCEPT !.live = @ /\ s \notin ended]]

\* Mutation: a password reset leaves the sessions as they are.
RevokeAllSessions_Kept == session

RevokeAllSessions == RevokeSessions(Live)

\* Mutation: the generation of the token is not compared.
CanRotate_AnyGeneration(token) == token.session \in Live

CanRotate(token) ==
    /\ token.session \in Live
    /\ session[token.session].generation = token.generation

Rotated(s) == [session[s] EXCEPT !.generation = @ + 1, !.recent = TRUE]

FindActiveDevice(handle) ==
    /\ handle.device \in Known
    /\ device[handle.device].handle = handle.generation
    /\ ~device[handle.device].revoked

NextSession == Cardinality(Opened) + 1

NextDevice == Cardinality(Known) + 1

IssueDevice(handle) ==
    IF FindActiveDevice(handle) THEN handle.device ELSE NextDevice

CreateSession(s, d) ==
    session' = [session EXCEPT ![s] = [device |-> d, generation |-> 1, live |-> TRUE,
                                       epoch |-> epoch, recent |-> TRUE]]

\* The answer carries the new token and the new handle of the device.
IssueSession(r, browser, handle) ==
    LET d == IssueDevice(handle) IN
    /\ NextSession \in SessionIds /\ d \in DeviceIds
    /\ device' = [device EXCEPT ![d].handle = @ + 1]
    /\ CreateSession(NextSession, d)
    /\ request' = [request EXCEPT ![r] =
           [stage |-> "answer", browser |-> browser,
            token |-> [session |-> NextSession, generation |-> 1],
            handle |-> [device |-> d, generation |-> device[d].handle + 1]]]

-----------------------------------------------------------------------------
(* Codes sent by mail *)

CreateChallenge(purpose, email) ==
    mailed' = [mailed EXCEPT ![purpose] =
        [email |-> email, attempts |-> 0, expired |-> FALSE]]

CheckCode(code, right) ==
    IF code.attempts >= MaxAttempts THEN "invalid"
    ELSE IF code.expired THEN "expired"
    ELSE IF right THEN "ok" ELSE "invalid"

RecordFailure(purpose) ==
    mailed' = [mailed EXCEPT ![purpose].attempts =
                     IF @ < MaxAttempts THEN @ + 1 ELSE @]

ConsumeChallenge(purpose) == mailed' = [mailed EXCEPT ![purpose] = NoCode]

\* A wrong code is counted although the request is refused; an expired one is not.
CodeRefused(purpose, right) ==
    LET outcome == CheckCode(mailed[purpose], right) IN
    /\ mailed[purpose] # NoCode
    /\ outcome # "ok"
    /\ IF outcome = "invalid" THEN RecordFailure(purpose) ELSE UNCHANGED mailed

CodeAccepted(purpose) ==
    /\ mailed[purpose] # NoCode
    /\ CheckCode(mailed[purpose], TRUE) = "ok"

CodeExpires(purpose) ==
    /\ mailed[purpose] # NoCode /\ ~mailed[purpose].expired
    /\ mailed' = [mailed EXCEPT ![purpose].expired = TRUE]
    /\ UNCHANGED <<credentials, session, device, bucket, epoch, begun, jar, request, orphaned>>

-----------------------------------------------------------------------------
(* Requests *)

Free(r) == request[r] = IdleSlot /\ begun < MaxBegun

\* An authenticated request reads the session of its browser's cookie.
Authenticate(r, b) ==
    /\ Free(r) /\ begun' = begun + 1
    /\ Authenticated(jar[b].token)
    /\ request' = [request EXCEPT ![r] =
           [stage |-> "session", browser |-> b, token |-> jar[b].token,
            recent |-> session[jar[b].token.session].recent]]
    /\ UNCHANGED <<credentials, session, device, mailed, bucket, epoch, jar, orphaned>>

\* The identifier's bucket is counted in a transaction of its own.
ConsumeRateLimit == bucket' = IF bucket > LoginLimit THEN bucket ELSE bucket + 1

ResetRateLimit == bucket' = 0

WindowPasses ==
    /\ bucket > 0 /\ bucket' = 0
    /\ UNCHANGED <<credentials, session, device, mailed, epoch, begun, jar, request, orphaned>>

\* The password is verified against a credential read outside the transaction.
BeginLogin(r, b) ==
    /\ Free(r) /\ begun' = begun + 1
    /\ ConsumeRateLimit
    /\ bucket' <= LoginLimit
    /\ credentials.status = "active"
    /\ request' = [request EXCEPT ![r] =
           [stage |-> "login", browser |-> b, handle |-> jar[b].handle,
            password |-> credentials.password, dated |-> credentials.dated]]
    /\ UNCHANGED <<credentials, session, device, mailed, epoch, jar, orphaned>>

\* A wrong password, or one too many: only the bucket is counted.
RefuseLogin ==
    /\ bucket <= LoginLimit
    /\ ConsumeRateLimit
    /\ UNCHANGED <<credentials, session, device, mailed, epoch, begun, jar, request, orphaned>>

\* A recovery reads the account it is for before its transaction.
BeginRecovery(r, purpose, step) ==
    /\ Free(r) /\ begun' = begun + 1
    /\ purpose \in {"password_recovery", "account_recovery"}
    /\ credentials.status =
           IF purpose = "password_recovery" THEN "active" ELSE "deletion_pending"
    /\ request' = [request EXCEPT ![r] =
           [stage |-> step, purpose |-> purpose, email |-> credentials.email]]
    /\ UNCHANGED <<credentials, session, device, mailed, bucket, epoch, jar, orphaned>>

\* Cookies the answer clears: the session's, and the device's when it is the revoked one.
ClearingAnswer(r, own) ==
    [stage |-> "answer", browser |-> request[r].browser, token |-> NoToken,
     handle |-> IF own THEN NoHandle ELSE SameHandle]

AbandonRequest(r) ==
    /\ request[r].stage \notin {"idle", "answer"}
    /\ request' = [request EXCEPT ![r] = IdleSlot]
    /\ UNCHANGED <<credentials, session, device, mailed, bucket, epoch, begun, jar, orphaned>>

\* A session's token leaves a browser for that of another session.
Replaced(b, token) == {jar[b].token.session} \ {0, token.session}

ReceiveAnswer(r) ==
    LET a == request[r] IN
    /\ a.stage = "answer"
    /\ jar' = [jar EXCEPT ![a.browser] = [token |-> a.token,
                   handle |-> IF a.handle = SameHandle THEN @.handle ELSE a.handle]]
    /\ orphaned' = orphaned \cup Replaced(a.browser, a.token)
    /\ request' = [request EXCEPT ![r] = IdleSlot]
    /\ UNCHANGED <<credentials, session, device, mailed, bucket, epoch, begun>>

LoseAnswer(r) ==
    /\ request[r].stage = "answer"
    /\ orphaned' = orphaned \cup ({request[r].token.session} \ {0})
    /\ request' = [request EXCEPT ![r] = IdleSlot]
    /\ UNCHANGED <<credentials, session, device, mailed, bucket, epoch, begun, jar>>

-----------------------------------------------------------------------------
(* Operations *)

\* The password is not compared again; a dated hash is replaced by one of the
\* password that was verified.
Login(r) ==
    /\ request[r].stage = "login"
    /\ credentials.status = "active"
    /\ credentials' = IF request[r].dated
                  THEN [credentials EXCEPT !.password = request[r].password, !.dated = FALSE]
                  ELSE credentials
    /\ IssueSession(r, request[r].browser, request[r].handle)
    /\ ResetRateLimit
    /\ UNCHANGED <<mailed, epoch, begun, jar, orphaned>>

Acting(r) == request[r].stage = "session" /\ LockAuthenticatedSession(request[r].token)

LogoutSession(r) ==
    /\ request[r].stage = "session"
    /\ session' = RevokeSessions({request[r].token.session})
    /\ request' = [request EXCEPT ![r] = ClearingAnswer(r, FALSE)]
    /\ UNCHANGED <<credentials, device, mailed, bucket, epoch, begun, jar, orphaned>>

RotatingAnswer(r) ==
    [stage |-> "answer", browser |-> request[r].browser,
     token |-> [request[r].token EXCEPT !.generation =
                   session[request[r].token.session].generation + 1],
     handle |-> SameHandle]

Reauthenticate(r) ==
    LET s == request[r].token.session IN
    /\ request[r].stage = "session"
    /\ CanRotate(request[r].token)
    /\ session' = [session EXCEPT ![s] = Rotated(s)]
    /\ request' = [request EXCEPT ![r] = RotatingAnswer(r)]
    /\ UNCHANGED <<credentials, device, mailed, bucket, epoch, begun, jar, orphaned>>

\* The password was last entered too long ago for a change of address or a deletion.
RecencyPasses(s) ==
    /\ s \in Live /\ session[s].recent
    /\ session' = [session EXCEPT ![s].recent = FALSE]
    /\ UNCHANGED <<credentials, device, mailed, bucket, epoch, begun, jar, request, orphaned>>

SessionExpires(s) ==
    /\ s \in Live
    /\ session' = RevokeSessions({s})
    /\ UNCHANGED <<credentials, device, mailed, bucket, epoch, begun, jar, request, orphaned>>

StartEmailChange(r, email) ==
    /\ Acting(r) /\ request[r].recent
    /\ CreateChallenge("email_change", email)
    /\ request' = [request EXCEPT ![r] = IdleSlot]
    /\ UNCHANGED <<credentials, session, device, bucket, epoch, begun, jar, orphaned>>

ResendEmailChange(r) ==
    /\ Acting(r) /\ request[r].recent
    /\ mailed["email_change"] # NoCode
    /\ CreateChallenge("email_change", mailed["email_change"].email)
    /\ request' = [request EXCEPT ![r] = IdleSlot]
    /\ UNCHANGED <<credentials, session, device, bucket, epoch, begun, jar, orphaned>>

RefuseEmailCode(r, right) ==
    /\ Acting(r) /\ request[r].recent
    /\ CodeRefused("email_change", right)
    /\ request' = [request EXCEPT ![r] = IdleSlot]
    /\ UNCHANGED <<credentials, session, device, bucket, epoch, begun, jar, orphaned>>

\* Every other session goes; the request's own continues under a new token.
ChangeEmail(r) ==
    LET s == request[r].token.session IN
    /\ Acting(r) /\ request[r].recent
    /\ epoch < MaxSignOuts
    /\ CodeAccepted("email_change")
    /\ CanRotate(request[r].token)
    /\ credentials' = [credentials EXCEPT !.email = mailed["email_change"].email]
    /\ epoch' = epoch + 1
    /\ session' = [RevokeSessions(Live \ {s}) EXCEPT
                      ![s] = [Rotated(s) EXCEPT !.epoch = epoch + 1]]
    /\ ConsumeChallenge("email_change")
    /\ request' = [request EXCEPT ![r] = RotatingAnswer(r)]
    /\ UNCHANGED <<device, bucket, begun, jar, orphaned>>

StartRecovery(r) ==
    /\ request[r].stage = "start"
    /\ CreateChallenge(request[r].purpose, request[r].email)
    /\ request' = [request EXCEPT ![r] = IdleSlot]
    /\ UNCHANGED <<credentials, session, device, bucket, epoch, begun, jar, orphaned>>

RefuseRecoveryCode(r, right) ==
    /\ request[r].stage = "complete"
    /\ CodeRefused(request[r].purpose, right)
    /\ request' = [request EXCEPT ![r] = IdleSlot]
    /\ UNCHANGED <<credentials, session, device, bucket, epoch, begun, jar, orphaned>>

ResetPassword(r) ==
    /\ request[r].stage = "complete" /\ request[r].purpose = "password_recovery"
    /\ epoch < MaxSignOuts
    /\ CodeAccepted("password_recovery")
    /\ epoch' = epoch + 1
    /\ credentials' = [credentials EXCEPT !.password = epoch + 1, !.dated = FALSE]
    /\ session' = RevokeAllSessions
    /\ ConsumeChallenge("password_recovery")
    /\ request' = [request EXCEPT ![r] = IdleSlot]
    /\ UNCHANGED <<device, bucket, begun, jar, orphaned>>

RequestAccountDeletion(r) ==
    /\ Acting(r) /\ request[r].recent
    /\ epoch < MaxSignOuts
    /\ credentials.status = "active"
    /\ epoch' = epoch + 1
    /\ credentials' = [credentials EXCEPT !.status = "deletion_pending"]
    /\ session' = RevokeAllSessions
    /\ request' = [request EXCEPT ![r] = ClearingAnswer(r, FALSE)]
    /\ UNCHANGED <<device, mailed, bucket, begun, jar, orphaned>>

CompleteAccountRecovery(r) ==
    /\ request[r].stage = "complete" /\ request[r].purpose = "account_recovery"
    /\ CodeAccepted("account_recovery")
    /\ credentials.status = "deletion_pending"
    /\ credentials' = [credentials EXCEPT !.status = "active"]
    /\ ConsumeChallenge("account_recovery")
    /\ request' = [request EXCEPT ![r] = IdleSlot]
    /\ UNCHANGED <<session, device, bucket, epoch, begun, jar, orphaned>>

RevokeAccountDevice(r, d) ==
    LET own == session[request[r].token.session].device = d IN
    /\ Acting(r) /\ d \in Known
    /\ device' = [device EXCEPT ![d].revoked = TRUE]
    /\ session' = RevokeSessions({s \in Live : session[s].device = d})
    /\ request' = [request EXCEPT ![r] = IF own THEN ClearingAnswer(r, TRUE) ELSE IdleSlot]
    /\ UNCHANGED <<credentials, mailed, bucket, epoch, begun, jar, orphaned>>

AccessNext ==
    \/ \E purpose \in Purposes : CodeExpires(purpose)
    \/ WindowPasses \/ RefuseLogin
    \/ \E s \in SessionIds : RecencyPasses(s) \/ SessionExpires(s)
    \/ \E r \in Slots :
        \/ \E b \in Browsers : Authenticate(r, b) \/ BeginLogin(r, b)
        \/ \E purpose \in Purposes, step \in {"start", "complete"} :
               BeginRecovery(r, purpose, step)
        \/ AbandonRequest(r) \/ ReceiveAnswer(r) \/ LoseAnswer(r)
        \/ Login(r) \/ LogoutSession(r) \/ Reauthenticate(r)
        \/ \E email \in Emails : StartEmailChange(r, email)
        \/ ResendEmailChange(r) \/ ChangeEmail(r)
        \/ \E right \in BOOLEAN : RefuseEmailCode(r, right) \/ RefuseRecoveryCode(r, right)
        \/ StartRecovery(r) \/ ResetPassword(r)
        \/ RequestAccountDeletion(r) \/ CompleteAccountRecovery(r)
        \/ \E d \in DeviceIds : RevokeAccountDevice(r, d)

AccessSpec == AccessInit /\ [][AccessNext]_accessVars

-----------------------------------------------------------------------------
(* Properties *)

AccessTypeOK ==
    /\ credentials \in [status : {"active", "deletion_pending"}, password : 0..MaxSignOuts,
                    email : Emails, dated : BOOLEAN]
    /\ \A s \in Opened : session[s].device \in Known /\ session[s].epoch \in 0..MaxSignOuts
    /\ \A p \in Purposes : mailed[p].attempts \in 0..MaxAttempts
    /\ bucket \in Logins /\ epoch \in 0..MaxSignOuts /\ begun \in 0..MaxBegun
    /\ orphaned \subseteq Opened

\* A live session is of a device that still stands and of an active account, and
\* no reset, address change or deletion came after it was opened or last renewed:
\* no login or request under way brings a revoked one back.
SignedOutStaysOut ==
    \A s \in Live :
        /\ credentials.status = "active"
        /\ ~device[session[s].device].revoked
        /\ session[s].epoch = epoch

\* The current token of a live session is in a browser or on its way to one, unless
\* an answer was lost or a browser took another session: two tabs that rotate it
\* at once leave neither with a dead token.
Carries(token, s) == token = [session |-> s, generation |-> session[s].generation]

TokenHeld(s) ==
    \/ \E b \in Browsers : Carries(jar[b].token, s)
    \/ \E r \in Slots : request[r].stage = "answer" /\ Carries(request[r].token, s)

SessionsAccounted ==
    SignedOutStaysOut /\ \A s \in Live \ orphaned : TokenHeld(s)

=============================================================================
