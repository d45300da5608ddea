--------------------------- MODULE MediaOwnership ---------------------------
(* The media of one call on one device that has the page open in several      *)
(* tabs.  The tabs agree on an owner by a lease in IndexedDB, renewed by a     *)
(* timer and taken over once it has run out, and by notices on a channel; a   *)
(* session that starts, reconnects or refreshes checks the lease again after   *)
(* each wait.  A suspended tab may miss any number of renewals.                *)
EXTENDS Integers, FiniteSets

CONSTANTS
    Tabs,
    Players,    \* media sessions, each of one tab, each started once
    NoPlayer

ASSUME PlayersAssumption == NoPlayer \notin Players

VARIABLES
    tabOf,       \* session |-> its tab
    lease,       \* the record in IndexedDB: owner, generation, and whether it is in force
    player,      \* session |-> where it is
    claims,      \* session |-> claims on the way to it
    panel,       \* tab |-> the session its panel holds
    leaked,      \* sessions granted the lease after they were stopped
    displaced    \* sessions a panel forgot when another session lost the lease

leaseVars == <<tabOf, lease, player, claims, panel, leaked, displaced>>

\* phase: how far start is; stop: how far stop is.
Unstarted == [phase |-> "unused", stop |-> "no", generation |-> 0, heartbeat |-> FALSE,
              watched |-> FALSE, peer |-> FALSE, socket |-> FALSE, reconnect |-> "none",
              turn |-> "none"]

LeaseInit ==
    /\ tabOf \in [Players -> Tabs]
    /\ lease = [owner |-> NoPlayer, generation |-> 0, valid |-> FALSE]
    /\ player = [s \in Players |-> Unstarted]
    /\ claims = [s \in Players |-> {}]
    /\ panel = [t \in Tabs |-> NoPlayer]
    /\ leaked = {} /\ displaced = {}

Running(s) == player[s].stop = "no"

\* The channel of a session is open from its construction to its release.
Listening == {s \in Players : player[s].phase # "unused" /\ player[s].stop # "done"}

Owns(s) ==
    /\ player[s].generation > 0
    /\ lease.owner = s /\ lease.generation = player[s].generation

-----------------------------------------------------------------------------
(* Steps that several operations share *)

\* Stopping clears the timers at once; the rest of it waits for the camera.
Stopping(record) ==
    IF record.stop # "no" THEN record
    ELSE [record EXCEPT !.stop = "stopping", !.reconnect = "none",
             !.turn = IF @ = "armed" THEN "none" ELSE @]

\* The panel forgets the session it holds, whichever session lost the lease.
ForgetSession(s) ==
    /\ panel' = [panel EXCEPT ![tabOf[s]] = NoPlayer]
    /\ displaced' = displaced \cup ({panel[tabOf[s]]} \ {s, NoPlayer})

LoseOwnership(s, record) ==
    IF record.watched
    THEN /\ player' = [player EXCEPT ![s] =
                Stopping([record EXCEPT !.heartbeat = FALSE, !.watched = FALSE])]
         /\ ForgetSession(s)
    ELSE /\ player' = [player EXCEPT ![s] = [record EXCEPT !.heartbeat = FALSE]]
         /\ UNCHANGED <<panel, displaced>>

Renew(s) == lease' = IF Owns(s) THEN [lease EXCEPT !.valid = TRUE] ELSE lease

\* What a session does after it waited: nothing if it was stopped meanwhile, and
\* stop if another owns the lease.
StillOwner(s, owned, stopped) ==
    IF ~Running(s)
    THEN /\ player' = [player EXCEPT ![s] = stopped]
         /\ UNCHANGED <<lease, panel, displaced>>
    ELSE /\ Renew(s)
         /\ IF Owns(s)
            THEN player' = [player EXCEPT ![s] = owned] /\ UNCHANGED <<panel, displaced>>
            ELSE player' = [player EXCEPT ![s] = Stopping(stopped)] /\ ForgetSession(s)

-----------------------------------------------------------------------------
(* The lease *)

Claimable(s) == ~lease.valid \/ lease.owner = s

\* Granted, and the renewals started; also to a session stopped while it waited.
Acquire(s) ==
    LET generation == lease.generation + 1 IN
    /\ player[s].phase = "acquiring"
    /\ Claimable(s)
    /\ lease' = [owner |-> s, generation |-> generation, valid |-> TRUE]
    /\ player' = [player EXCEPT ![s].phase = "starting", ![s].generation = generation,
                              ![s].heartbeat = TRUE, ![s].watched = TRUE]
    /\ claims' = IF player[s].stop = "done" THEN claims
                  ELSE [o \in Players |-> claims[o] \cup
                           (IF o \in Listening \ {s} THEN {generation} ELSE {})]
    /\ leaked' = leaked \cup (IF player[s].stop = "done" THEN {s} ELSE {})
    /\ UNCHANGED <<panel, displaced>>

\* Another owns it, or is acquiring it: start fails and the session is stopped.
RefuseAcquire(s) ==
    /\ player[s].phase = "acquiring"
    /\ ~Claimable(s) \/ \E o \in Players \ {s} : player[o].phase = "acquiring"
    /\ player' = [player EXCEPT ![s] = Stopping([@ EXCEPT !.phase = "ended"])]
    /\ panel' = [panel EXCEPT ![tabOf[s]] = IF @ = s THEN NoPlayer ELSE @]
    /\ UNCHANGED <<lease, claims, leaked, displaced>>

Heartbeat(s) ==
    /\ player[s].heartbeat
    /\ Renew(s)
    /\ IF Owns(s) THEN UNCHANGED <<player, panel, displaced>>
                  ELSE LoseOwnership(s, player[s])
    /\ UNCHANGED <<claims, leaked>>

\* A claim of a later generation than the session's own.
ReceiveNotice(s) ==
    \E generation \in claims[s] :
        /\ s \in Listening
        /\ claims' = [claims EXCEPT ![s] = @ \ {generation}]
        /\ IF generation > player[s].generation THEN LoseOwnership(s, player[s])
                                               ELSE UNCHANGED <<player, panel, displaced>>
        /\ UNCHANGED <<lease, leaked>>

\* The owner's tab is suspended for longer than the lease.
LeaseRunsOut ==
    /\ lease.valid
    /\ lease' = [lease EXCEPT !.valid = FALSE]
    /\ UNCHANGED <<player, claims, panel, leaked, displaced>>

-----------------------------------------------------------------------------
(* The session *)

StartMedia(s) ==
    /\ player[s].phase = "unused"
    /\ panel[tabOf[s]] = NoPlayer
    /\ panel' = [panel EXCEPT ![tabOf[s]] = s]
    /\ player' = [player EXCEPT ![s].phase = "acquiring"]
    /\ UNCHANGED <<lease, claims, leaked, displaced>>

\* The call or its relay credentials were refused.
StartFails(s) ==
    /\ player[s].phase = "starting"
    /\ player' = [player EXCEPT ![s] = Stopping([@ EXCEPT !.phase = "ended"])]
    /\ panel' = [panel EXCEPT ![tabOf[s]] = IF @ = s THEN NoPlayer ELSE @]
    /\ UNCHANGED <<lease, claims, leaked, displaced>>

\* The call and the credentials arrived: is the lease still this session's?
VerifyOwnership(s) ==
    /\ player[s].phase = "starting"
    /\ StillOwner(s, [player[s] EXCEPT !.phase = "verified"],
                     [player[s] EXCEPT !.phase = "ended"])
    /\ UNCHANGED <<claims, leaked>>

\* Mutation: a stop that came while the lease was read goes unnoticed.
MayCreatePeer_Stopped(s) == player[s].phase = "verified"

MayCreatePeer(s) == player[s].phase = "verified" /\ Running(s)

CreatePeer(s) ==
    /\ MayCreatePeer(s)
    /\ player' = [player EXCEPT ![s].phase = "running", ![s].peer = TRUE, ![s].socket = TRUE,
                              ![s].turn = "armed"]
    /\ UNCHANGED <<lease, claims, panel, leaked, displaced>>

\* start returns without media when the session was stopped while it read the lease.
StartEnds(s) ==
    /\ player[s].phase = "verified" /\ ~MayCreatePeer(s)
    /\ player' = [player EXCEPT ![s].phase = "ended"]
    /\ UNCHANGED <<lease, claims, panel, leaked, displaced>>

SocketCloses(s) ==
    /\ player[s].socket
    /\ player' = [player EXCEPT ![s].socket = FALSE,
                              ![s].reconnect = IF Running(s) THEN "armed" ELSE @]
    /\ UNCHANGED <<lease, claims, panel, leaked, displaced>>

ReconnectTimer(s) ==
    /\ player[s].reconnect = "armed"
    /\ player' = [player EXCEPT ![s].reconnect = "checking"]
    /\ UNCHANGED <<lease, claims, panel, leaked, displaced>>

Reconnect(s) ==
    LET idle == [player[s] EXCEPT !.reconnect = "none"] IN
    /\ player[s].reconnect = "checking"
    /\ StillOwner(s, [idle EXCEPT !.socket = TRUE], idle)
    /\ UNCHANGED <<claims, leaked>>

TurnTimer(s) ==
    /\ player[s].turn = "armed"
    /\ player' = [player EXCEPT ![s].turn = "refreshing"]
    /\ UNCHANGED <<lease, claims, panel, leaked, displaced>>

RefreshTurn(s) ==
    LET idle == [player[s] EXCEPT !.turn = "none"] IN
    /\ player[s].turn = "refreshing"
    /\ StillOwner(s, [idle EXCEPT !.turn = IF player[s].peer THEN "armed" ELSE "none"], idle)
    /\ UNCHANGED <<claims, leaked>>

\* New credentials could not be fetched: nothing tries again until the network fails.
RefreshFails(s) ==
    /\ player[s].turn = "refreshing"
    /\ player' = [player EXCEPT ![s].turn = "none"]
    /\ UNCHANGED <<lease, claims, panel, leaked, displaced>>

\* The server connected a later endpoint of this member.
Superseded(s) ==
    /\ player[s].socket /\ Running(s)
    /\ player' = [player EXCEPT ![s] = Stopping(@)]
    /\ ForgetSession(s)
    /\ UNCHANGED <<lease, claims, leaked>>

StopMedia(t) ==
    LET s == panel[t] IN
    /\ s # NoPlayer
    /\ panel' = [panel EXCEPT ![t] = NoPlayer]
    /\ player' = [player EXCEPT ![s] = Stopping(@)]
    /\ UNCHANGED <<lease, claims, leaked, displaced>>

CloseMedia(s) ==
    /\ player[s].stop = "stopping"
    /\ player' = [player EXCEPT ![s].stop = "closing", ![s].peer = FALSE, ![s].socket = FALSE,
                              ![s].heartbeat = FALSE]
    /\ UNCHANGED <<lease, claims, panel, leaked, displaced>>

ReleaseLease(s) ==
    /\ player[s].stop = "closing"
    /\ lease' = [lease EXCEPT !.valid = @ /\ ~Owns(s)]
    /\ player' = [player EXCEPT ![s].stop = "done", ![s].generation = 0, ![s].watched = FALSE]
    /\ claims' = [claims EXCEPT ![s] = {}]
    /\ UNCHANGED <<panel, leaked, displaced>>

\* The tab is closed or crashes; the lease is left to run out.
CloseTab(t) ==
    LET gone == {s \in Players : tabOf[s] = t /\ player[s].phase # "unused"} IN
    /\ gone # {}
    /\ player' = [s \in Players |-> IF s \in gone
                     THEN [Unstarted EXCEPT !.phase = "ended", !.stop = "done"] ELSE player[s]]
    /\ claims' = [s \in Players |-> IF s \in gone THEN {} ELSE claims[s]]
    /\ panel' = [panel EXCEPT ![t] = NoPlayer]
    /\ UNCHANGED <<lease, leaked, displaced>>

LeaseStep ==
    \/ LeaseRunsOut
    \/ \E t \in Tabs : StopMedia(t) \/ CloseTab(t)
    \/ \E s \in Players :
        \/ Acquire(s) \/ RefuseAcquire(s) \/ Heartbeat(s) \/ ReceiveNotice(s)
        \/ StartMedia(s) \/ StartFails(s) \/ VerifyOwnership(s) \/ CreatePeer(s) \/ StartEnds(s)
        \/ SocketCloses(s) \/ ReconnectTimer(s) \/ Reconnect(s)
        \/ TurnTimer(s) \/ RefreshTurn(s) \/ RefreshFails(s)
        \/ Superseded(s) \/ CloseMedia(s) \/ ReleaseLease(s)

LeaseNext == LeaseStep /\ UNCHANGED tabOf

LeaseSpec == LeaseInit /\ [][LeaseNext]_leaseVars

-----------------------------------------------------------------------------
(* Properties *)

LeaseTypeOK ==
    /\ lease.owner \in Players \cup {NoPlayer}
    /\ panel \in [Tabs -> Players \cup {NoPlayer}]
    /\ \A s \in Players :
        /\ player[s].generation <= lease.generation
        /\ claims[s] \subseteq 1..lease.generation

\* A session with a connection that another session has overtaken will find out:
\* its renewals still run and will end it.
OvertakenFindsOut ==
    \A s \in Players : player[s].peer /\ Running(s) /\ ~Owns(s) =>
        player[s].heartbeat /\ player[s].watched

\* A stopped session has no connection, no socket and no timer, whatever it was
\* waiting for when it was stopped, and a renewal that still runs is refused; only
\* one that was granted the lease after its stop keeps it.
StoppedIsStopped ==
    \A s \in Players : player[s].stop = "done" =>
        /\ ~player[s].peer /\ ~player[s].socket
        /\ player[s].reconnect # "armed" /\ player[s].turn # "armed"
        /\ player[s].heartbeat /\ player[s].generation > 0 => s \in leaked

\* A session with a connection is the one its panel holds, which can end it, unless
\* the panel forgot it because of another session.
PanelHoldsMedia ==
    \A s \in Players : player[s].peer /\ Running(s) =>
        panel[tabOf[s]] = s \/ s \in displaced

OwnershipAccounted == OvertakenFindsOut /\ StoppedIsStopped /\ PanelHoldsMedia

=============================================================================
