----------------------------- MODULE CallCamera -----------------------------
(***************************************************************************)
(* The camera of a video call: CameraController, and the calls that its    *)
(* owner, CallMediaSession, makes of it.                                   *)
(*                                                                         *)
(* enable, disable and switchFacingMode overlap: each await is a step, and *)
(* the generation tells an operation that it was overtaken.  The browser   *)
(* works off the replaceTrack calls of a sender one after another.  A      *)
(* track is named by the generation of the enable that opened it; 0 is no  *)
(* track.  The lease, the session and the call may be lost at any time,    *)
(* which verifyAuthority finds out.                                        *)
(***************************************************************************)
EXTENDS Naturals, Sequences

CONSTANT MaxOperations   \* bound: operations of the user

ASSUME OperationsAssumption == MaxOperations \in Nat

VARIABLES
    camera,      \* the fields of the controller
    enabling,    \* calls of enable that have not returned
    chain,       \* replaceTrack calls the browser has not resolved
    sending,     \* the sender's track
    live,        \* camera tracks that are open
    cleared      \* an overtaken enable took another track's place at the sender

cameraVars == <<camera, enabling, chain, sending, live, cleared>>

Tracks   == 0 .. MaxOperations
Enabling == [generation : Tracks, step : {"asking", "opening", "confirming", "replacing"}]
\* Who called replaceTrack: an enable, for its track or to take it back, a disable, a
\* disable that an enable follows, or stop.
Replacing == [track : Tracks, by : {"enable", "withdraw", "disable", "switch", "stop"}, generation : Tracks]

CameraTypeOK ==
    /\ camera \in [generation : Tracks, stream : Tracks, stopped : BOOLEAN,
                   state : {"off", "acquiring", "on", "switching", "unavailable"}]
    /\ enabling \subseteq Enabling
    /\ chain \in Seq(Replacing)
    /\ sending \in Tracks /\ live \subseteq Tracks
    /\ cleared \in BOOLEAN

CameraInit ==
    /\ camera = [generation |-> 0, stream |-> 0, stopped |-> FALSE, state |-> "off"]
    /\ enabling = {} /\ chain = <<>>
    /\ sending = 0 /\ live = {}
    /\ cleared = FALSE

-----------------------------------------------------------------------------

ReplaceTrack(track, by, generation) ==
    chain' = Append(chain, [track |-> track, by |-> by, generation |-> generation])

StateFor(stream) == IF stream = 0 THEN "off" ELSE "on"
Set(state)       == camera' = [camera EXCEPT !.state = state]

\* Mutation: the generation is not compared after an await.
Current_Always(e) == ~ camera.stopped

Current(e) == e.generation = camera.generation /\ ~ camera.stopped

At(e, step)   == enabling' = (enabling \ {e}) \cup {[e EXCEPT !.step = step]}
Return(e)     == enabling' = enabling \ {e}

Begin(c) == [c EXCEPT !.generation = @ + 1, !.state = IF c.stream = 0 THEN "acquiring" ELSE "switching"]

Enable ==
    /\ ~ camera.stopped /\ camera.generation < MaxOperations
    /\ camera' = Begin(camera)
    /\ enabling' = enabling \cup {[generation |-> camera.generation + 1, step |-> "asking"]}
    /\ UNCHANGED <<chain, sending, live, cleared>>

\* An enable that was overtaken reports the state all the same.
FirstAuthority(e) ==
    /\ e.step = "asking"
    /\ \/ Current(e) /\ At(e, "opening") /\ UNCHANGED camera
       \/ Set(StateFor(camera.stream)) /\ Return(e)
    /\ UNCHANGED <<chain, sending, live, cleared>>

\* getUserMedia; an overtaken enable closes what it opened.
OpenCamera(e) ==
    /\ e.step = "opening"
    /\ \/ /\ Current(e)
          /\ live' = live \cup {e.generation} /\ At(e, "confirming")
          /\ UNCHANGED camera
       \/ /\ ~ Current(e)
          /\ Return(e) /\ UNCHANGED <<camera, live>>
       \/ /\ IF Current(e) THEN Set("unavailable") ELSE UNCHANGED camera
          /\ Return(e) /\ UNCHANGED live
    /\ UNCHANGED <<chain, sending, cleared>>

\* The generation was compared before the authority was asked, and is not after.
SecondAuthority(e) ==
    /\ e.step = "confirming"
    /\ \/ At(e, "replacing") /\ ReplaceTrack(e.generation, "enable", e.generation) /\ UNCHANGED <<camera, live>>
       \/ /\ live' = live \ {e.generation} /\ Return(e)
          /\ IF Current(e) THEN Set("off") ELSE UNCHANGED camera
          /\ UNCHANGED chain
    /\ UNCHANGED <<sending, cleared>>

\* disable, for the user, when the page is hidden, and when the track ends.
Disable ==
    /\ camera.generation < MaxOperations
    /\ camera' = [camera EXCEPT !.generation = @ + 1, !.stream = 0]
    /\ ReplaceTrack(0, "disable", camera.stream)
    /\ UNCHANGED <<enabling, sending, live, cleared>>

SwitchFacingMode ==
    /\ ~ camera.stopped /\ camera.generation < MaxOperations
    /\ camera' = [camera EXCEPT !.generation = @ + 1, !.stream = 0]
    /\ ReplaceTrack(0, "switch", camera.stream)
    /\ UNCHANGED <<enabling, sending, live, cleared>>

\* stop, when the call ends or its ownership is lost.
StopCamera ==
    /\ ~ camera.stopped /\ camera.generation < MaxOperations
    /\ camera' = [camera EXCEPT !.generation = @ + 1, !.stream = 0, !.stopped = TRUE]
    /\ ReplaceTrack(0, "stop", camera.stream)
    /\ UNCHANGED <<enabling, sending, live, cleared>>

-----------------------------------------------------------------------------
(* The browser resolves the first replaceTrack, and whoever awaits it goes  *)
(* on.                                                                      *)

Head1 == chain[1]
Worker(generation) == [generation |-> generation, step |-> "replacing"]
Resolve(by) == chain # <<>> /\ Head1.by = by /\ sending' = Head1.track

EnableReplaced ==
    LET e == Worker(Head1.generation)
    IN  /\ Resolve("enable")
        /\ IF Current(e)
           THEN /\ camera' = [camera EXCEPT !.stream = e.generation, !.state = "on"]
                /\ live' = live \ {camera.stream}
                /\ chain' = Tail(chain) /\ Return(e)
                /\ UNCHANGED cleared
           ELSE /\ chain' = Append(Tail(chain), [track |-> 0, by |-> "withdraw", generation |-> e.generation])
                /\ cleared' = (cleared \/ sending # 0)
                /\ UNCHANGED <<camera, enabling, live>>

\* replaceTrack failed: what was sent before is sent still.
ReplaceFailed ==
    LET e == Worker(Head1.generation)
    IN  /\ chain # <<>> /\ Head1.by = "enable"
        /\ chain' = Tail(chain) /\ Return(e)
        /\ live' = live \ {e.generation}
        /\ IF Current(e) THEN Set(IF camera.stream = 0 THEN "unavailable" ELSE "on") ELSE UNCHANGED camera
        /\ UNCHANGED <<sending, cleared>>

EnableWithdrawn ==
    /\ Resolve("withdraw")
    /\ cleared' = (cleared \/ sending > Head1.generation)
    /\ live' = live \ {Head1.generation}
    /\ Return(Worker(Head1.generation))
    /\ chain' = Tail(chain)
    /\ UNCHANGED camera

DisableReplaced ==
    /\ Resolve("disable")
    /\ live' = live \ {Head1.generation}
    /\ IF camera.stopped THEN UNCHANGED camera ELSE Set("off")
    /\ chain' = Tail(chain)
    /\ UNCHANGED <<enabling, cleared>>

SwitchReplaced ==
    /\ Resolve("switch")
    /\ live' = live \ {Head1.generation}
    /\ chain' = Tail(chain)
    /\ IF camera.stopped \/ camera.generation = MaxOperations
       THEN (IF camera.stopped THEN UNCHANGED camera ELSE Set("off")) /\ UNCHANGED enabling
       ELSE /\ camera' = Begin(camera)
            /\ enabling' = enabling \cup {[generation |-> camera.generation + 1, step |-> "asking"]}
    /\ UNCHANGED cleared

StopReplaced ==
    /\ Resolve("stop")
    /\ live' = live \ {Head1.generation}
    /\ Set("off")
    /\ chain' = Tail(chain)
    /\ UNCHANGED <<enabling, cleared>>

-----------------------------------------------------------------------------

CameraNext ==
    \/ Enable \/ Disable \/ SwitchFacingMode \/ StopCamera
    \/ \E e \in enabling : FirstAuthority(e) \/ OpenCamera(e) \/ SecondAuthority(e)
    \/ EnableReplaced \/ ReplaceFailed \/ EnableWithdrawn \/ DisableReplaced \/ SwitchReplaced \/ StopReplaced

CameraSpec == CameraInit /\ [][CameraNext]_cameraVars

-----------------------------------------------------------------------------
(* Properties.                                                              *)

Quiet == enabling = {} /\ chain = <<>>

\* When every overlapping operation has come to its end, none is shown as under way; the
\* only camera that may be open is the controller's own, which is open whenever the state
\* is on; and no other one is sent.  It is sent, unless an overtaken enable took its place
\* at the sender and withdrew (CameraController).
CameraMatchesState ==
    Quiet =>
        /\ camera.state \notin {"acquiring", "switching"}
        /\ live = {camera.stream} \ {0}
        /\ camera.state = "on" => camera.stream # 0
        /\ sending \in {0, camera.stream}
        /\ sending = camera.stream \/ cleared

=============================================================================
