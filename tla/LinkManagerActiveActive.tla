---------------------- MODULE LinkManagerActiveActive ----------------------
(***************************************************************************)
(* The link manager of one mux port whose cable is active-active:          *)
(* src/src/link_manager/LinkManagerStateMachineActiveActive.cpp and the    *)
(* sub state machines it owns (link prober, peer link prober, mux, link).  *)
(*                                                                         *)
(* As in LinkManagerActiveStandby a handler on the strand of the port is   *)
(* one action, a C++ method is an operator from record to record, handlers *)
(* posted from inside and completions of timers are counted in lm.posted   *)
(* and run in any order, and an armed timer may expire at any moment.      *)
(*                                                                         *)
(* Both ToRs of an active-active port may forward at once.  The server's   *)
(* card is asked through gRPC, so every switch can fail and the port keeps *)
(* probing: this module is about what the port waits for, what it asks for *)
(* and what it publishes.  The cause of a wait and the backoff factor only *)
(* reach log lines and durations.                                          *)
(***************************************************************************)
EXTENDS SubStateMachines, FiniteSets

CONSTANTS
  DefaultRouteFeature,  \* MuxPortConfig::ifEnableDefaultRouteFeature()
  ConfigModes,          \* mux modes CONFIG_DB and the TSA state may ask for
  RouteReports,         \* default route states orchagent may report
  SwssReports,          \* mux states STATE_DB may report
  ProbeReports,         \* forwarding states ycabled may answer a probe with
  PeerReports,          \* forwarding states of the peer ycabled may report
  LinkReports,          \* link states APPL_DB may report
  Heartbeats,           \* states the link prober may detect
  PeerHeartbeats,       \* states of the peer the link prober may detect
  OtherEvents,          \* probe requests of the peer and lost gRPC connections
  MaxPosted,            \* bound: different handlers waiting on the strand
  MaxCopies             \* bound: copies of one handler waiting on the strand

ProberLabels == {"Active", "Unknown", "Wait"}
PeerLabels   == {"PeerActive", "PeerUnknown", "PeerWait"}
MuxLabels    == {"Active", "Standby", "Unknown", "Error", "Wait"}
LinkLabels   == {"Up", "Down"}
Modes        == {"Auto", "Manual", "Active", "Standby", "Detached"}
Routes       == {"Wait", "NA", "OK"}
Components   == {"LinkProber", "MuxState", "LinkState"}
Timers       == {"deadline", "wait", "peerWait", "resync", "suspend"}
Notified     == {"NotReceived", "Toggle", "Probe"}
\* What a handler can ask of DbInterface and of the link prober.
Outputs      == {"SetActive", "SetStandby", "Probe", "SetPeerStandby",
                 "PeerProbeCommand"}

Detected     == ProberLabels \ {"Wait"}
PeerDetected == PeerLabels \ {"PeerWait"}
Reported     == MuxLabels \ {"Wait"}

ASSUME ConstantsAssumption ==
  /\ DefaultRouteFeature \in BOOLEAN
  /\ ConfigModes \subseteq Modes
  /\ RouteReports \subseteq {"NA", "OK"}
  /\ SwssReports \subseteq Reported
  /\ ProbeReports \subseteq {"Active", "Standby", "Unknown"}
  /\ PeerReports \subseteq Reported
  /\ LinkReports \subseteq LinkLabels
  /\ Heartbeats \subseteq Detected
  /\ PeerHeartbeats \subseteq PeerDetected
  /\ OtherEvents \subseteq {"MuxProbeRequest", "ProbeMuxFailure"}
  /\ MaxPosted \in Nat \ {0}
  /\ MaxCopies \in Nat \ {0}

(***************************************************************************)
(* Handlers that can wait on the strand: <<handler, argument>>.            *)
(*   MuxStateEvent, LinkStateEvent  processEvent of a sub state machine    *)
(*   LinkProber, MuxState, LinkState  handleStateChange of the composite   *)
(*   PeerLinkProber                 handlePeerStateChange                  *)
(*   MuxConfig                      a mode that came before activation     *)
(*   WaitOver                       handleMuxWaitTimeout, however the wait *)
(*                                  ended, and an aborted                  *)
(*                                  handleMuxProbeTimeout: all that any of *)
(*                                  them does is to end the wait           *)
(*   the others                     the handler of that name               *)
(***************************************************************************)
Completions == {"WaitOver", "MuxProbeTimeout", "PeerMuxWaitTimeout",
                "AdminForwardingStateSyncUp", "SuspendTimerExpiry"}
Events == ({"MuxStateEvent", "MuxState"} \X Reported)
            \cup ({"LinkStateEvent", "LinkState"} \X LinkLabels)
            \cup ({"LinkProber"} \X Detected)
            \cup ({"PeerLinkProber"} \X PeerDetected)
            \cup ({"MuxConfig"} \X Modes)
            \cup (Completions \X {"None"})

VARIABLE lm  \* the ActiveActiveStateMachine object

(***************************************************************************)
(* The members of lm:                                                      *)
(*   ps, ms, ls       mCompositeState                                      *)
(*   psm, mux, link   the three sub state machines; of the first only its  *)
(*                    current state                                        *)
(*   peerPs, peerPsm  mPeerLinkProberState and the current peer state of   *)
(*                    the prober's state machine                           *)
(*   peerMs, lastSetPeer   mPeerMuxState and mLastSetPeerMuxState          *)
(*   lastState, lastProbe, lastType   mLastMuxStateNotification,           *)
(*                    mLastMuxProbeNotification, mLastMuxNotificationType  *)
(*   waitMux          mWaitMux                                             *)
(*   init             mComponentInitState                                  *)
(*   mode, route, label   MuxPortConfig::mMode, mDefaultRouteState, mLabel *)
(*   registered       handlers held by mWaitStateMachineInit, per mode     *)
(*   shutdown         LinkProberBase::mShutdownTx                          *)
(*   armed            timers with a wait outstanding, the suspend timer of *)
(*                    the link prober included                             *)
(*   posted           the handlers waiting on the strand                   *)
(*   out              what the last handler asked for                      *)
(***************************************************************************)
LinkManager ==
  [ps : ProberLabels, ms : MuxLabels, ls : LinkLabels,
   psm : ProberLabels, mux : MuxMachines, link : LinkMachines,
   peerPs : PeerLabels, peerPsm : PeerLabels,
   peerMs : MuxLabels, lastSetPeer : {"Wait", "Standby"},
   lastState : Reported, lastProbe : Reported, lastType : Notified,
   waitMux : BOOLEAN,
   init : SUBSET Components,
   mode : Modes, route : Routes,
   label : {"Uninitialized", "Unhealthy", "Healthy"},
   registered : [Modes -> Nat],
   shutdown : BOOLEAN,
   armed : SUBSET Timers,
   posted : [Events -> Nat],
   out : SUBSET Outputs]

-----------------------------------------------------------------------------
(* Building blocks: the methods that more than one handler calls. *)

Post(s, e) == [s EXCEPT !.posted[e] = @ + 1]
Arm(s, t) == [s EXCEPT !.armed = @ \cup {t}]
Disarm(s, t) == [s EXCEPT !.armed = @ \ {t}]
Send(s, o) == [s EXCEPT !.out = @ \cup {o}]

\* What is queued when the wait for a timer is aborted.
Aborted == [deadline |-> "WaitOver", wait |-> "WaitOver",
            peerWait |-> "PeerMuxWaitTimeout"]

\* Cancelling or restarting a timer that is armed aborts its wait.
Cancel(s, t) ==
  IF t \in s.armed THEN Post(Disarm(s, t), <<Aborted[t], "None">>) ELSE s

enterLinkProberState(s, l) == [s EXCEPT !.psm = l, !.ps = l]
enterMuxState(s, l)  == [s EXCEPT !.mux = setCurrentState(@, l), !.ms = l]
enterLinkState(s, l) == [s EXCEPT !.link = setCurrentState(@, l), !.ls = l]
enterPeerMuxState(s, l) == [s EXCEPT !.peerMs = l]

\* Mutant: the state machine of the prober is not forced along.
enterPeerLinkProberState_MemberOnly(s, l) == [s EXCEPT !.peerPs = l]

enterPeerLinkProberState(s, l) == [s EXCEPT !.peerPsm = l, !.peerPs = l]

startWaitMux(s) == [s EXCEPT !.waitMux = TRUE]
stopWaitMux(s) == [s EXCEPT !.waitMux = FALSE]

suspendTxProbes(s) == Arm(s, "suspend")
resumeTxProbes(s) == Disarm(s, "suspend")

startMuxWaitTimer(s) == startWaitMux(Arm(Cancel(s, "wait"), "wait"))

probeMuxState(s) == startMuxWaitTimer(Send(s, "Probe"))

startMuxProbeTimer(s) ==
  startWaitMux(Arm(Cancel(probeMuxState(s), "deadline"), "deadline"))

startPeerMuxWaitTimer(s) == Arm(Cancel(s, "peerWait"), "peerWait")

startAdminForwardingStateSyncUpTimer(s) == Arm(s, "resync")

Switched(s, l) ==
  LET t == IF l = "Standby" THEN suspendTxProbes(s) ELSE s
  IN  startMuxWaitTimer(
        Cancel(Send(enterMuxState(t, l),
                    IF l = "Active" THEN "SetActive" ELSE "SetStandby"),
               "deadline"))

switchMuxState(s, l, forceSwitch) ==
  IF forceSwitch \/ s.mode \in {"Auto", "Detached", l}
  THEN Switched(s, l)
  ELSE probeMuxState(s)

switchPeerMuxState(s, l) ==
  IF s.mode = "Auto"
  THEN startPeerMuxWaitTimer(
         [Send(enterPeerMuxState(s, l), "SetPeerStandby")
            EXCEPT !.lastSetPeer = l])
  ELSE s

\* Mutant: the label of the mux is used as if it were one of the prober.
initLinkProberState_SameLabel(s) == enterLinkProberState(s, s.ms)

\* The prober takes the mux at its word until heartbeats say otherwise.
initLinkProberState(s) ==
  enterLinkProberState(s, CASE s.ms = "Active"  -> "Active"
                            [] s.ms = "Standby" -> "Unknown"
                            [] OTHER            -> "Wait")

initPeerLinkProberState(s) ==
  enterPeerLinkProberState(s, CASE s.peerMs = "Active"  -> "PeerActive"
                                [] s.peerMs = "Standby" -> "PeerUnknown"
                                [] OTHER                -> "PeerWait")

\* What updateMuxLinkmgrState calls healthy.
Healthy(s) ==
  /\ s.ls = "Up" /\ s.ps = "Active"
  /\ \/ s.ms = s.lastState
     \/ s.lastState = "Unknown"
     \/ s.lastType = "Probe" /\ s.lastProbe = "Unknown"
  /\ ~DefaultRouteFeature \/ s.route = "OK"

updateMuxLinkmgrState(s) ==
  [s EXCEPT !.label = IF Healthy(s) THEN "Healthy" ELSE "Unhealthy"]

StopsWithoutRoute == {"Auto", "Detached", "Standby"}

\* Mutant: a port fixed to standby is not thought of.
shutdownOrRestartLinkProberOnDefaultRoute_AutoOnly(s) ==
  IF s.init = Components
  THEN [s EXCEPT !.shutdown = s.mode = "Auto" /\ s.route # "OK"] ELSE s

shutdownOrRestartLinkProberOnDefaultRoute(s) ==
  IF s.init = Components
  THEN [s EXCEPT !.shutdown = s.mode \in StopsWithoutRoute /\ s.route # "OK"]
  ELSE s

\* mWaitStateMachineInit.notify_all()
NotifyAll(s) ==
  [s EXCEPT !.registered = [m \in Modes |-> 0],
            !.posted = [e \in Events |->
              IF e[1] = "MuxConfig" THEN s.posted[e] + s.registered[e[2]]
                                    ELSE s.posted[e]]]

activateStateMachine(s) ==
  IF s.init # Components THEN s
  ELSE LET t == initLinkProberState(s)
           u == IF DefaultRouteFeature
                THEN shutdownOrRestartLinkProberOnDefaultRoute(t) ELSE t
       IN  NotifyAll(startAdminForwardingStateSyncUpTimer(
             updateMuxLinkmgrState(u)))

-----------------------------------------------------------------------------
(***************************************************************************)
(* The transition functions, one per entry of mStateTransitionHandler.     *)
(* s already holds the next composite state, was the prober component of   *)
(* the composite state before.                                             *)
(***************************************************************************)

\* The last switch the operator's mode asked for failed, or was undone since.
Drifted(s) ==
  \/ s.lastState # s.mode
  \/ s.lastType = "Probe" /\ s.lastProbe # s.mode

\* Mutant: a switch to standby that failed is not repeated.
ActiveActiveUp_NotRepeated(s) ==
  IF s.mode # "Standby" /\ s.lastState = "Unknown"
  THEN switchMuxState(s, "Active", FALSE) ELSE s

ActiveActiveUp(s) ==
  CASE s.mode = "Standby" ->
         IF Drifted(s) THEN switchMuxState(s, "Standby", TRUE) ELSE s
    [] s.mode # "Standby" /\ s.lastState = "Unknown" ->
         switchMuxState(s, "Active", FALSE)
    [] OTHER -> s

\* Mutant: an active port whose last switch failed stays as it is.
ActiveStandbyUp_NoSwitch(s) ==
  IF s.mode = "Standby" /\ Drifted(s) THEN switchMuxState(s, "Standby", TRUE)
                                      ELSE s

ActiveStandbyUp(s) ==
  CASE s.mode = "Standby" ->
         IF Drifted(s) THEN switchMuxState(s, "Standby", TRUE) ELSE s
    [] s.mode # "Standby" /\ s.route # "NA" ->
         switchMuxState(s, "Active", FALSE)
    [] OTHER -> s

\* Mutant: only a port whose last switch failed yields.
UnknownActiveUp_OnlyUnknown(s) ==
  IF s.mode = "Active"
  THEN IF Drifted(s) THEN switchMuxState(s, "Active", TRUE) ELSE s
  ELSE IF s.lastState = "Unknown" THEN switchMuxState(s, "Standby", FALSE) ELSE s

UnknownActiveUp(s) ==
  IF s.mode = "Active"
  THEN IF Drifted(s) THEN switchMuxState(s, "Active", TRUE) ELSE s
  ELSE switchMuxState(s, "Standby", FALSE)

UnknownStandbyUp(s) ==
  CASE s.mode = "Active" ->
         IF Drifted(s) THEN switchMuxState(s, "Active", TRUE) ELSE s
    [] s.mode # "Active" /\ s.lastState = "Unknown" ->
         switchMuxState(s, "Standby", FALSE)
    [] OTHER -> s

ActiveUnknownUp(s, was) ==
  IF was # "Active" THEN switchMuxState(s, "Active", FALSE)
                    ELSE startMuxProbeTimer(s)

\* {Unknown, Unknown, Up}, {Unknown, Unknown, Down} and {Unknown, Wait, Down}
UnknownUnknown(s, was) ==
  IF was # "Unknown" THEN switchMuxState(s, "Standby", FALSE)
                     ELSE startMuxProbeTimer(s)

ActiveErrorUp(s)     == startMuxProbeTimer(s)
ActiveWaitUp(s)      == switchMuxState(s, "Active", FALSE)
UnknownWaitUp(s)     == switchMuxState(s, "Standby", FALSE)
UnknownActiveDown(s) == switchMuxState(s, "Standby", FALSE)

\* Every entry that initializeTransitionFunctionTable leaves alone is a no-op.
TransitionFunction(s, was) ==
  LET at == <<s.ps, s.ms, s.ls>>
  IN  CASE at = <<"Active", "Active", "Up">>    -> ActiveActiveUp(s)
        [] at = <<"Active", "Standby", "Up">>   -> ActiveStandbyUp(s)
        [] at = <<"Unknown", "Active", "Up">>   -> UnknownActiveUp(s)
        [] at = <<"Unknown", "Standby", "Up">>  -> UnknownStandbyUp(s)
        [] at = <<"Active", "Unknown", "Up">>   -> ActiveUnknownUp(s, was)
        [] at \in {<<"Unknown", "Unknown", "Up">>,
                   <<"Unknown", "Unknown", "Down">>,
                   <<"Unknown", "Wait", "Down">>} -> UnknownUnknown(s, was)
        [] at = <<"Active", "Error", "Up">>     -> ActiveErrorUp(s)
        [] at = <<"Active", "Wait", "Up">>      -> ActiveWaitUp(s)
        [] at = <<"Unknown", "Wait", "Up">>     -> UnknownWaitUp(s)
        [] at = <<"Unknown", "Active", "Down">> -> UnknownActiveDown(s)
        [] OTHER -> s

-----------------------------------------------------------------------------
(***************************************************************************)
(* handleStateChange: a sub state machine reported its new state l.  The   *)
(* report is acted on only while the sub state machine is still in l; the  *)
(* label is published either way.                                          *)
(***************************************************************************)

LinkProberChange(s, l) ==
  updateMuxLinkmgrState(
    IF s.psm = l THEN TransitionFunction([s EXCEPT !.ps = l], s.ps) ELSE s)

MuxStateChange(s, l) ==
  updateMuxLinkmgrState(
    IF s.mux.state = l THEN TransitionFunction([s EXCEPT !.ms = l], s.ps) ELSE s)

\* A prober that hardware offload drove to Active before the link came up
\* keeps its state.
LinkCameUp(s) ==
  IF s.ps = "Active"
  THEN TransitionFunction(initPeerLinkProberState(s), s.ps)
  ELSE initPeerLinkProberState(initLinkProberState(s))

\* Mutant: the label waits for the next report.
LinkStateChange_NoLabel(s, l) ==
  LET t == [s EXCEPT !.ls = l]
      n == CASE s.ls = "Down" /\ l = "Up" -> LinkCameUp(t)
             [] s.ls = "Up" /\ l = "Down" /\ s.ms # "Standby" ->
                  switchMuxState(t, "Standby", FALSE)
             [] OTHER -> TransitionFunction(t, s.ps)
  IN  IF s.link.state = l THEN n ELSE s

LinkStateChange(s, l) ==
  LET t == [s EXCEPT !.ls = l]
      n == CASE s.ls = "Down" /\ l = "Up" -> LinkCameUp(t)
             [] s.ls = "Up" /\ l = "Down" /\ s.ms # "Standby" ->
                  switchMuxState(t, "Standby", FALSE)
             [] OTHER -> TransitionFunction(t, s.ps)
  IN  updateMuxLinkmgrState(IF s.link.state = l THEN n ELSE s)

PeerLinkProberChange(s, l) ==
  LET t == enterPeerLinkProberState(s, l)
  IN  CASE s.peerPsm = l /\ l = "PeerActive" -> enterPeerMuxState(t, "Active")
        [] s.peerPsm = l /\ l = "PeerUnknown" ->
             IF s.label = "Healthy" THEN switchPeerMuxState(t, "Standby") ELSE t
        [] OTHER -> s

-----------------------------------------------------------------------------
(* Notifications of the databases, as operators on the record. *)

ApplyMode(s, mode) ==
  updateMuxLinkmgrState(
    CASE mode \in {"Active", "Standby"} /\ s.ms # mode ->
           switchMuxState(s, mode, TRUE)
      [] mode = "Auto" /\ s.ms = "Unknown" -> initLinkProberState(s)
      [] OTHER -> TransitionFunction(s, s.ps))

handleMuxConfigNotification(s, mode) ==
  LET t == [s EXCEPT !.mode = mode]
  IN  shutdownOrRestartLinkProberOnDefaultRoute(
        IF s.init = Components THEN ApplyMode(t, mode)
                               ELSE [t EXCEPT !.registered[mode] = @ + 1])

\* Before activation: the first answer about the mux, from whoever gives it.
FirstMuxState(s, l) ==
  LET t == IF l = "Unknown" THEN enterMuxState(probeMuxState(s), "Wait")
                            ELSE enterMuxState(s, l)
  IN  activateStateMachine([t EXCEPT !.init = @ \cup {"MuxState"}])

\* Mutant: switched to standby whatever the operator said.
RouteChange_Forced(s, r) ==
  LET t == shutdownOrRestartLinkProberOnDefaultRoute([s EXCEPT !.route = r])
      u == IF s.mode # "Active" /\ r = "NA"
           THEN switchMuxState(t, "Standby", TRUE) ELSE t
      v == IF s.route = "NA" /\ r = "OK" /\ u.ps = "Active" /\ s.mode = "Auto"
           THEN initLinkProberState(u) ELSE u
  IN  updateMuxLinkmgrState(IF s.init = Components THEN v ELSE t)

RouteChange(s, r) ==
  LET t == shutdownOrRestartLinkProberOnDefaultRoute([s EXCEPT !.route = r])
      u == IF s.mode # "Active" /\ r = "NA"
           THEN switchMuxState(t, "Standby", FALSE) ELSE t
      v == IF s.route = "NA" /\ r = "OK" /\ u.ps = "Active" /\ s.mode = "Auto"
           THEN initLinkProberState(u) ELSE u
  IN  updateMuxLinkmgrState(IF s.init = Components THEN v ELSE t)

-----------------------------------------------------------------------------
(***************************************************************************)
(* Actions.  Step(s) makes s the next state of the object; it is refused   *)
(* only when more handlers would wait on the strand than the bounds allow. *)
(***************************************************************************)

Bounded(s) ==
  /\ \A e \in Events : s.posted[e] <= MaxCopies
  /\ \A m \in Modes : s.registered[m] <= MaxCopies
  /\ Cardinality({e \in Events : s.posted[e] > 0}) <= MaxPosted

Step(s) == Bounded(s) /\ lm' = s

Initialized == lm.init = Components

\* The object as a handler finds it.
Found == [lm EXCEPT !.out = {}]

\* DbInterface reads the SoC addresses before it listens for notifications.
Created == "LinkProber" \in lm.init

Init ==
  lm = [ps |-> "Wait", ms |-> "Wait", ls |-> "Down",
        psm |-> "Wait",
        mux |-> [state |-> "Wait", count |-> NoneOf(MuxEvents)],
        link |-> [state |-> "Down", count |-> NoneOf(LinkEvents)],
        peerPs |-> "PeerWait", peerPsm |-> "PeerWait",
        peerMs |-> "Wait", lastSetPeer |-> "Wait",
        lastState |-> "Unknown", lastProbe |-> "Unknown",
        lastType |-> "NotReceived", waitMux |-> FALSE,
        init |-> {}, mode |-> "Manual", route |-> "Wait",
        label |-> "Uninitialized",
        registered |-> [m \in Modes |-> 0], shutdown |-> FALSE,
        armed |-> {}, posted |-> [e \in Events |-> 0], out |-> {}]

handleSwssSoCIpv4AddressUpdate ==
  /\ ~Created
  /\ Step(activateStateMachine([Found EXCEPT !.init = @ \cup {"LinkProber"}]))

handleMuxStateNotification(l) ==
  LET s == [Cancel(Found, "wait") EXCEPT !.lastType = "Toggle", !.lastState = l]
  IN  /\ Created
      /\ Step(IF Initialized
              THEN updateMuxLinkmgrState(
                     Post(resumeTxProbes(s), <<"MuxStateEvent", l>>))
              ELSE FirstMuxState(s, l))

handleProbeMuxStateNotification(l) ==
  LET s == [Cancel(Found, "wait") EXCEPT !.lastType = "Probe", !.lastProbe = l]
      t == IF l \in {"Active", "Standby"} THEN Cancel(s, "deadline") ELSE s
  IN  /\ Created
      /\ Step(IF Initialized THEN Post(t, <<"MuxStateEvent", l>>)
                             ELSE FirstMuxState(t, l))

\* ycabled lost the gRPC connection.  The mux is probed unless the last wait,
\* answered or not, would still run.
handleProbeMuxFailure ==
  /\ Created
  /\ "ProbeMuxFailure" \in OtherEvents
  /\ "wait" \notin lm.armed
  /\ Step(probeMuxState(Found))

handlePeerMuxStateNotification(l) ==
  /\ Created
  /\ Step(enterPeerMuxState(Cancel(Found, "peerWait"), l))

handleSwssLinkStateNotification(l) ==
  /\ Created
  /\ Step(IF Initialized THEN Post(Found, <<"LinkStateEvent", l>>)
          ELSE activateStateMachine(
                 [enterLinkState(Found, l) EXCEPT !.init = @ \cup {"LinkState"}]))

\* CONFIG_DB or the TSA state asks for a mode.
handleMuxConfig(mode) ==
  /\ Created
  /\ Step(handleMuxConfigNotification(Found, mode))

\* Without the feature orchagent's report counts as a route whatever it says.
handleDefaultRouteStateNotification(r) ==
  /\ Created
  /\ DefaultRouteFeature \/ r = "OK"
  /\ Step(RouteChange(Found, r))

\* Unless a wait for the mux is outstanding the mux is probed.
ProbeUnlessWaiting(s) == IF s.waitMux THEN s ELSE probeMuxState(s)

\* The peer sent the probe command TLV.
handleMuxProbeRequestEvent ==
  /\ Initialized
  /\ "MuxProbeRequest" \in OtherEvents
  /\ Step(ProbeUnlessWaiting(Found))

\* The prober's state machine sees enough equal heartbeats in a row, or none.
ProberDetects(l) ==
  /\ Initialized
  /\ lm.psm # l
  /\ Step(Post([Found EXCEPT !.psm = l], <<"LinkProber", l>>))

PeerProberDetects(l) ==
  /\ Initialized
  /\ lm.peerPsm # l
  /\ Step(Post([Found EXCEPT !.peerPsm = l], <<"PeerLinkProber", l>>))

Completion == [deadline |-> "MuxProbeTimeout", wait |-> "WaitOver",
               peerWait |-> "PeerMuxWaitTimeout",
               resync |-> "AdminForwardingStateSyncUp",
               suspend |-> "SuspendTimerExpiry"]

\* From here on a cancel comes too late: the completion is on its way.
TimerExpires(t) ==
  /\ t \in lm.armed
  /\ Step(Post(Disarm(Found, t), <<Completion[t], "None">>))

Take(e) == [lm EXCEPT !.posted[e] = @ - 1, !.out = {}]

\* Handler e leaves the strand, runs, and leaves the object as s.
Run(e, s) == lm.posted[e] > 0 /\ Step(s)

MuxStateEvent(l) ==
  LET e == <<"MuxStateEvent", l>>
      s == [Take(e) EXCEPT !.mux = MuxMoves(@, l)]
  IN  Run(e, IF s.mux.state = lm.mux.state THEN s
             ELSE Post(s, <<"MuxState", s.mux.state>>))

LinkStateEvent(l) ==
  LET e == <<"LinkStateEvent", l>>
      s == [Take(e) EXCEPT !.link = LinkMoves(@, l)]
  IN  Run(e, IF s.link.state = lm.link.state THEN s
             ELSE Post(s, <<"LinkState", s.link.state>>))

handleLinkProberStateChange(l) ==
  LET e == <<"LinkProber", l>> IN Run(e, LinkProberChange(Take(e), l))

handleMuxStateChange(l) ==
  LET e == <<"MuxState", l>> IN Run(e, MuxStateChange(Take(e), l))

handleLinkStateChange(l) ==
  LET e == <<"LinkState", l>> IN Run(e, LinkStateChange(Take(e), l))

handlePeerStateChange(l) ==
  LET e == <<"PeerLinkProber", l>> IN Run(e, PeerLinkProberChange(Take(e), l))

\* A mode that came before activation is handled again.
RegisteredMuxConfig(mode) ==
  LET e == <<"MuxConfig", mode>>
  IN  Run(e, handleMuxConfigNotification(Take(e), mode))

\* handleMuxWaitTimeout, or handleMuxProbeTimeout with operation_aborted
WaitOver ==
  LET e == <<"WaitOver", "None">> IN Run(e, stopWaitMux(Take(e)))

handleMuxProbeTimeout ==
  LET e == <<"MuxProbeTimeout", "None">>
      s == stopWaitMux(Take(e))
  IN  Run(e, IF s.ms \in {"Unknown", "Error", "Wait"}
             THEN startMuxProbeTimer(s) ELSE s)

handlePeerMuxWaitTimeout ==
  LET e == <<"PeerMuxWaitTimeout", "None">>
      s == Take(e)
  IN  Run(e, IF s.lastSetPeer = "Standby" THEN Send(s, "PeerProbeCommand")
                                          ELSE s)

\* Mutant: only a probe starts the timer again.
handleAdminForwardingStateSyncUp_OnlyAfterProbe ==
  LET e == <<"AdminForwardingStateSyncUp", "None">>
      s == Take(e)
  IN  Run(e, IF s.waitMux THEN s
             ELSE startAdminForwardingStateSyncUpTimer(probeMuxState(s)))

handleAdminForwardingStateSyncUp ==
  LET e == <<"AdminForwardingStateSyncUp", "None">>
  IN  Run(e, startAdminForwardingStateSyncUpTimer(ProbeUnlessWaiting(Take(e))))

handleSuspendTimerExpiry ==
  LET e == <<"SuspendTimerExpiry", "None">> IN Run(e, resumeTxProbes(Take(e)))

Notification ==
  \/ handleSwssSoCIpv4AddressUpdate
  \/ \E l \in SwssReports : handleMuxStateNotification(l)
  \/ \E l \in ProbeReports : handleProbeMuxStateNotification(l)
  \/ handleProbeMuxFailure
  \/ \E l \in PeerReports : handlePeerMuxStateNotification(l)
  \/ \E l \in LinkReports : handleSwssLinkStateNotification(l)
  \/ \E mode \in ConfigModes : handleMuxConfig(mode)
  \/ \E r \in RouteReports : handleDefaultRouteStateNotification(r)
  \/ handleMuxProbeRequestEvent
  \/ \E l \in Heartbeats : ProberDetects(l)
  \/ \E l \in PeerHeartbeats : PeerProberDetects(l)
  \/ \E t \in Timers : TimerExpires(t)

Delivery ==
  \/ \E l \in Reported : MuxStateEvent(l)
  \/ \E l \in LinkLabels : LinkStateEvent(l)
  \/ \E l \in Detected : handleLinkProberStateChange(l)
  \/ \E l \in Reported : handleMuxStateChange(l)
  \/ \E l \in LinkLabels : handleLinkStateChange(l)
  \/ \E l \in PeerDetected : handlePeerStateChange(l)
  \/ \E mode \in Modes : RegisteredMuxConfig(mode)
  \/ WaitOver
  \/ handleMuxProbeTimeout
  \/ handlePeerMuxWaitTimeout
  \/ handleAdminForwardingStateSyncUp
  \/ handleSuspendTimerExpiry

Next == Notification \/ Delivery

Spec == Init /\ [][Next]_lm

-----------------------------------------------------------------------------
(* Properties. *)

\* The object stays within the values its members can hold.
TypeOK == lm \in LinkManager

Waiting(e) == lm.posted[e] > 0

(***************************************************************************)
(* Each component of the composite state, and the peer's prober state,     *)
(* lags behind its sub state machine only while the report that makes up   *)
(* the difference is on the strand.  A report dropped as stale while no    *)
(* newer one is coming would leave the port acting on a state it is not    *)
(* in.                                                                     *)
(***************************************************************************)
CompositeCoherent ==
  /\ lm.ps # lm.psm => Waiting(<<"LinkProber", lm.psm>>)
  /\ lm.ms # lm.mux.state => Waiting(<<"MuxState", lm.mux.state>>)
  /\ lm.ls # lm.link.state => Waiting(<<"LinkState", lm.link.state>>)
  /\ lm.peerPs # lm.peerPsm => Waiting(<<"PeerLinkProber", lm.peerPsm>>)

(***************************************************************************)
(* While the port believes that it waits for the mux it neither follows    *)
(* the peer's probe requests nor probes periodically.  So the belief must  *)
(* end: a timer that ends it runs, or the end is on the strand.  Answers   *)
(* cancel both timers, switches restart one and cancel the other.  And     *)
(* the periodic probe of an activated port never stops.                    *)
(***************************************************************************)
WaitEnds ==
  /\ lm.waitMux => \/ {"wait", "deadline"} \cap lm.armed # {}
                   \/ Waiting(<<"WaitOver", "None">>)
                   \/ Waiting(<<"MuxProbeTimeout", "None">>)
  /\ Initialized => \/ "resync" \in lm.armed
                    \/ Waiting(<<"AdminForwardingStateSyncUp", "None">>)

(***************************************************************************)
(* Whatever handler ran last, the label in STATE_DB, which decides whether *)
(* the peer is set to standby, is true of heartbeats, link and route, and  *)
(* a port whose mux is where orchagent confirmed it is not reported as     *)
(* unhealthy without reason.  Answers of probes change what                *)
(* updateMuxLinkmgrState looks at without publishing it: of a port whose   *)
(* mux differs from what orchagent confirmed nothing is said.              *)
(***************************************************************************)
Connected(s) ==
  s.ls = "Up" /\ s.ps = "Active" /\ (~DefaultRouteFeature \/ s.route = "OK")

LabelAccurate ==
  Initialized =>
    /\ lm.label = "Healthy" => Connected(lm)
    /\ Connected(lm) /\ lm.ms = lm.lastState => lm.label = "Healthy"

(***************************************************************************)
(* Heartbeats are shut down exactly while a port in one of the modes that  *)
(* need a default route has none.  Modes set before activation, handled    *)
(* again after it, and route reports come in any order.                    *)
(***************************************************************************)
ShutdownMatchesRoute ==
  Initialized /\ DefaultRouteFeature =>
    (lm.shutdown <=> lm.mode \in StopsWithoutRoute /\ lm.route # "OK")

(***************************************************************************)
(* Orchagent is asked for a direction only in a mode that allows it,       *)
(* whatever heartbeats, routes, answers and timeouts arrive: a port the    *)
(* operator fixed, or took over by hand, is not moved.                     *)
(***************************************************************************)
OperatorHoldsDirection ==
  /\ "SetActive" \in lm.out => lm.mode \in {"Auto", "Detached", "Active"}
  /\ "SetStandby" \in lm.out => lm.mode \in {"Auto", "Detached", "Standby"}
  /\ "SetPeerStandby" \in lm.out => lm.mode = "Auto"
=============================================================================
