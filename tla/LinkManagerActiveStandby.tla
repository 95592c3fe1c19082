---------------------- MODULE LinkManagerActiveStandby ----------------------
(***************************************************************************)
(* The link manager of one mux port whose cable is active-standby:         *)
(* src/src/link_manager/LinkManagerStateMachineActiveStandby.cpp and the   *)
(* three sub state machines it owns (link prober, mux, link).              *)
(*                                                                         *)
(* Everything runs on the strand of the port, one handler at a time, so a  *)
(* handler is one action.  The object is the record lm; a C++ method is an *)
(* operator from the record to the record it leaves behind, composed the   *)
(* way the methods call each other.  Handlers that the code posts to the   *)
(* strand from inside (ioService.post(strand.wrap(..)) and timer           *)
(* completions) are counted in lm.posted: with several threads running the *)
(* io_service nothing orders them.  Notifications of the databases are     *)
(* handled in the step in which they arrive.                               *)
(*                                                                         *)
(* Durations are abstracted: an armed timer may expire at any moment, so   *)
(* the backoff factors that only stretch a duration have no counterpart.   *)
(***************************************************************************)
EXTENDS Naturals, FiniteSets

CONSTANTS
  NegativeRetry,        \* MuxConfig::mNegativeStateChangeRetryCount
  DefaultRouteFeature,  \* MuxPortConfig::ifEnableDefaultRouteFeature()
  OscillationEnabled,   \* MuxPortConfig::getIfOscillationEnabled()
  ConfigModes,          \* mux modes CONFIG_DB may ask for
  RouteReports,         \* default route states orchagent may report
  SwssReports,          \* mux states STATE_DB may report
  XcvrdReports,         \* mux states xcvrd may answer a probe with
  LinkReports,          \* link states APPL_DB may report
  PeerLinkReports,      \* peer link states STATE_DB may report
  Heartbeats,           \* states the link prober may detect
  PeerCommands,         \* commands of the peer or of the CLI that may arrive
  MaxPosted,            \* bound: different handlers waiting on the strand
  MaxCopies             \* bound: copies of one handler waiting on the strand

ProberLabels == {"Active", "Standby", "Unknown", "Wait"}
MuxLabels    == {"Active", "Standby", "Unknown", "Error", "Wait"}
LinkLabels   == {"Up", "Down"}
Modes        == {"Auto", "Manual", "Active", "Standby"}
Routes       == {"Wait", "NA", "OK"}
Components   == {"LinkProber", "MuxState", "LinkState"}
Timers       == {"deadline", "wait", "oscillation", "suspend"}
\* PeerCommandSent: mSendSwitchActiveCommandCause, which is ConfigMuxMode or
\* TransceiverDaemonTimeout; the handler reports it and does nothing else with it.
SwitchCauses == {"PeerHeartbeatMissing", "PeerLinkDown",
                 "TlvSwitchActiveCommand", "LinkDown",
                 "PeerCommandSent", "MatchingHardwareState",
                 "ConfigMuxMode", "HarewareStateUnknown", "TimedOscillation"}

ASSUME ConstantsAssumption ==
  /\ NegativeRetry \in Nat \ {0}
  /\ DefaultRouteFeature \in BOOLEAN
  /\ OscillationEnabled \in BOOLEAN
  /\ ConfigModes \subseteq Modes
  /\ RouteReports \subseteq {"NA", "OK"}
  /\ SwssReports \subseteq MuxLabels \ {"Wait"}
  /\ XcvrdReports \subseteq {"Active", "Standby", "Unknown"}
  /\ LinkReports \subseteq LinkLabels
  /\ PeerLinkReports \subseteq LinkLabels
  /\ Heartbeats \subseteq ProberLabels \ {"Wait"}
  /\ PeerCommands \subseteq {"SwitchActive", "ResetSuspendTimer"}
  /\ MaxPosted \in Nat \ {0}
  /\ MaxCopies \in Nat \ {0}

(***************************************************************************)
(* Handlers that can wait on the strand: <<handler, argument>>.            *)
(*   MuxStateEvent, LinkStateEvent  processEvent of a sub state machine    *)
(*   LinkProber, MuxState, LinkState  handleStateChange of the composite   *)
(*   the others                     the handler of that name               *)
(***************************************************************************)
Detected == ProberLabels \ {"Wait"}
Reported == MuxLabels \ {"Wait"}
Completions == {"SuspendTimerExpiry", "SwitchActiveCommandCompletion",
                "MuxProbeTimeout", "MuxWaitTimeout", "OscillationTimeout",
                "OscillationAborted", "GetMuxState"}
Events == ({"MuxStateEvent", "MuxState"} \X Reported)
            \cup ({"LinkStateEvent", "LinkState"} \X LinkLabels)
            \cup ({"LinkProber"} \X Detected)
            \cup (Completions \X {"None"})

\* What the last handler asked orchagent to switch the mux to, if anything.
NoRequest == [label |-> "None", cause |-> "None"]
Requests  == [label : {"Active", "Standby"},
              cause : SwitchCauses \cup {"Initialization"}] \cup {NoRequest}

VARIABLE lm  \* the ActiveStandbyStateMachine object

(***************************************************************************)
(* The members of lm:                                                      *)
(*   ps, ms, ls       mCompositeState                                      *)
(*   psm, msm, lsm    current states of the three sub state machines       *)
(*   cause            WaitState::mLastWaitStateCause                       *)
(*   init             mComponentInitState                                  *)
(*   mode             MuxPortConfig::mMode                                 *)
(*   pending          mTargetMuxMode while mPendingMuxModeChange, or None  *)
(*   route, label, lastSet   mDefaultRouteState, mLabel, mLastSetMuxState  *)
(*   activeUnknown, standbyUnknown   mActiveUnknownUpCount and             *)
(*                    mStandbyUnknownUpCount; they are compared with one   *)
(*                    value only, so they stop one above it                *)
(*   waitActiveOdd    mWaitActiveUpCount & 1                               *)
(*   alive            mOscillationTimerAlive                               *)
(*   armed            timers with a wait outstanding, the suspend timer of *)
(*                    the link prober included                             *)
(*   shutdown         LinkProberBase::mShutdownTx                          *)
(*   posted           the handlers waiting on the strand                   *)
(*   request          the setMuxState call of the last handler             *)
(***************************************************************************)
LinkManager ==
  [ps : ProberLabels, ms : MuxLabels, ls : LinkLabels,
   psm : ProberLabels, msm : MuxLabels, lsm : LinkLabels,
   cause : {"SwssUpdate", "DriverUpdate"},
   init : SUBSET Components,
   mode : Modes, pending : {"None", "Active", "Standby"}, route : Routes,
   label : {"Uninitialized", "Unhealthy", "Healthy"},
   lastSet : MuxLabels,
   activeUnknown : 0 .. NegativeRetry + 1,
   standbyUnknown : 0 .. NegativeRetry + 1,
   waitActiveOdd : BOOLEAN,
   alive : BOOLEAN,
   armed : SUBSET Timers,
   shutdown : BOOLEAN,
   posted : [Events -> Nat],
   request : Requests]

-----------------------------------------------------------------------------
(* Building blocks: the methods that more than one handler calls. *)

Post(s, e) == [s EXCEPT !.posted[e] = @ + 1]
Arm(s, t) == [s EXCEPT !.armed = @ \cup {t}]
Disarm(s, t) == [s EXCEPT !.armed = @ \ {t}]

\* Mutant: the sub state machine is not forced along.
enterLinkProberState_CompositeOnly(s, l) == [s EXCEPT !.ps = l]

enterLinkProberState(s, l) == [s EXCEPT !.psm = l, !.ps = l]
enterMuxState(s, l) == [s EXCEPT !.msm = l, !.ms = l]
enterLinkState(s, l) == [s EXCEPT !.lsm = l, !.ls = l]

startMuxProbeTimer(s) == Arm(s, "deadline")
startMuxWaitTimer(s) == Arm(s, "wait")
suspendTxProbes(s) == Arm(s, "suspend")
resumeTxProbes(s) == Disarm(s, "suspend")

\* The mux is probed through xcvrd; the answer is an XcvrdMuxState step.
enterMuxWaitState(s) ==
  startMuxWaitTimer([enterMuxState(s, "Wait") EXCEPT !.cause = "DriverUpdate"])

\* The mux is switched through orchagent; the answer is a SwssMuxState step.
Switched(s, cause, l) ==
  startMuxWaitTimer(
    Disarm([enterMuxState(s, "Wait") EXCEPT
              !.waitActiveOdd = (l # "Active") /\ @,
              !.lastSet = l,
              !.cause = "SwssUpdate",
              !.request = [label |-> l, cause |-> cause]],
           "deadline"))

\* Mutant: the mode is not asked for.
switchMuxState_AnyMode(s, cause, l, forceSwitch) == Switched(s, cause, l)

switchMuxState(s, cause, l, forceSwitch) ==
  IF forceSwitch \/ s.mode = "Auto" THEN Switched(s, cause, l)
                                    ELSE enterMuxWaitState(s)

\* The command goes out on the strand of the prober, which posts the completion.
sendPeerSwitchCommand(s) ==
  Post(s, <<"SwitchActiveCommandCompletion", "None">>)

\* A timer that is restarted or cancelled while it is armed aborts its wait.
AbortOscillation(s) ==
  IF "oscillation" \in s.armed
  THEN Post(Disarm(s, "oscillation"), <<"OscillationAborted", "None">>)
  ELSE s

startOscillationTimer(s) ==
  [Arm(AbortOscillation(s), "oscillation") EXCEPT !.alive = TRUE]

tryCancelOscillationTimerIfAlive(s) ==
  IF s.alive THEN [AbortOscillation(s) EXCEPT !.alive = FALSE] ELSE s

initLinkProberState(s) ==
  enterLinkProberState(s, IF s.ms = "Error" THEN "Wait" ELSE s.ms)

\* What updateMuxLinkmgrState calls healthy.
Healthy(s) ==
  /\ s.ls = "Up"
  /\ <<s.ps, s.ms>> \in {<<"Active", "Active">>, <<"Standby", "Standby">>}
  /\ ~DefaultRouteFeature \/ s.route = "OK"

updateMuxLinkmgrState(s) ==
  [s EXCEPT !.label = IF Healthy(s) THEN "Healthy" ELSE "Unhealthy"]

\* Both notifications end with the prober stopped exactly when it has to be.
shutdownOrRestartLinkProberOnDefaultRoute(s) ==
  IF s.init = Components
  THEN [s EXCEPT !.shutdown = s.mode \in {"Auto", "Standby"} /\ s.route = "NA"]
  ELSE s

activateStateMachine(s) ==
  IF s.init # Components THEN s
  ELSE LET t == initLinkProberState(s)
       IN  updateMuxLinkmgrState(
             IF DefaultRouteFeature
             THEN shutdownOrRestartLinkProberOnDefaultRoute(t)
             ELSE t)

-----------------------------------------------------------------------------
(***************************************************************************)
(* The transition functions, one per entry of mStateTransitionHandler.     *)
(* s already holds the next composite state; byProber says that the link   *)
(* prober component is the one that changed.                               *)
(***************************************************************************)

\* {Standby, Active, Up} and {Active, Standby, Up}
InconsistentUp(s, byProber) ==
  IF byProber /\ s.ps \in {"Active", "Standby"}
  THEN enterMuxWaitState(s)
  ELSE startMuxProbeTimer(s)

UnknownActiveUp(s) == [suspendTxProbes(s) EXCEPT !.waitActiveOdd = FALSE]

\* Mutant: without a route nothing is done.
UnknownStandbyUp_NoProbe(s) ==
  LET t == [enterLinkProberState(s, "Wait") EXCEPT !.waitActiveOdd = FALSE]
  IN  IF s.route = "OK"
      THEN Disarm(switchMuxState(t, "PeerHeartbeatMissing", "Active", FALSE),
                  "deadline")
      ELSE t

UnknownStandbyUp(s) ==
  LET t == [enterLinkProberState(s, "Wait") EXCEPT !.waitActiveOdd = FALSE]
  IN  IF s.route = "OK"
      THEN Disarm(switchMuxState(t, "PeerHeartbeatMissing", "Active", FALSE),
                  "deadline")
      ELSE enterMuxWaitState(t)

\* n + 1, where every value above the limit is as good as the next one
Count(n) == IF n > NegativeRetry THEN n ELSE n + 1

ActiveUnknownUp(s) ==
  LET t == [s EXCEPT !.activeUnknown = Count(@)]
  IN  IF t.activeUnknown = NegativeRetry
      THEN switchMuxState(t, "HarewareStateUnknown", "Active", FALSE)
      ELSE enterMuxWaitState(t)

StandbyUnknownUp(s, byProber) ==
  LET t == [s EXCEPT !.standbyUnknown = Count(@)]
  IN  IF byProber /\ s.ps \in {"Active", "Standby"}
      THEN enterMuxWaitState(t)
      ELSE IF t.standbyUnknown = NegativeRetry
           THEN switchMuxState(t, "HarewareStateUnknown", "Standby", FALSE)
           ELSE startMuxProbeTimer(t)

\* {Active, Error, Up} and {Standby, Error, Up}
ErrorUp(s, byProber) ==
  IF byProber /\ s.ps \in {"Active", "Standby"}
  THEN enterMuxWaitState(s)
  ELSE s

WaitActiveUp(s) ==
  LET t == startMuxProbeTimer(s)
      u == [(IF s.waitActiveOdd THEN suspendTxProbes(t) ELSE t)
              EXCEPT !.waitActiveOdd = ~@]
  IN  IF u.alive THEN u ELSE startOscillationTimer(u)

\* {Unknown, Unknown, Up}, {Wait, Standby, Up}, {Wait, Unknown, Up} and the six
\* entries {Unknown or Wait, Active or Standby or Unknown, Down}
ProbeLater(s) == startMuxProbeTimer(s)

\* Every entry that initializeTransitionFunctionTable leaves alone is a no-op.
TransitionFunction(s, byProber) ==
  LET at == <<s.ps, s.ms, s.ls>>
  IN  CASE at \in {<<"Standby", "Active", "Up">>, <<"Active", "Standby", "Up">>}
             -> InconsistentUp(s, byProber)
        [] at = <<"Unknown", "Active", "Up">>  -> UnknownActiveUp(s)
        [] at = <<"Unknown", "Standby", "Up">> -> UnknownStandbyUp(s)
        [] at = <<"Active", "Unknown", "Up">>  -> ActiveUnknownUp(s)
        [] at = <<"Standby", "Unknown", "Up">> -> StandbyUnknownUp(s, byProber)
        [] at = <<"Wait", "Active", "Up">>     -> WaitActiveUp(s)
        [] at \in {"Active", "Standby"} \X {"Error"} \X {"Up"}
             -> ErrorUp(s, byProber)
        [] \/ at \in {<<"Unknown", "Unknown", "Up">>, <<"Wait", "Standby", "Up">>,
                      <<"Wait", "Unknown", "Up">>}
           \/ at \in {"Unknown", "Wait"} \X {"Active", "Standby", "Unknown"}
                       \X {"Down"}
             -> ProbeLater(s)
        [] OTHER -> s

-----------------------------------------------------------------------------
(* Mux configuration, which handleStateChange of the mux calls as well. *)

ApplyMode(s, mode) ==
  IF s.init # Components THEN s
  ELSE updateMuxLinkmgrState(
         CASE mode = "Active" /\ s.ms # "Active" ->
                switchMuxState(enterLinkProberState(s, "Wait"),
                               "ConfigMuxMode", "Active", FALSE)
           [] mode = "Standby" /\ s.ms # "Standby" ->
                sendPeerSwitchCommand(s)
           [] OTHER ->
                IF s.ls = "Down" /\ s.ms # "Standby"
                THEN switchMuxState(s, "LinkDown", "Standby", TRUE)
                ELSE startMuxProbeTimer(s))

\* Mutant: every mode is postponed while the mux is in Wait.
handleMuxConfigNotification_PostponeAll(s, mode) ==
  IF "MuxState" \in s.init /\ s.ms = "Wait"
  THEN [s EXCEPT !.pending = mode]
  ELSE shutdownOrRestartLinkProberOnDefaultRoute(
         [ApplyMode(s, mode) EXCEPT !.mode = mode])

\* Mutant: active and standby are postponed whatever the mux does.
handleMuxConfigNotification_PostponeAlways(s, mode) ==
  IF "MuxState" \in s.init /\ mode \notin {"Auto", "Manual"}
  THEN [s EXCEPT !.pending = mode]
  ELSE shutdownOrRestartLinkProberOnDefaultRoute(
         [ApplyMode(s, mode) EXCEPT !.mode = mode])

\* Mutant: the prober does not learn of the new mode.
handleMuxConfigNotification_ProberNotTold(s, mode) ==
  IF /\ "MuxState" \in s.init
     /\ mode \notin {"Auto", "Manual"}
     /\ s.ms = "Wait"
  THEN [s EXCEPT !.pending = mode]
  ELSE [ApplyMode(s, mode) EXCEPT !.mode = mode]

handleMuxConfigNotification(s, mode) ==
  IF /\ "MuxState" \in s.init
     /\ mode \notin {"Auto", "Manual"}
     /\ s.ms = "Wait"
  THEN [s EXCEPT !.pending = mode]
  ELSE shutdownOrRestartLinkProberOnDefaultRoute(
         [ApplyMode(s, mode) EXCEPT !.mode = mode])

-----------------------------------------------------------------------------
(***************************************************************************)
(* handleStateChange: a sub state machine reported its new state l.  The   *)
(* report is acted on only while the sub state machine is still in l.      *)
(***************************************************************************)

LinkProberChange(s, l) ==
  LET t == [s EXCEPT !.ps = l,
                     !.standbyUnknown = IF l = "Active" THEN 0 ELSE @,
                     !.activeUnknown = IF l = "Standby" THEN 0 ELSE @]
      u == IF l \in {"Active", "Standby"}
           THEN tryCancelOscillationTimerIfAlive(t) ELSE t
      n == IF s.psm = l THEN TransitionFunction(u, s.ps # l) ELSE s
  IN  updateMuxLinkmgrState(
        IF n.ps # "Unknown" THEN resumeTxProbes(n) ELSE n)

MuxStateChange(s, l) ==
  LET n == IF s.msm = l THEN TransitionFunction([s EXCEPT !.ms = l], FALSE) ELSE s
      g == IF n.ms # "Wait" THEN Post(n, <<"GetMuxState", "None">>) ELSE n
      p == IF n.ms # "Wait" /\ n.pending # "None"
           THEN [handleMuxConfigNotification(g, n.pending) EXCEPT !.pending = "None"]
           ELSE g
      c == IF l # "Unknown"
           THEN [p EXCEPT !.standbyUnknown = 0, !.activeUnknown = 0] ELSE p
  IN  updateMuxLinkmgrState(
        IF l = "Standby" THEN tryCancelOscillationTimerIfAlive(c) ELSE c)

LinkWentDown(s) ==
  tryCancelOscillationTimerIfAlive(
    [switchMuxState(s, "LinkDown", "Standby", FALSE) EXCEPT
       !.standbyUnknown = 0, !.activeUnknown = 0, !.waitActiveOdd = FALSE])

LinkStateChange(s, l) ==
  LET t == [s EXCEPT !.ls = l]
      n == CASE s.ls = "Down" /\ l = "Up" -> initLinkProberState(t)
             [] s.ls = "Up" /\ l = "Down" /\ s.ms # "Standby" -> LinkWentDown(t)
             [] OTHER -> TransitionFunction(t, FALSE)
  IN  updateMuxLinkmgrState(IF s.lsm = l THEN n ELSE s)

-----------------------------------------------------------------------------
(***************************************************************************)
(* Actions.  Step(s) makes s the next state of the object; it is refused   *)
(* only when more handlers would wait on the strand than the bounds allow. *)
(***************************************************************************)

Bounded(s) ==
  /\ \A e \in Events : s.posted[e] <= MaxCopies
  /\ Cardinality({e \in Events : s.posted[e] > 0}) <= MaxPosted

Step(s) == Bounded(s) /\ lm' = s

Initialized == lm.init = Components

\* The object as a handler finds it.
Found == [lm EXCEPT !.request = NoRequest]

\* The port exists, so its link manager has been given its server address.
Created == "LinkProber" \in lm.init

Init ==
  lm = [ps |-> "Unknown", ms |-> "Wait", ls |-> "Down",
        psm |-> "Unknown", msm |-> "Wait", lsm |-> "Down",
        cause |-> "SwssUpdate", init |-> {},
        mode |-> "Manual", pending |-> "None", route |-> "Wait",
        label |-> "Uninitialized", lastSet |-> "Wait",
        activeUnknown |-> 0, standbyUnknown |-> 0,
        waitActiveOdd |-> FALSE, alive |-> FALSE,
        armed |-> {}, shutdown |-> FALSE,
        posted |-> [e \in Events |-> 0], request |-> NoRequest]

handleSwssBladeIpv4AddressUpdate ==
  /\ ~Created
  /\ Step(activateStateMachine([Found EXCEPT !.init = @ \cup {"LinkProber"}]))

handleMuxStateNotification(l) ==
  LET s == Disarm(Found, "wait")
  IN  /\ Created
      /\ Step(IF Initialized THEN Post(s, <<"MuxStateEvent", l>>)
              ELSE IF l = "Unknown" THEN enterMuxWaitState(s)
              ELSE activateStateMachine(
                     [enterMuxState(s, l) EXCEPT !.init = @ \cup {"MuxState"}]))

handleProbeMuxStateNotification(l) ==
  LET s == Disarm(Found, "wait")
  IN  /\ Created
      /\ Step(IF Initialized THEN Post(s, <<"MuxStateEvent", l>>)
              ELSE IF l # "Unknown"
              THEN [enterMuxState(s, "Wait") EXCEPT
                      !.cause = "SwssUpdate",
                      !.request = [label |-> l, cause |-> "Initialization"]]
              ELSE activateStateMachine(
                     [enterMuxState(s, l) EXCEPT !.init = @ \cup {"MuxState"}]))

handleSwssLinkStateNotification(l) ==
  /\ Created
  /\ Step(IF Initialized THEN Post(Found, <<"LinkStateEvent", l>>)
          ELSE activateStateMachine(
                 [enterLinkState(Found, l) EXCEPT !.init = @ \cup {"LinkState"}]))

handlePeerLinkStateNotification(l) ==
  LET s == enterLinkProberState(Found, "Wait")
  IN  /\ Created
      /\ Step(IF l = "Down" /\ lm.ls = "Up" /\ lm.ms = "Standby"
              THEN IF lm.route = "OK"
                   THEN switchMuxState(s, "PeerLinkDown", "Active", FALSE)
                   ELSE s
              ELSE Found)

\* CONFIG_DB or the TSA state asks for a mode.
handleMuxConfig(mode) ==
  /\ Created
  /\ Step(handleMuxConfigNotification(Found, mode))

\* Without the feature orchagent is not asked, and every route counts as there.
\* Mutant: the label is not published.
handleDefaultRouteStateNotification_NoLabel(r) ==
  LET s == IF lm.route = "NA" /\ r = "OK" THEN initLinkProberState(Found)
                                          ELSE Found
  IN  /\ Created
      /\ DefaultRouteFeature \/ r = "OK"
      /\ Step(shutdownOrRestartLinkProberOnDefaultRoute(
                [s EXCEPT !.route = r]))

handleDefaultRouteStateNotification(r) ==
  LET s == IF lm.route = "NA" /\ r = "OK" THEN initLinkProberState(Found)
                                          ELSE Found
  IN  /\ Created
      /\ DefaultRouteFeature \/ r = "OK"
      /\ Step(updateMuxLinkmgrState(
                shutdownOrRestartLinkProberOnDefaultRoute(
                  [s EXCEPT !.route = r])))

\* The peer sent the switch command TLV.
handleSwitchActiveRequestEvent ==
  /\ Initialized
  /\ "SwitchActive" \in PeerCommands
  /\ Step(IF lm.ms \notin {"Active", "Wait"}
          THEN switchMuxState(enterLinkProberState(Found, "Wait"),
                              "TlvSwitchActiveCommand", "Active", FALSE)
          ELSE Found)

\* The command line asks for the heartbeat suspension to be lifted.
handleResetSuspendTimer ==
  /\ Initialized
  /\ "ResetSuspendTimer" \in PeerCommands
  /\ Step(IF <<lm.ps, lm.ms, lm.ls>> = <<"Unknown", "Active", "Up">>
          THEN resumeTxProbes(Found) ELSE Found)

\* The prober state machine sees enough equal heartbeats in a row, or none.
ProberDetects(l) ==
  /\ Initialized
  /\ lm.psm # l
  /\ lm.psm = "Wait" => l # "Unknown"
  /\ Step(Post([Found EXCEPT !.psm = l], <<"LinkProber", l>>))

Completion == [deadline |-> "MuxProbeTimeout", wait |-> "MuxWaitTimeout",
               oscillation |-> "OscillationTimeout",
               suspend |-> "SuspendTimerExpiry"]

\* From here on a cancel comes too late: the completion is on its way.
TimerExpires(t) ==
  /\ t \in lm.armed
  /\ Step(Post(Disarm(Found, t), <<Completion[t], "None">>))

Take(e) == [lm EXCEPT !.posted[e] = @ - 1, !.request = NoRequest]

\* Handler e leaves the strand, runs, and leaves the object as s.
Run(e, s) == lm.posted[e] > 0 /\ Step(s)

MuxStateEvent(l) ==
  LET e == <<"MuxStateEvent", l>>
      s == Take(e)
  IN  Run(e, IF s.msm = l THEN s
             ELSE Post([s EXCEPT !.msm = l], <<"MuxState", l>>))

LinkStateEvent(l) ==
  LET e == <<"LinkStateEvent", l>>
      s == Take(e)
  IN  Run(e, IF s.lsm = l THEN s
             ELSE Post([s EXCEPT !.lsm = l], <<"LinkState", l>>))

handleLinkProberStateChange(l) ==
  LET e == <<"LinkProber", l>> IN Run(e, LinkProberChange(Take(e), l))

handleMuxStateChange(l) ==
  LET e == <<"MuxState", l>> IN Run(e, MuxStateChange(Take(e), l))

handleLinkStateChange(l) ==
  LET e == <<"LinkState", l>> IN Run(e, LinkStateChange(Take(e), l))

\* Mutant: what orchagent was asked for last is not compared.
handleGetMuxStateNotification_StateDbOnly(l) ==
  LET e == <<"GetMuxState", "None">>
      s == Take(e)
  IN  Run(e, IF Initialized /\ s.ms \in {"Active", "Standby"} /\ s.ms # l
             THEN switchMuxState(s, "MatchingHardwareState", s.ms, TRUE)
             ELSE s)

\* STATE_DB was read and holds l.
handleGetMuxStateNotification(l) ==
  LET e == <<"GetMuxState", "None">>
      s == Take(e)
  IN  Run(e, IF /\ Initialized
                /\ s.ms \in {"Active", "Standby"}
                /\ s.ms # l \/ s.lastSet # l
             THEN switchMuxState(s, "MatchingHardwareState", s.ms, TRUE)
             ELSE s)

handleSuspendTimerExpiry ==
  LET e == <<"SuspendTimerExpiry", "None">>
      s == Take(e)
  IN  Run(e, IF <<s.ps, s.ms, s.ls>> = <<"Unknown", "Active", "Up">>
             THEN enterMuxWaitState(s) ELSE s)

handleSwitchActiveCommandCompletion ==
  LET e == <<"SwitchActiveCommandCompletion", "None">>
      s == Take(e)
  IN  Run(e, IF s.ms # "Standby"
             THEN switchMuxState(enterLinkProberState(s, "Wait"),
                                 "PeerCommandSent", "Standby", TRUE)
             ELSE s)

handleMuxProbeTimeout ==
  LET e == <<"MuxProbeTimeout", "None">>
      s == Take(e)
  IN  Run(e, IF \/ s.ps = "Wait" \/ s.ms = "Unknown" \/ s.ls = "Down"
                \/ <<s.ps, s.ms>> \in {<<"Standby", "Active">>,
                                       <<"Active", "Standby">>}
             THEN enterMuxWaitState(s) ELSE s)

\* Mutant: the wrong cause.
handleMuxWaitTimeout_SwssUpdate ==
  LET e == <<"MuxWaitTimeout", "None">>
      s == Take(e)
  IN  Run(e, IF s.cause = "SwssUpdate" THEN sendPeerSwitchCommand(s) ELSE s)

handleMuxWaitTimeout ==
  LET e == <<"MuxWaitTimeout", "None">>
      s == Take(e)
  IN  Run(e, IF s.cause = "DriverUpdate"
             THEN sendPeerSwitchCommand(s) ELSE s)

handleOscillationTimeout ==
  LET e == <<"OscillationTimeout", "None">>
      s == [Take(e) EXCEPT !.alive = FALSE]
  IN  Run(e, IF /\ OscillationEnabled
                /\ <<s.ps, s.ms, s.ls>> = <<"Wait", "Active", "Up">>
             THEN switchMuxState(s, "TimedOscillation", "Standby", FALSE)
             ELSE s)

\* The same handler, called with operation_aborted.
OscillationAborted ==
  LET e == <<"OscillationAborted", "None">>
  IN  Run(e, [Take(e) EXCEPT !.alive = FALSE])

Notification ==
  \/ handleSwssBladeIpv4AddressUpdate
  \/ \E l \in SwssReports : handleMuxStateNotification(l)
  \/ \E l \in XcvrdReports : handleProbeMuxStateNotification(l)
  \/ \E l \in LinkReports : handleSwssLinkStateNotification(l)
  \/ \E l \in PeerLinkReports : handlePeerLinkStateNotification(l)
  \/ \E mode \in ConfigModes : handleMuxConfig(mode)
  \/ \E r \in RouteReports : handleDefaultRouteStateNotification(r)
  \/ handleSwitchActiveRequestEvent
  \/ handleResetSuspendTimer
  \/ \E l \in Heartbeats : ProberDetects(l)
  \/ \E t \in Timers : TimerExpires(t)

Delivery ==
  \/ \E l \in Reported : MuxStateEvent(l)
  \/ \E l \in LinkLabels : LinkStateEvent(l)
  \/ \E l \in Detected : handleLinkProberStateChange(l)
  \/ \E l \in Reported : handleMuxStateChange(l)
  \/ \E l \in LinkLabels : handleLinkStateChange(l)
  \/ \E l \in SwssReports : handleGetMuxStateNotification(l)
  \/ handleSuspendTimerExpiry
  \/ handleSwitchActiveCommandCompletion
  \/ handleMuxProbeTimeout
  \/ handleMuxWaitTimeout
  \/ handleOscillationTimeout
  \/ OscillationAborted

Next == Notification \/ Delivery

Spec == Init /\ [][Next]_lm

-----------------------------------------------------------------------------
(* Properties. *)

\* The object stays within the values its members can hold.
TypeOK == lm \in LinkManager

Waiting(e) == lm.posted[e] > 0

\* A report of a sub state machine is on its way to the composite state.
ReportWaiting(kinds) == \E e \in Events : e[1] \in kinds /\ Waiting(e)

(***************************************************************************)
(* Each component of the composite state lags behind its sub state machine *)
(* only while the report that makes up the difference is on the strand.    *)
(* The two copies are written by different handlers and reports may be     *)
(* delivered in any order; a report dropped as stale while no newer one is *)
(* coming would leave the port acting on a state it is not in.             *)
(***************************************************************************)
CompositeCoherent ==
  /\ lm.ps # lm.psm => Waiting(<<"LinkProber", lm.psm>>)
  /\ lm.ms # lm.msm => Waiting(<<"MuxState", lm.msm>>)
  /\ lm.ls # lm.lsm => Waiting(<<"LinkState", lm.lsm>>)

(***************************************************************************)
(* A mux that waits for xcvrd is never forgotten: the wait timer runs, or  *)
(* its expiry, the command to the peer that follows it, or an answer is on *)
(* the strand.  Every handler that probes, every late answer that cancels  *)
(* the timer and every answer that is discarded has to keep this true.     *)
(***************************************************************************)
DriverWaitIsWatched ==
  lm.ms = "Wait" /\ lm.cause = "DriverUpdate" =>
    \/ "wait" \in lm.armed
    \/ Waiting(<<"MuxWaitTimeout", "None">>)
    \/ Waiting(<<"SwitchActiveCommandCompletion", "None">>)
    \/ ReportWaiting({"MuxStateEvent", "MuxState"})

(***************************************************************************)
(* On a port whose prober disagrees with its mux something is always due   *)
(* that will look at the mux again: the probe timer, the suspension of the *)
(* heartbeats of an active port that hears nothing, or a report of a sub   *)
(* state machine.  A missed restart of the timer, or a cancel too many,    *)
(* leaves the port blind: a prober in Wait does not report lost heartbeats.*)
(* Two notifications leave a port in such a state and are therefore absent *)
(* from the run: the peer's link going down while there is no route, and   *)
(* the command that lifts the suspension.                                  *)
(***************************************************************************)
DisagreementIsWatched ==
  /\ Initialized
  /\ lm.ls = "Up" \/ lm.ps = "Wait"
  /\ lm.ms \in {"Active", "Standby", "Unknown"} /\ lm.ps # lm.ms
  => \/ "deadline" \in lm.armed
     \/ Waiting(<<"MuxProbeTimeout", "None">>)
     \/ ReportWaiting({"MuxStateEvent", "MuxState", "LinkStateEvent",
                       "LinkState", "LinkProber"})
     \/ /\ <<lm.ps, lm.ms>> = <<"Unknown", "Active">>
        /\ "suspend" \in lm.armed \/ Waiting(<<"SuspendTimerExpiry", "None">>)

(***************************************************************************)
(* The label in STATE_DB: a healthy port is reported as healthy, and one   *)
(* reported as healthy that is not is in the middle of a switch or probe.  *)
(* Only some of the handlers that change the composite state publish it.   *)
(***************************************************************************)
LabelAccurate ==
  Initialized =>
    /\ Healthy(lm) => lm.label = "Healthy"
    /\ lm.label = "Healthy" => Healthy(lm) \/ lm.ms = "Wait"

(***************************************************************************)
(* Heartbeats are shut down exactly while a port in mode auto or standby   *)
(* has no default route.  Mode changes that are postponed, executed later  *)
(* or made before the port is activated meet route reports in any order.   *)
(***************************************************************************)
ShutdownMatchesRoute ==
  Initialized =>
    (lm.shutdown <=> lm.mode \in {"Auto", "Standby"} /\ lm.route = "NA")

Mismatch(s) ==
  /\ s.ms \in {"Active", "Standby"} /\ s.lastSet # s.ms
  /\ s.posted[<<"GetMuxState", "None">>] = 0

(***************************************************************************)
(* No step of an activated port leaves the mux in a direction orchagent    *)
(* was not asked for last without STATE_DB being read again, which makes   *)
(* handleGetMuxStateNotification ask for that direction.                   *)
(***************************************************************************)
MismatchIsReconciled ==
  [][Initialized /\ Mismatch(lm') => Mismatch(lm)]_lm

(***************************************************************************)
(* A port the operator took out of mode auto is switched to active only to *)
(* tell orchagent what the hardware already shows, whatever heartbeats,    *)
(* peer commands, timeouts and postponed configuration arrive.             *)
(***************************************************************************)
OperatorHoldsDirection ==
  [][/\ Initialized /\ lm.mode # "Auto"
     /\ lm'.request.label = "Active" /\ lm'.request # lm.request
     => lm'.request.cause = "MatchingHardwareState" /\ lm.ms = "Active"]_lm

LeftBehind(s) == s.pending # "None" /\ s.ms # "Wait"

(***************************************************************************)
(* A mode postponed because the mux was in Wait is executed by the handler *)
(* that takes the mux out of Wait; no step of an activated port leaves it  *)
(* behind.                                                                 *)
(***************************************************************************)
PendingIsExecuted ==
  [][Initialized /\ LeftBehind(lm') => LeftBehind(lm)]_lm

(***************************************************************************)
(* A mode taken over while an older one is postponed ends the older one:   *)
(* what is executed once the mux leaves Wait is the configuration that is  *)
(* pending, not one that has been replaced since.                          *)
(***************************************************************************)
NewestModeWins ==
  [][lm.pending # "None" /\ lm'.mode # lm.mode => lm'.pending = "None"]_lm

(***************************************************************************)
(* Without a default route the port does not switch itself to active; what *)
(* is left are the operator's request and the match of STATE_DB with the   *)
(* hardware.                                                               *)
(***************************************************************************)
NoSwitchToActiveWithoutRoute ==
  DefaultRouteFeature /\ lm.route = "NA" /\ lm.request.label = "Active"
    => lm.request.cause \in {"ConfigMuxMode", "MatchingHardwareState",
                             "Initialization"}

(***************************************************************************)
(* handleMuxWaitTimeout gives the mux to the peer only while the port      *)
(* waits and no answer about the mux has arrived.                          *)
(***************************************************************************)
TimeoutMeansNoAnswer ==
  [][(/\ lm'.posted[<<"MuxWaitTimeout", "None">>]
           < lm.posted[<<"MuxWaitTimeout", "None">>]
      /\ lm.ms # "Wait" \/ ReportWaiting({"MuxStateEvent", "MuxState"}))
     => ~(lm'.posted[<<"SwitchActiveCommandCompletion", "None">>]
            > lm.posted[<<"SwitchActiveCommandCompletion", "None">>])]_lm

=============================================================================
