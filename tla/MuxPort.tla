------------------------------- MODULE MuxPort -------------------------------
(***************************************************************************)
(* One port: src/src/MuxPort.cpp.  The port turns the words of the         *)
(* databases into the labels of its link manager and posts the link        *)
(* manager's handlers to its strand, which keeps their order.              *)
(*                                                                         *)
(* A port is a record: what its link manager needs to be activated, the    *)
(* mode and the prober's type, and the last argument of each handler.      *)
(* What the handlers do otherwise is LinkManagerActiveStandby and          *)
(* LinkManagerActiveActive.  A method is an operator from port to port.    *)
(***************************************************************************)
EXTENDS Sequences

CableTypes  == {"active-standby", "active-active"}
ProberTypes == {"software", "hardware"}
Components  == {"LinkProber", "MuxState", "LinkState"}
Handlers == {"BladeIpv4Address", "SoCIpv4Address", "MuxConfig", "LinkState",
             "MuxState", "ProbeMuxState", "ProbeMuxFailure", "GetMuxState",
             "PeerMuxState", "PeerLinkState", "DefaultRouteState",
             "LinkFailureDetection", "GetServerMacAddress", "SrcMacAddress",
             "UseWellKnownMacAddress", "ResetSuspendTimer", "ResetPckLossCount"}
None == "none"   \* never told, or no such entry
NoFrame == [source |-> None, dest |-> None, address |-> None]

(***************************************************************************)
(* The members of a port:                                                  *)
(*   cable, proberType, blade   of MuxPortConfig; the type is not          *)
(*               initialized, blade is mBladeMacAddress                    *)
(*   fitted      the link prober made when the address arrived             *)
(*   frame       the addresses in its heartbeats                           *)
(*   init        mComponentInitState of the link manager                   *)
(*   mode        MuxPortConfig::mMode                                      *)
(*   registered, rerun   modes whose handlers wait for the activation, and *)
(*               were posted again by it                                   *)
(*   told        the last argument of each handler                         *)
(*   strand      the handlers posted                                       *)
(***************************************************************************)
NewPort(type, useWellKnownMac) ==
  [cable |-> type, proberType |-> "uninitialized",
   blade |-> IF type = "active-active" /\ useWellKnownMac THEN "known" ELSE None,
   fitted |-> None, frame |-> NoFrame, init |-> {}, mode |-> "Manual", registered |-> {}, rerun |-> {},
   told |-> [h \in Handlers |-> None], strand |-> <<>>]

Initialized(port) == port.init = Components

\* boost::asio::post on the strand of the port.
Post(port, handler, arg) ==
  [port EXCEPT !.strand = Append(@, [handler |-> handler, arg |-> arg])]

-----------------------------------------------------------------------------
(* From the words of the databases to labels                                *)

MuxLabel(word) ==
  CASE word = "active"  -> "Active"
    [] word = "standby" -> "Standby"
    [] word = "error"   -> "Error"
    [] OTHER            -> "Unknown"

LinkLabel(word)     == IF word = "up" THEN "Up" ELSE "Down"
PeerLinkLabel(word) == IF word = "down" THEN "Down" ELSE "Up"

\* Whatever is not a mode is Auto.
ModeLabel(word) ==
  CASE word = "active"  -> "Active"
    [] word = "manual"  -> "Manual"
    [] word = "standby" -> "Standby"
    [] word = "detach"  -> "Detached"
    [] OTHER            -> "Auto"

TsaLabel(enable) == IF enable THEN "Standby" ELSE "Auto"

\* Only active-active ports can be detached.
Understood(port, word) == port.cable = "active-active" \/ word # "detach"

RouteLabel(word, feature) == IF word = "na" /\ feature THEN "NA" ELSE "OK"

-----------------------------------------------------------------------------
handleBladeIpv4AddressUpdate(port) == Post(port, "BladeIpv4Address", "set")
handleSoCIpv4AddressUpdate(port)   == Post(port, "SoCIpv4Address", "set")

\* On the thread of the databases, not on the strand.
setLinkProberType(port, type) ==
  [port EXCEPT !.proberType = IF type = "hardware" THEN "hardware" ELSE "software"]

\* updateLinkFailureDetectionState
LinkFailureDetectionState(port, state) == Post(port, "LinkFailureDetection", state)

handleLinkState(port, word)     == Post(port, "LinkState", LinkLabel(word))
handlePeerLinkState(port, word) == Post(port, "PeerLinkState", PeerLinkLabel(word))
handleGetServerMacAddress(port, address) == Post(port, "GetServerMacAddress", address)
handleUseWellKnownMacAddress(port) == Post(port, "UseWellKnownMacAddress", "")
handleSrcMacAddressUpdate(port)    == Post(port, "SrcMacAddress", "")
handleGetMuxState(port, word)      == Post(port, "GetMuxState", MuxLabel(word))

\* No answer of a probe is an error; only an active-active port learns that the
\* probe failed.
handleProbeMuxState(port, word) ==
  IF word = "failure" /\ port.cable = "active-active"
  THEN Post(port, "ProbeMuxFailure", "failure")
  ELSE Post(port, "ProbeMuxState", IF word = "error" THEN "Unknown" ELSE MuxLabel(word))

handleMuxState(port, word) == Post(port, "MuxState", MuxLabel(word))

handleMuxConfig(port, word) ==
  IF Understood(port, word) THEN Post(port, "MuxConfig", ModeLabel(word)) ELSE port

handlePeerMuxState(port, word) == Post(port, "PeerMuxState", MuxLabel(word))

\* The state of the switch decides, the feature whether anybody cares.
handleDefaultRouteState(port, word, feature) ==
  Post(port, "DefaultRouteState", RouteLabel(word, feature))

\* resetPckLossCount
handleResetLinkProberPckLossCount(port) == Post(port, "ResetPckLossCount", "")

handleTsaEnable(port, enable) == Post(port, "MuxConfig", TsaLabel(enable))
handleResetSuspendTimer(port) == Post(port, "ResetSuspendTimer", "")

\* What a link manager asks of DbInterface when it probes the mux.
probeMuxState(port) ==
  IF port.cable = "active-active" THEN "ProbeForwardingState" ELSE "ProbeMuxState"

-----------------------------------------------------------------------------
(* The next handler of the strand                                           *)

\* The component of the link manager that the handler initializes, if any.
Brings(port, handler, arg) ==
  CASE handler \in {"BladeIpv4Address", "SoCIpv4Address"} -> {"LinkProber"} \ port.init
    [] Initialized(port) -> {}
    [] handler = "LinkState" -> {"LinkState"}
    [] port.cable = "active-active" /\ handler \in {"MuxState", "ProbeMuxState"} -> {"MuxState"}
    [] handler = "MuxState" /\ arg # "Unknown" -> {"MuxState"}
    [] handler = "ProbeMuxState" /\ arg = "Unknown" -> {"MuxState"}
    [] OTHER -> {}

\* handleMuxConfigNotification: an active-active port that is not initialized
\* registers the handler to run again, an active-standby port postpones the mode
\* while its mux waits.
Modes(port, mode) ==
  IF port.cable = "active-active"
  THEN {[port EXCEPT !.mode = mode,
                     !.registered = IF Initialized(port) THEN @ ELSE @ \cup {mode}]}
  ELSE {[port EXCEPT !.mode = mode]} \cup
       (IF "MuxState" \in port.init /\ mode \notin {"Auto", "Manual"} THEN {port} ELSE {})

\* The address makes the link prober, of the type known by then.
Fitted(port) == IF port.cable = "active-active" THEN port.proberType ELSE "software"

\* mWaitStateMachineInit.notify_all(), when an active-active port is activated.
Notified(port) == [port EXCEPT !.rerun = port.registered, !.registered = {}]

\* The address of the server.  An active-active port has a well known one as well, and
\* the last that was told, for when that shall not be used.
BladeMac(port, handler, arg, config) ==
  CASE handler = "GetServerMacAddress" /\ port.cable = "active-standby" -> arg
    [] handler = "GetServerMacAddress" /\ ~config.useWellKnownMac -> arg
    [] handler = "UseWellKnownMacAddress" /\ port.cable = "active-active" ->
         IF config.useWellKnownMac THEN "known" ELSE port.told["GetServerMacAddress"]
    [] OTHER -> port.blade

\* initializeSendBuffer, or createIcmpEchoSession of a hardware prober.
FrameOf(port, config) ==
  [source |-> config.source, dest |-> port.blade, address |-> config.loopback]

\* The activation makes the frame, and updateEthernetFrame makes it again.  The
\* prober's strand, on which a software prober does so, is not apart here: what it
\* reads of the configuration, if newer, is followed by a notice of its own.
Framed(port, handler, blade, activated) ==
  \/ activated
  \/ /\ "LinkProber" \in port.init
     /\ \/ handler = "SrcMacAddress"
        \/ handler = "UseWellKnownMacAddress" /\ port.cable = "active-active"
        \/ handler = "GetServerMacAddress" /\ blade # port.blade

\* What the handler leaves of the port, with config what it reads of MuxConfig.
Handled(port, handler, arg, config) ==
  LET brings == Brings(port, handler, arg)
      blade  == BladeMac(port, handler, arg, config)
      told == [port EXCEPT !.told[handler] = arg, !.init = @ \cup brings, !.blade = blade,
                           !.fitted = IF "LinkProber" \in brings THEN Fitted(port) ELSE @]
      activated == brings # {} /\ Initialized(told)
      framed == IF Framed(port, handler, blade, activated)
                THEN [told EXCEPT !.frame = FrameOf(told, config)] ELSE told
      next == IF activated /\ port.cable = "active-active" THEN Notified(framed) ELSE framed
  IN IF handler = "MuxConfig" THEN Modes(next, arg) ELSE {next}

\* activateStateMachine of an active-standby port ends with
\* warmRestartReconciliation, each time it is called.
WarmRestartReconciliation(port, handler, arg) ==
  LET brings == Brings(port, handler, arg) IN
  /\ port.cable = "active-standby"
  /\ brings # {}
  /\ {"LinkProber", "MuxState"} \subseteq port.init \cup brings
  /\ port.mode # "Auto"
=============================================================================
