-------------------------- MODULE ActiveActiveLoop --------------------------
(***************************************************************************)
(* An active-active port and what it works with: the link manager of       *)
(* LinkManagerActiveActive, the tables through which DbInterface talks to  *)
(* orchagent and ycabled, the server's card those two control, the wire    *)
(* and the operator.                                                       *)
(*                                                                         *)
(* A table of the databases is a slot: DbInterface writes the newest value *)
(* over an older one that nobody read, and reads only the newest one       *)
(* (swss::Table, ProducerStateTable, SubscriberStateTable).  A reader that *)
(* pops an entry hands it to the port in the same step, through MuxManager *)
(* and MuxPort, whose posts keep their order.                              *)
(*                                                                         *)
(* Orchagent, ycabled, the card, the wire and the operator are external:   *)
(* they do what linkmgrd relies on, and at most MaxFaults times in a run   *)
(* they fail, drift or change.                                             *)
(***************************************************************************)
EXTENDS LinkManagerActiveActive

CONSTANTS
  FirstMuxStates,  \* what STATE_DB may hold when linkmgrd starts
  FirstWorlds,     \* worlds in which linkmgrd may start
  Changes,         \* kinds of faults and changes that may happen
  MaxFaults,       \* bound: faults and changes of the world in one run
  Backlog          \* bound: handlers on the strand when anything else happens

VARIABLES
  db,      \* entries nobody has read yet, by table
  hw,      \* forwarding state of the server's card for this ToR
  world,   \* what heartbeats, link, routes and the operator's mode really are
  faults   \* faults and changes so far

vars == <<lm, db, hw, world, faults>>

(***************************************************************************)
(* The tables: MUX_CABLE_TABLE of APP_DB (orchagent switches the mux) and  *)
(* of STATE_DB (its answer), FORWARDING_STATE_COMMAND and _RESPONSE        *)
(* (ycabled probes the card), HW_FORWARDING_STATE_PEER of APP_DB and       *)
(* HW_MUX_CABLE_TABLE_PEER of STATE_DB (the peer's half of the card),      *)
(* PORT_TABLE, the default route's entry of ROUTE_TABLE and the port's     *)
(* entry of CONFIG_DB's MUX_CABLE.                                         *)
(* "request" is the peer's command TLV that asks this ToR to probe.        *)
(***************************************************************************)
Tables == {"setMux", "muxState", "command", "response", "setPeer", "peerState",
           "link", "route", "mode", "request"}
None == "None"

Worlds == [server : BOOLEAN, peer : BOOLEAN, link : LinkLabels,
           route : {"NA", "OK"}, mode : ConfigModes]

\* The port takes every report that the others make.
ASSUME LoopAssumption ==
  /\ {"Active", "Standby", "Unknown"} \subseteq SwssReports \cap ProbeReports
  /\ "Standby" \in PeerReports
  /\ LinkReports = LinkLabels
  /\ RouteReports = {"NA", "OK"}
  /\ {"Active", "Unknown"} \subseteq Heartbeats
  /\ {"PeerActive", "PeerUnknown"} \subseteq PeerHeartbeats
  /\ FirstMuxStates \subseteq SwssReports
  /\ FirstWorlds \subseteq Worlds
  /\ Changes \subseteq {"SwitchFails", "ProbeFails", "ConnectionLost", "Takeover",
                        "Slow", "server", "peer", "link", "route", "mode"}
  /\ MaxFaults \in Nat
  /\ Backlog \in Nat

Publish(d, t, v) == [d EXCEPT ![t] = v]
Pop(d, t) == [d EXCEPT ![t] = None]

\* DbInterface::setMuxState
setMuxState(d, out) ==
  CASE "SetActive" \in out  -> Publish(d, "setMux", "Active")
    [] "SetStandby" \in out -> Publish(d, "setMux", "Standby")
    [] OTHER                -> d

\* MuxPort::probeMuxState: the cable is active-active
probeForwardingState(d, out) ==
  IF "Probe" \in out THEN Publish(d, "command", "probe") ELSE d

\* DbInterface::setPeerMuxState
setPeerMuxState(d, out) ==
  IF "SetPeerStandby" \in out THEN Publish(d, "setPeer", "Standby") ELSE d

\* What the handler that has just run asked for reaches the tables.
Written(d) ==
  db' = setPeerMuxState(probeForwardingState(setMuxState(d, lm'.out), lm'.out),
                        lm'.out)

Queued == {e \in Events : lm.posted[e] > 0}

\* Handlers run within microseconds, so hardly any is left on the strand when
\* something else happens.
Free == Cardinality(Queued) <= Backlog

\* Every answer has come and has been handled.
Calm == Queued = {} /\ \A t \in Tables : db[t] = None

LoopInit ==
  /\ Init
  /\ hw \in {"Active", "Standby"}
  /\ world \in FirstWorlds
  /\ \E l \in FirstMuxStates :
       db = [t \in Tables |->
               CASE t = "muxState" -> l
                 [] t = "link"  -> world.link
                 [] t = "route" -> world.route
                 [] t = "mode"  -> world.mode
                 [] OTHER       -> None]
  /\ faults = 0

-----------------------------------------------------------------------------
(* DbInterface's thread pops an entry and the port handles it. *)

Reads(t, A) ==
  Free /\ db[t] # None /\ A /\ Written(Pop(db, t)) /\ UNCHANGED <<hw, world, faults>>

processServerIpAddress ==
  handleSwssSoCIpv4AddressUpdate /\ Written(db) /\ UNCHANGED <<hw, world, faults>>

processMuxStateNotifiction ==
  Reads("muxState", handleMuxStateNotification(db["muxState"]))

\* Nothing is probed while the time of the last wait, answered or not, has
\* not yet passed.
processForwardingResponseNotification ==
  Reads("response",
        IF db["response"] = "failure"
        THEN \/ handleProbeMuxFailure
             \/ Created /\ lm' = Found
        ELSE handleProbeMuxStateNotification(db["response"]))

processLinkStateNotifiction ==
  Reads("link", handleSwssLinkStateNotification(db["link"]))

processDefaultRouteStateNotification ==
  Reads("route", handleDefaultRouteStateNotification(db["route"]))

processMuxPortConfigNotifiction == Reads("mode", handleMuxConfig(db["mode"]))

processPeerMuxNotification ==
  Reads("peerState", handlePeerMuxStateNotification(db["peerState"]))

-----------------------------------------------------------------------------
(* The port itself. *)

Port(A) == A /\ Written(db) /\ UNCHANGED <<hw, world>>

Fault(kind) ==
  Free /\ kind \in Changes /\ faults < MaxFaults /\ faults' = faults + 1

\* Timers, and as many heartbeats as make a state, outlast the answers of
\* orchagent and ycabled, unless one of those is slow.
Unless(quiet) == IF quiet THEN UNCHANGED faults ELSE Fault("Slow")

Hears == world.server /\ world.link = "Up" /\ ~lm.shutdown
           /\ "suspend" \notin lm.armed

\* Enough heartbeats in a row are answered, or none.
DetectsActive  == Hears /\ Unless(Calm) /\ Port(ProberDetects("Active"))
DetectsUnknown == ~Hears /\ Unless(Calm) /\ Port(ProberDetects("Unknown"))

\* The server's replies to the peer's heartbeats reach both ToRs.
HearsPeer == world.server /\ world.peer /\ world.link = "Up"

DetectsPeerActive ==
  HearsPeer /\ Unless(Calm) /\ Port(PeerProberDetects("PeerActive"))
DetectsPeerUnknown ==
  ~HearsPeer /\ Unless(Calm) /\ Port(PeerProberDetects("PeerUnknown"))

ProbeRequested == Reads("request", handleMuxProbeRequestEvent)

AtRest ==
  /\ Calm /\ lm.armed = {"resync"}
  /\ lm.psm = IF Hears THEN "Active" ELSE "Unknown"
  /\ lm.peerPsm = IF HearsPeer THEN "PeerActive" ELSE "PeerUnknown"

\* The periodic probe, every ten seconds, finds the port at rest as a rule.
Expires(t) ==
  Unless(IF t = "resync" THEN AtRest ELSE Calm) /\ Port(TimerExpires(t))

-----------------------------------------------------------------------------
(* Orchagent, ycabled, the card and the world. *)

Orchagent ==
  LET l == db["setMux"]
  IN  /\ Free /\ l # None
      /\ \/ /\ hw' = l
            /\ db' = Publish(Pop(db, "setMux"), "muxState", l)
            /\ UNCHANGED faults
         \/ /\ Fault("SwitchFails")
            /\ hw' \in {hw, l}
            /\ db' = Publish(Pop(db, "setMux"), "muxState", "Unknown")
      /\ UNCHANGED <<lm, world>>

Ycabled ==
  /\ Free /\ db["command"] # None
  /\ \/ /\ db' = Publish(Pop(db, "command"), "response", hw)
        /\ UNCHANGED faults
     \/ /\ Fault("ProbeFails")
        /\ db' = Publish(Pop(db, "command"), "response", "Unknown")
     \/ /\ Fault("ConnectionLost")
        /\ db' = Publish(Pop(db, "command"), "response", "failure")
  /\ UNCHANGED <<lm, hw, world>>

YcabledPeer ==
  /\ Free /\ db["setPeer"] # None
  /\ db' = Publish(Pop(db, "setPeer"), "peerState", db["setPeer"])
  /\ UNCHANGED <<lm, hw, world, faults>>

\* The peer, which hears nothing of this ToR, sets this ToR's half of the card
\* to standby, and asks for a probe when it has waited for that.
Takeover ==
  /\ Fault("Takeover") /\ Initialized
  /\ hw' = "Standby"
  /\ db' = Publish(db, "request", "probe")
  /\ UNCHANGED <<lm, world>>

Toggles(k) ==
  /\ Fault(k)
  /\ world' = [world EXCEPT ![k] = ~@]
  /\ UNCHANGED <<lm, db, hw>>

Changed(t, v) ==
  /\ Fault(t)
  /\ world[t] # v
  /\ world' = [world EXCEPT ![t] = v]
  /\ db' = Publish(db, t, v)
  /\ UNCHANGED <<lm, hw>>

-----------------------------------------------------------------------------
Deliver(e) ==
  LET l == e[2]
  IN  CASE e[1] = "MuxStateEvent"  -> MuxStateEvent(l)
        [] e[1] = "LinkStateEvent" -> LinkStateEvent(l)
        [] e[1] = "LinkProber"     -> handleLinkProberStateChange(l)
        [] e[1] = "MuxState"       -> handleMuxStateChange(l)
        [] e[1] = "LinkState"      -> handleLinkStateChange(l)
        [] e[1] = "PeerLinkProber" -> handlePeerStateChange(l)
        [] e[1] = "MuxConfig"      -> RegisteredMuxConfig(l)
        [] e[1] = "WaitOver"       -> WaitOver
        [] e[1] = "MuxProbeTimeout"    -> handleMuxProbeTimeout
        [] e[1] = "PeerMuxWaitTimeout" -> handlePeerMuxWaitTimeout
        [] e[1] = "AdminForwardingStateSyncUp" -> handleAdminForwardingStateSyncUp
        [] e[1] = "SuspendTimerExpiry" -> handleSuspendTimerExpiry

System ==
  \/ processServerIpAddress
  \/ processMuxStateNotifiction
  \/ processForwardingResponseNotification
  \/ processLinkStateNotifiction
  \/ processDefaultRouteStateNotification
  \/ processMuxPortConfigNotifiction
  \/ DetectsActive
  \/ DetectsUnknown
  \/ \E t \in Timers : Expires(t)
  \/ \E e \in Queued : Port(Deliver(e)) /\ UNCHANGED faults
  \/ DetectsPeerActive
  \/ DetectsPeerUnknown
  \/ ProbeRequested
  \/ processPeerMuxNotification
  \/ Orchagent
  \/ Ycabled
  \/ YcabledPeer

World ==
  \/ Takeover
  \/ \E k \in {"server", "peer"} : Toggles(k)
  \/ \E l \in LinkLabels : Changed("link", l)
  \/ \E r \in {"NA", "OK"} : Changed("route", r)
  \/ \E mode \in ConfigModes : Initialized /\ Changed("mode", mode)

LoopNext == System \/ World

LoopSpec == LoopInit /\ [][LoopNext]_vars

FairLoopSpec == LoopSpec /\ WF_vars(System)

-----------------------------------------------------------------------------
(***************************************************************************)
(* Properties.  A port has to come to rest where it belongs once the       *)
(* world, the answers and the operator stop changing, whatever they did    *)
(* before: nothing but its own timers and probes brings it there.          *)
(***************************************************************************)

Able == world.server /\ world.link = "Up" /\ world.route = "OK"

\* A port in mode auto that the server answers, and that has a route, ends up
\* forwarding and knows that it does, although switches and probes failed,
\* answers came late, and the peer took this ToR's half of the card.
Recovers ==
  <>[](world.mode = "Auto" /\ Able)
    => <>[](hw = "Active" /\ lm.ms = "Active")

\* A port in mode auto that cannot serve ends up not forwarding.
Yields ==
  <>[](world.mode = "Auto" /\ ~Able) => <>[](hw = "Standby")

\* The operator's standby is carried out in the end, even when the first
\* switch fails.
ObeysOperator ==
  <>[](world.mode = "Standby") => <>[](hw = "Standby")
=============================================================================
