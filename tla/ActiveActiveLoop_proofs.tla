----------------------- MODULE ActiveActiveLoop_proofs -----------------------
(***************************************************************************)
(* The active-active port keeps its invariants among the tables, orchagent, *)
(* ycabled, the card and the operator: each of their steps is a step of    *)
(* the port alone or leaves its state as it is, and what the tables hold   *)
(* is always something that the port takes.                                *)
(***************************************************************************)
EXTENDS ActiveActiveLoop, LinkManagerActiveActive_proofs

\* What an entry of each table can be.
Content(t) ==
  {None} \cup CASE t = "setMux"    -> {"Active", "Standby"}
                [] t = "muxState"  -> SwssReports
                [] t = "command"   -> {"probe"}
                [] t = "response"  -> {"Active", "Standby", "Unknown", "failure"}
                [] t = "setPeer"   -> {"Standby"}
                [] t = "peerState" -> {"Standby"}
                [] t = "link"      -> LinkLabels
                [] t = "route"     -> {"NA", "OK"}
                [] t = "mode"      -> ConfigModes
                [] t = "request"   -> {"probe"}

Contents == UNION {Content(t) : t \in Tables}

IsTables(d) ==
  /\ d \in [Tables -> Contents]
  /\ \A t \in Tables : d[t] \in Content(t)

\* The inductive invariant of the composition.
LoopInv ==
  /\ IInv
  /\ IsTables(db)
  /\ hw \in {"Active", "Standby"}
  /\ world \in Worlds

\* A step of the port alone, or one that drops what the last handler asked for.
PortStep == Next \/ lm' = Found \/ UNCHANGED lm

-----------------------------------------------------------------------------
(* The tables. *)

LEMMA PublishTyped ==
  ASSUME NEW d, IsTables(d), NEW t \in Tables, NEW v \in Content(t)
  PROVE  IsTables(Publish(d, t, v))
<1>1. v \in Contents
  BY DEF Contents
<1>2. Publish(d, t, v) = [d EXCEPT ![t] = v]
  BY DEF Publish
<1> QED BY <1>1, <1>2 DEF IsTables

LEMMA PopTyped ==
  ASSUME NEW d, IsTables(d), NEW t \in Tables
  PROVE  IsTables(Pop(d, t))
<1>1. None \in Content(t)
  BY DEF Content
<1> QED BY <1>1, PublishTyped DEF Pop, Publish

\* Whatever a handler asks for is something that its reader takes.
LEMMA WrittenTyped ==
  ASSUME NEW d, IsTables(d), Written(d)
  PROVE  IsTables(db')
<1> DEFINE out == lm'.out
           x == setMuxState(d, out)
           y == probeForwardingState(x, out)
<1>1. /\ "Active" \in Content("setMux") /\ "Standby" \in Content("setMux")
      /\ "probe" \in Content("command") /\ "Standby" \in Content("setPeer")
  BY DEF Content
<1>2. {"setMux", "command", "setPeer"} \subseteq Tables
  BY DEF Tables
<1>3. IsTables(x)
  BY <1>1, <1>2, PublishTyped DEF setMuxState
<1> HIDE DEF x
<1>4. IsTables(y)
  BY <1>1, <1>2, <1>3, PublishTyped DEF probeForwardingState
<1>5. db' = setPeerMuxState(y, out)
  BY DEF Written, x
<1> HIDE DEF y
<1> QED BY <1>1, <1>2, <1>4, <1>5, PublishTyped DEF setPeerMuxState

-----------------------------------------------------------------------------
(* The steps of the composition are steps of the port. *)

LEMMA LoopInitSolid == LoopInit => LoopInv
<1> SUFFICES ASSUME LoopInit PROVE LoopInv
  OBVIOUS
<1>1. IInv
  BY InitSolid DEF LoopInit
<1>2. world \in Worlds
  BY LoopAssumption DEF LoopInit
<1>3. PICK l \in FirstMuxStates :
        db = [t \in Tables |->
               CASE t = "muxState" -> l
                 [] t = "link"  -> world.link
                 [] t = "route" -> world.route
                 [] t = "mode"  -> world.mode
                 [] OTHER       -> None]
  BY DEF LoopInit
<1>4. \A t \in Tables : db[t] \in Content(t)
  <2> SUFFICES ASSUME NEW t \in Tables PROVE db[t] \in Content(t)
    OBVIOUS
  <2>1. CASE t \in {"muxState", "link", "route", "mode"}
    BY <1>2, <1>3, <2>1, LoopAssumption DEF Worlds, Content
  <2>2. CASE t \notin {"muxState", "link", "route", "mode"}
    BY <1>3, <2>2 DEF Content
  <2> QED BY <2>1, <2>2
<1>5. db \in [Tables -> Contents]
  BY <1>3, <1>4 DEF Contents
<1> QED BY <1>1, <1>2, <1>4, <1>5 DEF LoopInv, IsTables, LoopInit

\* A handler that leaves the strand is one that the port has.
LEMMA DeliverIsDelivery ==
  ASSUME NEW e \in Events, Deliver(e)
  PROVE  Delivery
<1>1. CASE e \in {"MuxStateEvent", "MuxState"} \X Reported
  <2>1. e[2] \in Reported /\ (e[1] = "MuxStateEvent" \/ e[1] = "MuxState")
    BY <1>1
  <2>2. MuxStateEvent(e[2]) \/ handleMuxStateChange(e[2])
    BY <2>1 DEF Deliver
  <2> QED BY <2>1, <2>2 DEF Delivery
<1>2. CASE e \in {"LinkStateEvent", "LinkState"} \X LinkLabels
  <2>1. e[2] \in LinkLabels /\ (e[1] = "LinkStateEvent" \/ e[1] = "LinkState")
    BY <1>2
  <2>2. LinkStateEvent(e[2]) \/ handleLinkStateChange(e[2])
    BY <2>1 DEF Deliver
  <2> QED BY <2>1, <2>2 DEF Delivery
<1>3. CASE e \in {"LinkProber"} \X Detected
  <2>1. e[2] \in Detected /\ e[1] = "LinkProber"
    BY <1>3
  <2>2. handleLinkProberStateChange(e[2])
    BY <2>1 DEF Deliver
  <2> QED BY <2>1, <2>2 DEF Delivery
<1>4. CASE e \in {"PeerLinkProber"} \X PeerDetected
  <2>1. e[2] \in PeerDetected /\ e[1] = "PeerLinkProber"
    BY <1>4
  <2>2. handlePeerStateChange(e[2])
    BY <2>1 DEF Deliver
  <2> QED BY <2>1, <2>2 DEF Delivery
<1>5. CASE e \in {"MuxConfig"} \X Modes
  <2>1. e[2] \in Modes /\ e[1] = "MuxConfig"
    BY <1>5
  <2>2. RegisteredMuxConfig(e[2])
    BY <2>1 DEF Deliver
  <2> QED BY <2>1, <2>2 DEF Delivery
<1>6. CASE e \in Completions \X {"None"}
  <2>1. e[1] \in Completions
    BY <1>6
  <2>2. \/ WaitOver \/ handleMuxProbeTimeout \/ handlePeerMuxWaitTimeout
        \/ handleAdminForwardingStateSyncUp \/ handleSuspendTimerExpiry
    BY <2>1 DEF Deliver, Completions
  <2> QED BY <2>2 DEF Delivery
<1> QED BY <1>1, <1>2, <1>3, <1>4, <1>5, <1>6 DEF Events

\* What a reader pops is a notification of the port, but for the answer of a
\* failed probe that the port ignores.
LEMMA ReadersStep ==
  ASSUME LoopInv
  PROVE  /\ processMuxStateNotifiction => PortStep
         /\ processForwardingResponseNotification => PortStep
         /\ processLinkStateNotifiction => PortStep
         /\ processDefaultRouteStateNotification => PortStep
         /\ processMuxPortConfigNotifiction => PortStep
         /\ processPeerMuxNotification => PortStep
         /\ ProbeRequested => PortStep
<1>1. \A t \in Tables : db[t] \in Content(t)
  BY DEF LoopInv, IsTables
<1>2. ASSUME processMuxStateNotifiction PROVE PortStep
  <2>1. db["muxState"] # None /\ handleMuxStateNotification(db["muxState"])
    BY <1>2 DEF processMuxStateNotifiction, Reads
  <2>2. db["muxState"] \in SwssReports
    BY <1>1, <2>1 DEF Tables, Content
  <2> QED BY <2>1, <2>2 DEF PortStep, Next, Notification
<1>3. ASSUME processForwardingResponseNotification PROVE PortStep
  <2>1. /\ db["response"] # None
        /\ IF db["response"] = "failure"
           THEN handleProbeMuxFailure \/ (Created /\ lm' = Found)
           ELSE handleProbeMuxStateNotification(db["response"])
    BY <1>3 DEF processForwardingResponseNotification, Reads
  <2>2. db["response"] \in {"Active", "Standby", "Unknown", "failure"}
    BY <1>1, <2>1 DEF Tables, Content
  <2>3. CASE db["response"] = "failure"
    BY <2>1, <2>3 DEF PortStep, Next, Notification
  <2>4. CASE db["response"] # "failure"
    BY <2>1, <2>2, <2>4, LoopAssumption DEF PortStep, Next, Notification
  <2> QED BY <2>3, <2>4
<1>4. ASSUME processLinkStateNotifiction PROVE PortStep
  <2>1. db["link"] # None /\ handleSwssLinkStateNotification(db["link"])
    BY <1>4 DEF processLinkStateNotifiction, Reads
  <2>2. db["link"] \in LinkReports
    BY <1>1, <2>1, LoopAssumption DEF Tables, Content
  <2> QED BY <2>1, <2>2 DEF PortStep, Next, Notification
<1>5. ASSUME processDefaultRouteStateNotification PROVE PortStep
  <2>1. db["route"] # None /\ handleDefaultRouteStateNotification(db["route"])
    BY <1>5 DEF processDefaultRouteStateNotification, Reads
  <2>2. db["route"] \in RouteReports
    BY <1>1, <2>1, LoopAssumption DEF Tables, Content
  <2> QED BY <2>1, <2>2 DEF PortStep, Next, Notification
<1>6. ASSUME processMuxPortConfigNotifiction PROVE PortStep
  <2>1. db["mode"] # None /\ handleMuxConfig(db["mode"])
    BY <1>6 DEF processMuxPortConfigNotifiction, Reads
  <2>2. db["mode"] \in ConfigModes
    BY <1>1, <2>1 DEF Tables, Content
  <2> QED BY <2>1, <2>2 DEF PortStep, Next, Notification
<1>7. ASSUME processPeerMuxNotification PROVE PortStep
  <2>1. db["peerState"] # None /\ handlePeerMuxStateNotification(db["peerState"])
    BY <1>7 DEF processPeerMuxNotification, Reads
  <2>2. db["peerState"] \in PeerReports
    BY <1>1, <2>1, LoopAssumption DEF Tables, Content
  <2> QED BY <2>1, <2>2 DEF PortStep, Next, Notification
<1>8. ASSUME ProbeRequested PROVE PortStep
  BY <1>8 DEF ProbeRequested, Reads, PortStep, Next, Notification
<1> QED BY <1>2, <1>3, <1>4, <1>5, <1>6, <1>7, <1>8

\* Every step of the composition is a step of the port, an answer ignored, or
\* none of the port's.
LEMMA LoopStep ==
  ASSUME LoopInv, LoopNext
  PROVE  PortStep
<1>1. CASE System
  <2>1. CASE processServerIpAddress
    BY <2>1 DEF processServerIpAddress, PortStep, Next, Notification
  <2>2. CASE \/ processMuxStateNotifiction \/ processForwardingResponseNotification
             \/ processLinkStateNotifiction \/ processDefaultRouteStateNotification
             \/ processMuxPortConfigNotifiction \/ processPeerMuxNotification
             \/ ProbeRequested
    BY <2>2, ReadersStep
  <2>3. CASE DetectsActive \/ DetectsUnknown
    BY <2>3, LoopAssumption
       DEF DetectsActive, DetectsUnknown, Port, PortStep, Next, Notification
  <2>4. CASE DetectsPeerActive \/ DetectsPeerUnknown
    BY <2>4, LoopAssumption
       DEF DetectsPeerActive, DetectsPeerUnknown, Port, PortStep, Next, Notification
  <2>5. CASE \E t \in Timers : Expires(t)
    BY <2>5 DEF Expires, Port, PortStep, Next, Notification
  <2>6. CASE \E e \in Queued : Port(Deliver(e)) /\ UNCHANGED faults
    <3>1. PICK e \in Queued : Deliver(e)
      BY <2>6 DEF Port
    <3>2. e \in Events
      BY DEF Queued
    <3> QED BY <3>1, <3>2, DeliverIsDelivery DEF PortStep, Next
  <2>7. CASE Orchagent \/ Ycabled \/ YcabledPeer
    BY <2>7 DEF Orchagent, Ycabled, YcabledPeer, PortStep
  <2> QED BY <1>1, <2>1, <2>2, <2>3, <2>4, <2>5, <2>6, <2>7 DEF System
<1>2. CASE World
  BY <1>2 DEF World, Takeover, Toggles, Changed, PortStep
<1> QED BY <1>1, <1>2 DEF LoopNext

-----------------------------------------------------------------------------
(* The tables, the card and the world keep their values. *)

\* What one step does to the tables, the card and the world.
Surroundings ==
  /\ IsTables(db')
  /\ hw' \in {"Active", "Standby"}
  /\ world' \in Worlds

LEMMA SystemSurroundings ==
  ASSUME LoopInv, System
  PROVE  Surroundings
<1>1. /\ IsTables(db) /\ hw \in {"Active", "Standby"} /\ world \in Worlds
      /\ \A t \in Tables : db[t] \in Content(t)
  BY DEF LoopInv, IsTables
<1>2. ASSUME NEW t \in Tables, Written(Pop(db, t)), UNCHANGED <<hw, world>>
      PROVE  Surroundings
  BY <1>1, <1>2, PopTyped, WrittenTyped DEF Surroundings
<1>3. ASSUME Written(db), UNCHANGED <<hw, world>> PROVE Surroundings
  BY <1>1, <1>3, WrittenTyped DEF Surroundings
<1>4. {"muxState", "response", "link", "route", "mode", "peerState", "request",
       "setMux", "command", "setPeer"} \subseteq Tables
  BY DEF Tables
<1>5. CASE processServerIpAddress
  BY <1>3, <1>5 DEF processServerIpAddress
<1>6. CASE \/ processMuxStateNotifiction \/ processForwardingResponseNotification
           \/ processLinkStateNotifiction \/ processDefaultRouteStateNotification
           \/ processMuxPortConfigNotifiction \/ processPeerMuxNotification
           \/ ProbeRequested
  BY <1>2, <1>4, <1>6
     DEF processMuxStateNotifiction, processForwardingResponseNotification,
         processLinkStateNotifiction, processDefaultRouteStateNotification,
         processMuxPortConfigNotifiction, processPeerMuxNotification, ProbeRequested,
         Reads
<1>7. CASE \/ DetectsActive \/ DetectsUnknown
           \/ DetectsPeerActive \/ DetectsPeerUnknown
           \/ \E t \in Timers : Expires(t)
           \/ \E e \in Queued : Port(Deliver(e)) /\ UNCHANGED faults
  BY <1>3, <1>7 DEF DetectsActive, DetectsUnknown, DetectsPeerActive,
     DetectsPeerUnknown, Expires, Port
<1>8. CASE Orchagent
  <2> DEFINE l == db["setMux"]
  <2>1. l \in {"Active", "Standby"}
    BY <1>1, <1>4, <1>8 DEF Orchagent, Content
  <2>2. PICK v \in {l, "Unknown"} :
          db' = Publish(Pop(db, "setMux"), "muxState", v)
    BY <1>8 DEF Orchagent
  <2>3. v \in Content("muxState")
    BY <2>1, <2>2, LoopAssumption DEF Content
  <2>4. IsTables(db')
    BY <1>1, <1>4, <2>2, <2>3, PopTyped, PublishTyped
  <2>5. hw' \in {hw, l} /\ world' = world
    BY <1>8 DEF Orchagent
  <2> QED BY <1>1, <2>1, <2>4, <2>5 DEF Surroundings
<1>9. CASE Ycabled
  <2>1. PICK v \in {hw, "Unknown", "failure"} :
          db' = Publish(Pop(db, "command"), "response", v)
    BY <1>9 DEF Ycabled
  <2>2. v \in Content("response")
    BY <1>1, <2>1 DEF Content
  <2>3. IsTables(db')
    BY <1>1, <1>4, <2>1, <2>2, PopTyped, PublishTyped
  <2> QED BY <1>1, <1>9, <2>3 DEF Ycabled, Surroundings
<1>10. CASE YcabledPeer
  <2>1. /\ db["setPeer"] # None
        /\ db' = Publish(Pop(db, "setPeer"), "peerState", db["setPeer"])
    BY <1>10 DEF YcabledPeer
  <2>2. db["setPeer"] \in Content("peerState")
    BY <1>1, <1>4, <2>1 DEF Content
  <2>3. IsTables(db')
    BY <1>1, <1>4, <2>1, <2>2, PopTyped, PublishTyped
  <2> QED BY <1>1, <1>10, <2>3 DEF YcabledPeer, Surroundings
<1> QED BY <1>5, <1>6, <1>7, <1>8, <1>9, <1>10 DEF System

LEMMA WorldSurroundings ==
  ASSUME LoopInv, World
  PROVE  Surroundings
<1>1. IsTables(db) /\ hw \in {"Active", "Standby"} /\ world \in Worlds
  BY DEF LoopInv
<1>2. ASSUME NEW t \in Tables, NEW v \in Content(t), v # None,
             [world EXCEPT ![t] = v] \in Worlds, Changed(t, v)
      PROVE  Surroundings
  BY <1>1, <1>2, PublishTyped DEF Changed, Surroundings
<1>3. {"link", "route", "mode", "request"} \subseteq Tables
  BY DEF Tables
<1>4. CASE Takeover
  <2>1. "probe" \in Content("request")
    BY DEF Content
  <2>2. IsTables(db')
    BY <1>1, <1>3, <1>4, <2>1, PublishTyped DEF Takeover
  <2> QED BY <1>1, <1>4, <2>2 DEF Takeover, Surroundings
<1>5. CASE \E k \in {"server", "peer"} : Toggles(k)
  BY <1>1, <1>5 DEF Toggles, Surroundings, Worlds
<1>6. CASE \E l \in LinkLabels : Changed("link", l)
  <2>1. PICK l \in LinkLabels : Changed("link", l)
    BY <1>6
  <2>2. l \in Content("link") /\ l # None
    BY DEF Content, LinkLabels, None
  <2>3. [world EXCEPT !["link"] = l] \in Worlds
    BY <1>1 DEF Worlds
  <2> QED BY <1>2, <1>3, <2>1, <2>2, <2>3
<1>7. CASE \E r \in {"NA", "OK"} : Changed("route", r)
  <2>1. PICK r \in {"NA", "OK"} : Changed("route", r)
    BY <1>7
  <2>2. r \in Content("route") /\ r # None
    BY DEF Content, None
  <2>3. [world EXCEPT !["route"] = r] \in Worlds
    BY <1>1 DEF Worlds
  <2> QED BY <1>2, <1>3, <2>1, <2>2, <2>3
<1>8. CASE \E mode \in ConfigModes : Initialized /\ Changed("mode", mode)
  <2>1. PICK mode \in ConfigModes : Changed("mode", mode)
    BY <1>8
  <2>2. mode \in Content("mode") /\ mode # None
    BY ConstantsAssumption DEF Content, None, Modes
  <2>3. [world EXCEPT !["mode"] = mode] \in Worlds
    BY <1>1 DEF Worlds
  <2> QED BY <1>2, <1>3, <2>1, <2>2, <2>3
<1> QED BY <1>4, <1>5, <1>6, <1>7, <1>8 DEF World

-----------------------------------------------------------------------------
(* The invariant of the composition, and what follows from it. *)

\* An answer that the port ignores changes nothing of the invariant.
LEMMA PortStepSolid == IInv /\ PortStep => IInv'
<1>1. ASSUME IInv, lm' = Found PROVE IInv'
  BY <1>1, FoundSolid DEF IInv
<1> QED BY <1>1, NextSolid DEF PortStep

LEMMA LoopNextSolid == LoopInv /\ [LoopNext]_vars => LoopInv'
<1>1. ASSUME LoopInv, LoopNext PROVE LoopInv'
  <2>1. IInv'
    BY <1>1, LoopStep, PortStepSolid DEF LoopInv
  <2>2. Surroundings
    BY <1>1, SystemSurroundings, WorldSurroundings DEF LoopNext
  <2> QED BY <2>1, <2>2 DEF Surroundings, LoopInv
<1>2. ASSUME LoopInv, UNCHANGED vars PROVE LoopInv'
  BY <1>2 DEF LoopInv, IInv, vars
<1> QED BY <1>1, <1>2

(***************************************************************************)
(* The port does nothing among the databases, orchagent and ycabled that   *)
(* LinkManagerActiveActive does not allow, whatever fails and however      *)
(* often: its handlers are called only with what they take, and only the   *)
(* answer of a failed probe can be ignored.                                *)
(***************************************************************************)
THEOREM LoopIsPort == LoopSpec => Init /\ [][Next \/ lm' = Found]_lm
<1>1. LoopInit => Init
  BY DEF LoopInit
<1>2. LoopInv /\ [LoopNext]_vars => [Next \/ lm' = Found]_lm
  BY LoopStep DEF PortStep, vars
<1> QED BY <1>1, <1>2, LoopInitSolid, LoopNextSolid, PTL DEF LoopSpec

(***************************************************************************)
(* In the composition too, with any number of faults and changes of the    *)
(* world, no report is dropped while the port needs it, no wait for the    *)
(* mux lasts for ever, the label in STATE_DB is true, heartbeats stop with *)
(* the default route and the operator's direction is held.                 *)
(***************************************************************************)
THEOREM LoopSafe ==
  LoopSpec => [](/\ TypeOK /\ CompositeCoherent /\ WaitEnds
                 /\ LabelAccurate /\ ShutdownMatchesRoute
                 /\ OperatorHoldsDirection)
<1>1. IInv => TypeOK /\ CompositeCoherent
  BY DEF IInv, TypeOK, Solid, Coherent, CompositeCoherent, Waiting
<1>2. IInv => WaitEnds
  BY DEF IInv, Solid, Covered, Resyncs, WaitEnds, Waiting, Initialized
<1>3. IInv => LabelAccurate
  BY DEF IInv, Published, LabelAccurate, Initialized
<1>4. IInv => ShutdownMatchesRoute /\ OperatorHoldsDirection
  BY DEF IInv, Solid, Matches, Directed, ShutdownMatchesRoute,
     OperatorHoldsDirection, Initialized
<1>5. LoopInv => IInv
  BY DEF LoopInv
<1> QED BY <1>1, <1>2, <1>3, <1>4, <1>5, LoopInitSolid, LoopNextSolid, PTL
        DEF LoopSpec
=============================================================================
