------------------------------ MODULE Linkmgrd ------------------------------
(***************************************************************************)
(* The process: its threads, strands and databases.  src/src/LinkMgrdMain  *)
(* .cpp, the life of the process in MuxManager.cpp, and DbInterface.cpp.   *)
(*                                                                         *)
(* Four kinds of threads work here.  The main thread starts the others and *)
(* arms the timer of a warm restart.  The thread of the databases reads    *)
(* the configuration, creates the ports and then turns every notification  *)
(* into a call of the manager, which posts it to the strand of a port or   *)
(* of all of them.  The worker threads run those strands, the strand that  *)
(* writes to the databases, the strand that counts the ports a warm        *)
(* restart still waits for, and the timer's completion.  A signal makes    *)
(* one worker stop everything.                                             *)
(*                                                                         *)
(* A notification carries no value: the table is read when it is taken up, *)
(* so the latest value counts.  The databases, orchagent, ycabled, the     *)
(* kernel's neighbors and the operator are external.                       *)
(***************************************************************************)
EXTENDS MuxManager, FiniteSets, SequencesExt

CONSTANTS
  Ports,          \* the entries of MUX_CABLE
  Strangers,      \* ports of PORT_TABLE that carry no mux cable
  Cable,          \* cable_type of each entry
  Prober,         \* prober_type of each entry
  Keys,           \* keys of the tables, each <<table, name>>
  Values,         \* the values a key may take
  FirstTables,    \* contents of the tables at the start
  Starts,         \* how the process may start, see Start
  DefaultRouteFeature,  \* option --default_route
  Requests,       \* <<operation, port, label>> a link manager may ask of the databases
  MaxQueue,       \* bound: handlers waiting when a notification is taken up
  MaxChanges      \* bound: changes, requests and signals, in a warm restart or not

\* Tables with an entry for each port, the neighbors of the kernel among them, and
\* the keys of the others that matter.
PortTables == {"MUX_CABLE", "PORT_TABLE", "MUX_CABLE_TABLE", "MUX_CABLE_RESPONSE",
               "FORWARDING_STATE_RESPONSE", "FORWARDING_STATE_RESPONSE_PEER",
               "HW_MUX_CABLE_TABLE_PEER", "MUX_CABLE_INFO", "PCK_LOSS_DATA_RESET",
               "ICMP_ECHO_SESSION_TABLE", "NEIGH"}
LinkProberFields == {"src_mac", "use_well_known_mac", "reset_suspend_timer"}
IntervalFields   == {"interval_v4", "interval_v6"}
GlobalKeys == {"ROUTE_TABLE"} \X {"0.0.0.0/0", "::/0"}
              \cup {"BGP_DEVICE_GLOBAL"} \X {"tsa_enabled"}
              \cup {"LINK_PROBER"} \X (LinkProberFields \cup IntervalFields)

\* What the link managers write: the states of the mux, of the peer's and of the port,
\* commands to probe, sessions of the hardware, and figures for the operator.
States  == {"SetMuxState", "SetPeerMuxState", "SetMuxLinkmgrState"}
Probes  == {"ProbeMuxState", "ProbeForwardingState"}
Figures == {"PostMuxMetrics", "PostSwitchCause", "PostLinkProberMetrics", "PostPckLossRatio"}
Writes  == (States \cup Probes \cup Figures \cup {"IcmpEchoSession"}) \X (Ports \cup Strangers)

\* Whether it is a warm restart, and whether the configuration has an address for the
\* VLAN and for the loopback.  It has one for the device, or the process ends at once.
Start == [warm : BOOLEAN, vlanMac : BOOLEAN, loopback : BOOLEAN]

ASSUME LinkmgrdAssumption ==
  /\ IsFiniteSet(Ports)
  /\ Ports \cap Strangers = {}
  /\ Cable \in [Ports -> CableTypes]
  /\ Prober \in [Ports -> ProberTypes]
  /\ Keys \subseteq PortTables \X (Ports \cup Strangers) \cup GlobalKeys
  /\ {"MUX_CABLE"} \X Ports \subseteq Keys
  /\ FirstTables \subseteq [Keys -> STRING]
  /\ Values \in [Keys -> SUBSET STRING]
  /\ \A k \in Keys : None \notin Values[k]
  /\ Requests \subseteq (States \cup Figures \cup {"Probe", "GetMuxState", "CreateSession",
                                            "DeleteSession"})
                  \X Ports \X STRING
  /\ Starts \subseteq Start
  /\ DefaultRouteFeature \in BOOLEAN
  /\ MaxQueue \in Nat
  /\ MaxChanges \in [BOOLEAN -> Nat]

VARIABLES
  main,      \* what the main thread does next
  swss,      \* what the thread of the databases does next
  stopper,   \* what the handler of the signal does next
  mgr,       \* the manager with its ports
  dbStrand,  \* handlers on the strand of DbInterface
  tables,    \* the databases
  fresh,     \* keys whose notification has not been taken up
  changed,   \* keys somebody else has changed
  out        \* what the link managers asked of the databases, and got written

vars == <<main, swss, stopper, mgr, dbStrand, tables, fresh, changed, out>>

Running == stopper \in {"none", "barrier1", "stop"}   \* the event loop

-----------------------------------------------------------------------------
(* The main thread                                                          *)

\* MuxManager::initialize: the thread of the databases runs before the rest is done.
initialize ==
  /\ main = "StartThread"
  /\ main' = "StartTimer"
  /\ swss' = "getTorMacAddress"
  /\ UNCHANGED <<stopper, mgr, dbStrand, tables, fresh, changed, out>>

StartTimer ==
  /\ main = "StartTimer"
  /\ main' = "EnableFeatures"
  /\ mgr' = IF mgr.start.warm THEN startWarmRestartReconciliationTimer(mgr) ELSE mgr
  /\ UNCHANGED <<swss, stopper, dbStrand, tables, fresh, changed, out>>

EnableFeatures ==
  /\ main = "EnableFeatures"
  /\ main' = "run"
  /\ mgr' = [mgr EXCEPT !.defaultRouteFeature = DefaultRouteFeature]
  /\ UNCHANGED <<swss, stopper, dbStrand, tables, fresh, changed, out>>

\* run returns when the event loop is stopped; deinitialize joins the thread.
deinitialize ==
  /\ main = "run"
  /\ swss = "ended"
  /\ main' = "exit"
  /\ UNCHANGED <<swss, stopper, mgr, dbStrand, tables, fresh, changed, out>>

-----------------------------------------------------------------------------
(* The thread of the databases reads the configuration                      *)

Reads(step, next, m) ==
  /\ swss = step
  /\ swss' = next
  /\ mgr' = m
  /\ UNCHANGED <<main, stopper, dbStrand, tables, fresh, changed, out>>

processTorMacAddress ==
  Reads("getTorMacAddress", "getVlanNames", setTorMacAddress(mgr))

getVlanMacAddress ==
  Reads("getVlanNames", "getLoopbackInterfacesInfo", VlanMacAddress(mgr, mgr.start.vlanMac))

processLoopbackInterfacesInfo ==
  Reads("getLoopbackInterfacesInfo", "getPortCableType",
        LoopbackAddress(mgr, mgr.start.loopback))

\* Mutant: ports are created before their cable types are read.
processPortCableType_Late ==
  Reads("getPortCableType", "getProberType", getMuxPortPtrOrThrow(mgr, Ports))

processPortCableType ==
  Reads("getPortCableType", "getProberType", updatePortCableType(mgr, Cable))

processProberType ==
  Reads("getProberType", "getServerIpAddress", updateProberType(mgr, Prober))

\* Every port is counted, then told its address: it activates active-standby ports.
processServerIpAddress ==
  Reads("getServerIpAddress", "getSoCIpAddress",
        addOrUpdateMuxPort(
          updateWarmRestartReconciliationCount(mgr, Cardinality(Ports)), Ports))

\* The address activates active-active ports.
processSoCIpAddress ==
  Reads("getSoCIpAddress", "select", addOrUpdateMuxPortSoCAddress(mgr, Ports))

-----------------------------------------------------------------------------
(* ... and takes up notifications                                           *)

\* What the sessions of the hardware are, if all that exist have the interval label.
InAllSessions(entries, label) ==
  [w \in Writes |-> IF w[1] = "IcmpEchoSession" /\ entries[w] # None THEN label
                    ELSE entries[w]]

\* Bound: handlers on all strands.
Waiting == Len(dbStrand) + Len(mgr.strand)
           + MapThenSumSet(LAMBDA p : Len(mgr.ports[p].strand), DOMAIN mgr.ports)

\* handleSwssNotification: the loop takes up the notification of key k and calls the
\* manager, which is m afterwards.
Takes(k, m) ==
  /\ swss = "select"
  /\ stopper = "none"
  /\ k \in fresh
  /\ Waiting < MaxQueue
  /\ fresh' = fresh \ {k}
  /\ mgr' = m
  /\ UNCHANGED <<main, swss, stopper, tables, changed>>

TakesUp(k, m) == Takes(k, m) /\ UNCHANGED <<dbStrand, out>>

processMuxPortConfigNotifiction(p) ==
  LET k == <<"MUX_CABLE", p>> IN
  TakesUp(k, updateMuxPortConfig(mgr, p, tables[k]))

processPckLossDataReset(p) ==
  TakesUp(<<"PCK_LOSS_DATA_RESET", p>>, resetPckLossCount(mgr, p))

\* Also for ports without a mux cable.
processLinkStateNotifiction(p) ==
  LET k == <<"PORT_TABLE", p>> IN
  TakesUp(k, addOrUpdateMuxPortLinkState(mgr, p, tables[k]))

processPeerLinkStateNotification(p) ==
  LET k == <<"MUX_CABLE_INFO", p>> IN
  TakesUp(k, addOrUpdatePeerLinkState(mgr, p, tables[k]))

processMuxStateNotifiction(p) ==
  LET k == <<"MUX_CABLE_TABLE", p>> IN
  TakesUp(k, addOrUpdateMuxPortMuxState(mgr, p, tables[k]))

processMuxResponseNotifiction(p) ==
  LET k == <<"MUX_CABLE_RESPONSE", p>> IN
  TakesUp(k, processProbeMuxState(mgr, p, tables[k]))

\* A response has two fields, the own half of the card and the peer's.
processForwardingResponseNotification(p) ==
  \/ LET k == <<"FORWARDING_STATE_RESPONSE", p>> IN
     TakesUp(k, processProbeMuxState(mgr, p, tables[k]))
  \/ LET k == <<"FORWARDING_STATE_RESPONSE_PEER", p>> IN
     TakesUp(k, processPeerMuxState(mgr, p, tables[k]))

processPeerMuxNotification(p) ==
  LET k == <<"HW_MUX_CABLE_TABLE_PEER", p>> IN
  TakesUp(k, processPeerMuxState(mgr, p, tables[k]))

processIcmpEchoSessionStateNotification(p) ==
  LET k == <<"ICMP_ECHO_SESSION_TABLE", p>> IN
  TakesUp(k, updateLinkFailureDetectionState(mgr, p, tables[k]))

\* NetMsgInterface: a neighbor whose address is the one of a port's server.
updateServerMacAddress(p) ==
  LET k == <<"NEIGH", p>> IN
  TakesUp(k, IF p \in Ports THEN processGetServerMacAddress(mgr, p, tables[k]) ELSE mgr)

processDefaultRouteStateNotification(family) ==
  LET k == <<"ROUTE_TABLE", family>> IN
  TakesUp(k, addOrUpdateDefaultRouteState(mgr, family = "0.0.0.0/0", tables[k]))

\* A mode for every port, whatever is configured.
processTsaEnableNotification ==
  LET k == <<"BGP_DEVICE_GLOBAL", "tsa_enabled">> IN
  TakesUp(k, handleTsaEnableNotification(mgr, tables[k] = "true"))

\* The operator names ports whose heartbeats shall go on; one is enough here.
processMuxLinkmgrConfigNotifiction(field) ==
  LET k == <<"LINK_PROBER", field>> IN
  TakesUp(k,
    CASE field = "src_mac" -> processSrcMac(mgr, tables[k] = "ToRMac")
      [] field = "use_well_known_mac" ->
           setUseWellKnownMacActiveActive(mgr, tables[k] = "enable")
      [] field = "reset_suspend_timer" -> processResetSuspendTimer(mgr, {tables[k]}))

\* updateIntervalv4 and updateIntervalv6: every port asks for it, for all sessions and
\* whichever the family.
updateInterval(field) ==
  LET k == <<"LINK_PROBER", field>>
      update == [op |-> "UpdateInterval", port |-> None, label |-> tables[k]] IN
  /\ Takes(k, setTimeout_msec(mgr, tables[k], field = "interval_v4"))
  /\ dbStrand' = dbStrand \o [i \in 1 .. Cardinality(DOMAIN mgr.ports) |-> update]
  /\ out' = [out EXCEPT !.asked = InAllSessions(@, tables[k])]

Notification ==
  \/ \E p \in Ports \cup Strangers :
       \/ processMuxPortConfigNotifiction(p)
       \/ processPckLossDataReset(p)
       \/ processLinkStateNotifiction(p)
       \/ processPeerLinkStateNotification(p)
       \/ processMuxStateNotifiction(p)
       \/ processMuxResponseNotifiction(p)
       \/ processForwardingResponseNotification(p)
       \/ processPeerMuxNotification(p)
       \/ processIcmpEchoSessionStateNotification(p)
       \/ updateServerMacAddress(p)
  \/ \E family \in {"0.0.0.0/0", "::/0"} : processDefaultRouteStateNotification(family)
  \/ processTsaEnableNotification
  \/ \E field \in LinkProberFields : processMuxLinkmgrConfigNotifiction(field)
  \/ \E field \in IntervalFields : updateInterval(field)

-----------------------------------------------------------------------------
(* The workers: the strand of a port                                        *)

setMuxMode(p, mode) == [op |-> "SetMuxMode", port |-> p, label |-> mode]

\* The next handler of port p, and DbInterface::warmRestartReconciliation.
Handle(p) ==
  LET port == mgr.ports[p]
      h    == Head(port.strand).handler
      arg  == Head(port.strand).arg
      done == mgr.start.warm /\ WarmRestartReconciliation(port, h, arg) IN
  /\ Running
  /\ port.strand # <<>>
  /\ \E next \in Handled([port EXCEPT !.strand = Tail(@)], h, arg, Config(mgr)) :
       LET m == [mgr EXCEPT !.ports[p] = next] IN
       mgr' = IF done THEN updateWarmRestartReconciliationCount(m, -1) ELSE m
  /\ dbStrand' = IF done THEN Append(dbStrand, setMuxMode(p, "auto")) ELSE dbStrand
  /\ UNCHANGED <<main, swss, stopper, tables, fresh, changed, out>>

\* The handler of a mode told before the port was initialized runs again.
RunAgain(p) ==
  LET port == mgr.ports[p] IN
  /\ Running
  /\ \E mode \in port.rerun :
       mgr' = [mgr EXCEPT !.ports[p] = [port EXCEPT !.rerun = @ \ {mode}, !.mode = mode,
                                                    !.told["MuxConfig"] = mode]]
  /\ UNCHANGED <<main, swss, stopper, dbStrand, tables, fresh, changed, out>>

-----------------------------------------------------------------------------
(* ... the strand of the manager and its timer                              *)

HandleCount ==
  /\ Running
  /\ mgr.strand # <<>>
  /\ mgr' = handleUpdateReconciliationCount([mgr EXCEPT !.strand = Tail(@)],
                                            Head(mgr.strand))
  /\ UNCHANGED <<main, swss, stopper, dbStrand, tables, fresh, changed, out>>

TimerExpires ==
  /\ Running
  /\ mgr.timer = "Waiting"
  /\ mgr' = [mgr EXCEPT !.timer = "Expired"]
  /\ UNCHANGED <<main, swss, stopper, dbStrand, tables, fresh, changed, out>>

\* getMuxModeConfig: the ports whose configured mode is not auto.
NotAuto == {p \in Ports : LET k == <<"MUX_CABLE", p>> IN
                          k \in Keys /\ tables[k] \notin {None, "auto"}}

\* Whether the wait ended by itself or was called off.
handleWarmRestartReconciliationTimeout ==
  /\ Running
  /\ mgr.timer \in {"Expired", "Aborted"}
  /\ mgr' = [mgr EXCEPT !.timer = "Off"]
  /\ LET order == SetToSeq(NotAuto) IN
     dbStrand' = dbStrand \o [i \in 1 .. Len(order) |-> setMuxMode(order[i], "auto")]
  /\ UNCHANGED <<main, swss, stopper, tables, fresh, changed, out>>

-----------------------------------------------------------------------------
(* ... and the strand of the databases                                      *)

Serves(op) ==
  /\ Running
  /\ dbStrand # <<>>
  /\ Head(dbStrand).op = op
  /\ dbStrand' = Tail(dbStrand)
  /\ UNCHANGED <<main, swss, stopper, changed>>

\* Of the labels of the mux these are known to orchagent.
Accepted(op, label) ==
  op \in {"SetMuxState", "SetPeerMuxState"} => label \in {"Active", "Standby", "Unknown"}

\* The entry an operation writes, which becomes label.
Entry(op) == IF op \in {"CreateSession", "DeleteSession"} THEN "IcmpEchoSession" ELSE op

Puts(op, label) ==
  /\ Serves(op)
  /\ out' = IF Accepted(op, label)
            THEN [out EXCEPT !.written[<<Entry(op), Head(dbStrand).port>>] = label] ELSE out
  /\ UNCHANGED <<mgr, tables, fresh>>

\* On this strand, so the answer is posted to the port from here.
dbHandleGetMuxState ==
  LET p == Head(dbStrand).port
      k == <<"MUX_CABLE_TABLE", p>> IN
  /\ Serves("GetMuxState")
  /\ mgr' = IF k \in Keys /\ tables[k] # None
            THEN processGetMuxState(mgr, p, tables[k]) ELSE mgr
  /\ UNCHANGED <<tables, fresh, out>>

handleSetMuxState     == Puts("SetMuxState", Head(dbStrand).label)
handleSetPeerMuxState == Puts("SetPeerMuxState", Head(dbStrand).label)
dbHandleProbeMuxState        == Puts("ProbeMuxState", "probe")
handleProbeForwardingState == Puts("ProbeForwardingState", "probe")
handleSetMuxLinkmgrState   == Puts("SetMuxLinkmgrState", Head(dbStrand).label)

\* The first event of a switch clears the others; the last event counts here.
handlePostMuxMetrics        == Puts("PostMuxMetrics", Head(dbStrand).label)
handlePostSwitchCause       == Puts("PostSwitchCause", Head(dbStrand).label)
handlePostLinkProberMetrics == Puts("PostLinkProberMetrics", Head(dbStrand).label)
handlePostPckLossRatio      == Puts("PostPckLossRatio", Head(dbStrand).label)

handleIcmpEchoSession       == Puts("CreateSession", Head(dbStrand).label)
handleDeleteIcmpEchoSession == Puts("DeleteSession", Head(dbStrand).label)

\* All sessions the table holds.
handleUpdateInterval ==
  /\ Serves("UpdateInterval")
  /\ out' = [out EXCEPT !.written = InAllSessions(@, Head(dbStrand).label)]
  /\ UNCHANGED <<mgr, tables, fresh>>

\* The mode goes to the configuration, whose notification comes back.
handleSetMuxMode ==
  LET r == Head(dbStrand)
      k == <<"MUX_CABLE", r.port>> IN
  /\ Serves("SetMuxMode")
  /\ tables' = [tables EXCEPT ![k] = r.label]
  /\ fresh' = fresh \cup {k}
  /\ UNCHANGED <<mgr, out>>

DbStrand ==
  \/ dbHandleGetMuxState
  \/ handleSetMuxState
  \/ handleSetPeerMuxState
  \/ dbHandleProbeMuxState
  \/ handleProbeForwardingState
  \/ handleSetMuxLinkmgrState
  \/ handlePostMuxMetrics
  \/ handlePostSwitchCause
  \/ handlePostLinkProberMetrics
  \/ handlePostPckLossRatio
  \/ handleIcmpEchoSession
  \/ handleDeleteIcmpEchoSession
  \/ handleUpdateInterval
  \/ handleSetMuxMode

-----------------------------------------------------------------------------
(* What a link manager asks of the databases                                *)

\* Bound: one more change, request or signal.
Spare == Cardinality(changed) + out.count < MaxChanges[mgr.start.warm] /\ stopper = "none"

\* boost::asio::post on the strand of DbInterface, by a port that is initialized.
Ask(op, p, label) ==
  /\ Spare
  /\ p \in DOMAIN mgr.ports /\ Initialized(mgr.ports[p])
  /\ dbStrand' = Append(dbStrand, [op |-> op, port |-> p, label |-> label])
  /\ out' = [out EXCEPT !.count = @ + 1,
                        !.asked = IF op # "GetMuxState" /\ Accepted(op, label)
                                  THEN [@ EXCEPT ![<<Entry(op), p>>] = label] ELSE @]
  /\ UNCHANGED <<main, swss, stopper, mgr, tables, fresh, changed>>

\* getMuxState, setMuxState, setPeerMuxState, setMuxLinkmgrState, probeMuxState and
\* probeForwardingState.
AskState(op, p, label) ==
  \/ op \in States \cup {"GetMuxState"} /\ Ask(op, p, label)
  \/ op = "Probe" /\ p \in DOMAIN mgr.ports /\ Ask(probeMuxState(mgr.ports[p]), p, "probe")

\* postMetricsEvent, postSwitchCause, postLinkProberMetricsEvent, postPckLossRatio.
postMetricsEvent(op, p, label) == op \in Figures /\ Ask(op, p, label)

\* A prober makes a session with the interval it reads, on its own strand; the
\* interval may be another one by the time it asks for the session.
readInterval(op, p) ==
  /\ op = "CreateSession"
  /\ Spare
  /\ p \in DOMAIN mgr.ports /\ Initialized(mgr.ports[p])
  /\ \A read \in out.reads : read[1] # p
  /\ out' = [out EXCEPT !.count = @ + 1, !.reads = @ \cup {<<p, mgr.interval>>}]
  /\ UNCHANGED <<main, swss, stopper, mgr, dbStrand, tables, fresh, changed>>

createIcmpEchoSession(p, interval) ==
  /\ Running
  /\ dbStrand' = Append(dbStrand, [op |-> "CreateSession", port |-> p, label |-> interval])
  /\ out' = [out EXCEPT !.reads = @ \ {<<p, interval>>},
                        !.asked[<<"IcmpEchoSession", p>>] = interval]
  /\ UNCHANGED <<main, swss, stopper, mgr, tables, fresh, changed>>

deleteIcmpEchoSession(op, p) == op = "DeleteSession" /\ Ask(op, p, None)

-----------------------------------------------------------------------------
(* The end: the handler of the signal and the thread of the databases meet   *)
(* twice, so that no worker runs when the second is over.                   *)

\* Then handleProcessTerminate: the thread of the databases shall leave its loop;
\* mBarrier.wait.
handleSignal ==
  /\ Spare
  /\ stopper' = "barrier1"
  /\ UNCHANGED <<main, swss, mgr, dbStrand, tables, fresh, changed, out>>

LeaveLoop ==
  /\ swss = "select"
  /\ stopper # "none"
  /\ swss' = "barrier1"
  /\ UNCHANGED <<main, stopper, mgr, dbStrand, tables, fresh, changed, out>>

Meet1 ==
  /\ swss = "barrier1" /\ stopper = "barrier1"
  /\ swss' = "barrier2" /\ stopper' = "stop"
  /\ UNCHANGED <<main, mgr, dbStrand, tables, fresh, changed, out>>

\* Mutant: the second wait is forgotten.
stop_NoWait ==
  /\ stopper = "stop"
  /\ stopper' = "done"
  /\ UNCHANGED <<main, swss, mgr, dbStrand, tables, fresh, changed, out>>

\* mIoService.stop; mBarrier.wait.
stop ==
  /\ stopper = "stop"
  /\ stopper' = "barrier2"
  /\ UNCHANGED <<main, swss, mgr, dbStrand, tables, fresh, changed, out>>

Meet2 ==
  /\ swss = "barrier2" /\ stopper = "barrier2"
  /\ swss' = "terminate" /\ stopper' = "done"
  /\ UNCHANGED <<main, mgr, dbStrand, tables, fresh, changed, out>>

\* MuxManager::terminate joins the workers.
terminate ==
  /\ swss = "terminate"
  /\ stopper = "done"
  /\ swss' = "ended"
  /\ UNCHANGED <<main, stopper, mgr, dbStrand, tables, fresh, changed, out>>

-----------------------------------------------------------------------------
(* Everybody else                                                           *)

\* Bound: a key changes once in a run, and not before the options are stored.  What
\* has changed earlier is what the tables hold at the start.
Change(k) ==
  /\ k \notin changed
  /\ main = "run"
  /\ swss = "select"
  /\ Spare
  /\ \E v \in Values[k] \ {tables[k]} : tables' = [tables EXCEPT ![k] = v]
  /\ fresh' = fresh \cup {k}
  /\ changed' = changed \cup {k}
  /\ UNCHANGED <<main, swss, stopper, mgr, dbStrand, out>>

MainThread == initialize \/ StartTimer \/ EnableFeatures \/ deinitialize
DbThread == \/ processTorMacAddress \/ getVlanMacAddress \/ processLoopbackInterfacesInfo
            \/ processPortCableType \/ processProberType \/ processServerIpAddress
            \/ processSoCIpAddress \/ Notification \/ LeaveLoop \/ terminate
Workers == \/ \E p \in DOMAIN mgr.ports : Handle(p) \/ RunAgain(p)
           \/ \E read \in out.reads : createIcmpEchoSession(read[1], read[2])
           \/ HandleCount \/ handleWarmRestartReconciliationTimeout \/ DbStrand \/ stop
System == MainThread \/ DbThread \/ Workers \/ Meet1 \/ Meet2 \/ TimerExpires

Environment ==
  \/ \E k \in Keys : Change(k)
  \/ \E r \in Requests : \/ AskState(r[1], r[2], r[3])
                         \/ postMetricsEvent(r[1], r[2], r[3])
                         \/ readInterval(r[1], r[2])
                         \/ deleteIcmpEchoSession(r[1], r[2])
  \/ handleSignal

Init ==
  /\ main = "StartThread" /\ swss = "none" /\ stopper = "none"
  /\ \E start \in Starts : mgr = NewManager(start)
  /\ dbStrand = <<>>
  /\ tables \in FirstTables
  /\ fresh = {k \in Keys : tables[k] # None}
  /\ changed = {}
  /\ out = [asked |-> [w \in Writes |-> None], written |-> [w \in Writes |-> None],
            reads |-> {}, count |-> 0]

Next == System \/ Environment

Spec == Init /\ [][Next]_vars

\* Every thread gets its turn and timers expire.
FairSpec == Spec /\ WF_vars(System)

-----------------------------------------------------------------------------
(* Properties                                                               *)

AtRest == /\ main = "run" /\ swss = "select" /\ stopper = "none"
          /\ fresh = {} /\ dbStrand = <<>> /\ mgr.strand = <<>> /\ out.reads = {}
          /\ mgr.timer \notin {"Waiting", "Expired", "Aborted"}
          /\ \A p \in DOMAIN mgr.ports : /\ mgr.ports[p].strand = <<>>
                                         /\ mgr.ports[p].rerun = {}

\* The members have the types of the code, and every port has a cable type.
TypeOK ==
  /\ main \in {"StartThread", "StartTimer", "EnableFeatures", "run", "exit"}
  /\ swss \in {"none", "getTorMacAddress", "getVlanNames", "getLoopbackInterfacesInfo",
               "getPortCableType", "getProberType", "getServerIpAddress",
               "getSoCIpAddress", "select", "barrier1", "barrier2", "terminate", "ended"}
  /\ stopper \in {"none", "barrier1", "stop", "barrier2", "done"}
  /\ DOMAIN mgr.ports \subseteq DOMAIN mgr.cables
  /\ DOMAIN mgr.cables \subseteq Ports \cup Strangers
  /\ mgr.count \in Counts
  /\ mgr.timer \in {"Off", "Waiting", "Expired", "Aborted"}
  /\ \A p \in DOMAIN mgr.ports :
       /\ mgr.ports[p].cable \in CableTypes
       /\ mgr.ports[p].proberType \in ProberTypes \cup {"uninitialized"}
       /\ mgr.ports[p].fitted \in ProberTypes \cup {None}
       /\ mgr.ports[p].init \subseteq Components

\* A port is built once and for all, by whatever mentions it first, and its link
\* prober by the address that arrives for it.  Both have to find what the
\* configuration says of the port: MuxManager.cpp:484 makes the link manager for the
\* cable type known then, LinkManagerStateMachineActiveActive.cpp:125 makes the
\* prober for the type known then, and LinkProberBase.cpp:330 fills its heartbeats with
\* the addresses known then.
BuiltAsConfigured ==
  \A p \in DOMAIN mgr.ports \cap Ports :
    LET port == mgr.ports[p] IN
    /\ port.cable = Cable[p]
    /\ Cable[p] = "active-active" => port.fitted \in {None, Prober[p]}
    /\ port.frame # NoFrame => /\ port.frame.source # None
                            /\ port.frame.address = "Loopback2" <=> mgr.start.loopback

Holds(key) == IF key \in Keys THEN tables[key] ELSE None

\* The addresses the databases and the kernel have for the heartbeats of port p.
Addresses(p) ==
  [source |-> IF Holds(<<"LINK_PROBER", "src_mac">>) = "ToRMac" \/ ~mgr.start.vlanMac
              THEN "tor" ELSE "vlan",
   dest |-> IF /\ Cable[p] = "active-active"
               /\ Holds(<<"LINK_PROBER", "use_well_known_mac">>) \in {None, "enable"}
            THEN "known" ELSE Holds(<<"NEIGH", p>>),
   address |-> IF mgr.start.loopback THEN "Loopback2" ELSE "default"]

\* Isolating the device and configuring a port set the same mode.  Port p was told
\* last one of the two, as it is now.
ModeIsKnown(p) ==
  LET k == <<"MUX_CABLE", p>>
      t == <<"BGP_DEVICE_GLOBAL", "tsa_enabled">>
      told == mgr.ports[p].told["MuxConfig"] IN
  k \in Keys /\ tables[k] # None /\ Understood(mgr.ports[p], tables[k]) =>
    \/ told = ModeLabel(tables[k])
    \/ t \in Keys /\ tables[t] # None /\ told = TsaLabel(tables[t] = "true")

\* When nothing is under way, the ports and the databases agree.  Every link manager
\* has been told last what the tables hold, and of the IPv4 route, on which the
\* heartbeats depend, what it is; an active-standby port runs the mode of now;
\* heartbeats have the addresses of now; the databases hold what was asked of them
\* last.  So nothing is lost or overtaken, whatever was created, initialized or under
\* way before (DbInterface.cpp:1813 and :408, MuxManager.cpp:442, MuxPort.cpp:156).
\* A route that has not changed since the start may have been taken up before the
\* options were stored, as if the feature were off (MuxManager.cpp:118).
PortsAndDatabasesAgree ==
  AtRest =>
    /\ \A p \in Ports :
         LET told == mgr.ports[p].told
             Says(key, handler, label) == Holds(key) # None => told[handler] = label
             link  == <<"PORT_TABLE", p>>
             mux   == <<"MUX_CABLE_TABLE", p>>
             info  == <<"MUX_CABLE_INFO", p>>
             route == <<"ROUTE_TABLE", "0.0.0.0/0">>
             word  == IF Holds(route) = "ok" THEN "ok" ELSE "na"
             peers == {key \in {<<"HW_MUX_CABLE_TABLE_PEER", p>>,
                               <<"FORWARDING_STATE_RESPONSE_PEER", p>>} : Holds(key) # None}
         IN /\ Says(link, "LinkState", LinkLabel(Holds(link)))
            /\ Says(mux, "MuxState", MuxLabel(Holds(mux)))
            /\ Says(info, "PeerLinkState", PeerLinkLabel(Holds(info)))
            /\ \/ Says(route, "DefaultRouteState", RouteLabel(word, DefaultRouteFeature))
               \/ /\ route \notin changed
                  /\ Says(route, "DefaultRouteState", RouteLabel(word, FALSE))
            /\ peers = {} \/ \E key \in peers : told["PeerMuxState"] = MuxLabel(Holds(key))
            /\ Cable[p] = "active-standby" => ModeIsKnown(p)
            /\ mgr.ports[p].frame \in {NoFrame, Addresses(p)}
    /\ out.written = out.asked

\* At rest every port runs the mode of now, the active-active ones too.  The comment on
\* handleMuxConfigNotification says that it handles the change of a configuration, but a
\* mode told before the activation is handled again after it, and after the mode that
\* replaced it (LinkManagerStateMachineActiveActive.cpp:288).
ModeIsCurrent == AtRest => \A p \in Ports : ModeIsKnown(p)

\* Whatever a warm restart left behind, every port gets back into mode auto unless
\* somebody configures it meanwhile or the process ends: the count of ports reaches 0,
\* or the timer expires, though they race with the threads that start (MuxManager.cpp:115
\* and :628, MuxPort.cpp:463).
AutoAfterWarmRestart ==
  (mgr.start.warm /\ main = "run") ~>
    \/ stopper # "none"
    \/ \A p \in Ports :
         LET k == <<"MUX_CABLE", p>> IN
         k \in Keys \ changed => tables[k] \in {None, "auto"}

\* A signal ends the process, wherever its threads are: neither waits at a barrier
\* the other does not reach (MuxManager.cpp:551, DbInterface.cpp:1916).
SignalEndsProcess == (stopper # "none") ~> (main = "exit")
=============================================================================
