----------------------------- MODULE MuxManager -----------------------------
(***************************************************************************)
(* The manager of the ports: src/src/MuxManager.cpp.  The thread of the    *)
(* databases calls it with what it read; it finds the port, or creates it, *)
(* and passes the call on to the port or to every port.  It also counts    *)
(* the ports that a warm restart still waits for.                          *)
(*                                                                         *)
(* The manager is a record and a method an operator from record to record. *)
(* The threads that call it are those of Linkmgrd.                         *)
(***************************************************************************)
EXTENDS MuxPort, Integers

(***************************************************************************)
(* The members of m:                                                       *)
(*   ports, cables   mPortMap and mPortCableTypeMap                        *)
(*   v4, v6      mIpv4DefaultRouteState and mIpv6DefaultRouteState         *)
(*   defaultRouteFeature, useTorMac, useWellKnownMac, torMac, vlanMac,     *)
(*   loopback, interval   of MuxConfig, where mUseWellKnownMacActiveActive *)
(*               begins as true                                            *)
(*   start       whether this is a warm restart, and what is configured    *)
(*   strand      increments posted to mStrand                              *)
(*   count       mPortReconciliationCount                                  *)
(*   timer       mReconciliationTimer                                      *)
(***************************************************************************)
NewManager(start) ==
  [ports |-> <<>>, cables |-> <<>>, v4 |-> "na", v6 |-> "na",
   defaultRouteFeature |-> FALSE, useTorMac |-> FALSE, useWellKnownMac |-> TRUE,
   torMac |-> None, vlanMac |-> None, loopback |-> "default", interval |-> "100",
   start |-> start, strand |-> <<>>, count |-> 0, timer |-> "Off"]

\* The well known address of a server, its six bytes.  The digits of its number have
\* base 255 and replace the bytes at the end.
KNOWN_MAC_START == <<4, 39, 40, 122, 0, 0>>
generateServerMac(serverId) ==
  LET offset[i \in 1 .. 6] == IF i = 6 THEN KNOWN_MAC_START[6] + serverId
                                       ELSE offset[i + 1] \div 255
  IN  [i \in 1 .. 6 |-> IF offset[i] > 0 THEN offset[i] % 255 ELSE KNOWN_MAC_START[i]]

\* A port nobody has spoken of is active-standby.
getMuxPortCableType(m, p) ==
  IF p \in DOMAIN m.cables THEN m.cables[p] ELSE "active-standby"

\* The ports of names exist afterwards, and so do their cable types.
getMuxPortPtrOrThrow(m, names) ==
  [m EXCEPT
     !.cables = [p \in DOMAIN m.cables \cup names |-> getMuxPortCableType(m, p)],
     !.ports  = [p \in DOMAIN m.ports \cup names |->
                   IF p \in DOMAIN m.ports THEN m.ports[p]
                   ELSE NewPort(getMuxPortCableType(m, p), m.useWellKnownMac)]]

\* What a handler of a port reads of MuxConfig.
Config(m) ==
  [source |-> IF m.useTorMac THEN m.torMac ELSE m.vlanMac, loopback |-> m.loopback,
   useWellKnownMac |-> m.useWellKnownMac]

-----------------------------------------------------------------------------
(* The configuration, for all its ports at once                             *)

setTorMacAddress(m) == [m EXCEPT !.torMac = "tor"]

\* processVlanMacAddress: without one for the VLAN the device's own address is used.
VlanMacAddress(m, found) ==
  IF found THEN [m EXCEPT !.vlanMac = "vlan"] ELSE [m EXCEPT !.useTorMac = TRUE]

\* The default address stays unless another is configured.
LoopbackAddress(m, found) == IF found THEN [m EXCEPT !.loopback = "Loopback2"] ELSE m

\* What is known of a port already stays.
updatePortCableType(m, cable) ==
  [m EXCEPT !.cables = [p \in DOMAIN m.cables \cup DOMAIN cable |->
                          IF p \in DOMAIN m.cables THEN m.cables[p] ELSE cable[p]]]

updateProberType(m, prober) ==
  LET n == getMuxPortPtrOrThrow(m, DOMAIN prober) IN
  [n EXCEPT !.ports = [p \in DOMAIN n.ports |->
     IF p \in DOMAIN prober /\ n.cables[p] = "active-active"
     THEN setLinkProberType(n.ports[p], prober[p]) ELSE n.ports[p]]]

addOrUpdateMuxPort(m, names) ==
  LET n == getMuxPortPtrOrThrow(m, names) IN
  [n EXCEPT !.ports = [p \in DOMAIN n.ports |->
     IF p \in names /\ n.cables[p] = "active-standby"
     THEN handleBladeIpv4AddressUpdate(n.ports[p]) ELSE n.ports[p]]]

addOrUpdateMuxPortSoCAddress(m, names) ==
  LET n == getMuxPortPtrOrThrow(m, names) IN
  [n EXCEPT !.ports = [p \in DOMAIN n.ports |->
     IF p \in names /\ n.cables[p] = "active-active"
     THEN handleSoCIpv4AddressUpdate(n.ports[p]) ELSE n.ports[p]]]

-----------------------------------------------------------------------------
(* Notifications for one port.  Some create it ...                          *)

\* Mutant: a port that is not initialized misses the state of its link.
addOrUpdateMuxPortLinkState_OnlyInitialized(m, p, word) ==
  IF p \in DOMAIN m.ports /\ Initialized(m.ports[p])
  THEN [m EXCEPT !.ports[p] = handleLinkState(@, word)] ELSE m

addOrUpdateMuxPortLinkState(m, p, word) ==
  [getMuxPortPtrOrThrow(m, {p}) EXCEPT !.ports[p] = handleLinkState(@, word)]

addOrUpdatePeerLinkState(m, p, word) ==
  [getMuxPortPtrOrThrow(m, {p}) EXCEPT !.ports[p] = handlePeerLinkState(@, word)]

addOrUpdateMuxPortMuxState(m, p, word) ==
  [getMuxPortPtrOrThrow(m, {p}) EXCEPT !.ports[p] = handleMuxState(@, word)]

updateLinkFailureDetectionState(m, p, state) ==
  LET n == getMuxPortPtrOrThrow(m, {p}) IN
  IF n.cables[p] = "active-active"
  THEN [n EXCEPT !.ports[p] = LinkFailureDetectionState(@, state)] ELSE n

(* ... and the others are for ports that exist.                             *)

updateMuxPortConfig(m, p, word) ==
  IF p \in DOMAIN m.ports THEN [m EXCEPT !.ports[p] = handleMuxConfig(@, word)] ELSE m

processGetMuxState(m, p, word) ==
  IF p \in DOMAIN m.ports THEN [m EXCEPT !.ports[p] = handleGetMuxState(@, word)] ELSE m

processProbeMuxState(m, p, word) ==
  IF p \in DOMAIN m.ports THEN [m EXCEPT !.ports[p] = handleProbeMuxState(@, word)] ELSE m

processPeerMuxState(m, p, word) ==
  IF p \in DOMAIN m.ports THEN [m EXCEPT !.ports[p] = handlePeerMuxState(@, word)] ELSE m

processGetServerMacAddress(m, p, address) ==
  IF p \in DOMAIN m.ports
  THEN [m EXCEPT !.ports[p] = handleGetServerMacAddress(@, address)] ELSE m

resetPckLossCount(m, p) ==
  IF p \in DOMAIN m.ports THEN [m EXCEPT !.ports[p] = handleResetLinkProberPckLossCount(@)] ELSE m

processResetSuspendTimer(m, names) ==
  [m EXCEPT !.ports = [p \in DOMAIN m.ports |->
     IF p \in names THEN handleResetSuspendTimer(m.ports[p]) ELSE m.ports[p]]]

-----------------------------------------------------------------------------
(* Notifications for every port there is                                    *)

\* Only the IPv4 route counts.
addOrUpdateDefaultRouteState(m, isV4, word) ==
  LET n == IF isV4 THEN [m EXCEPT !.v4 = word] ELSE [m EXCEPT !.v6 = word]
      state == IF n.v4 = "ok" THEN "ok" ELSE "na" IN
  [n EXCEPT !.ports = [p \in DOMAIN n.ports |->
     handleDefaultRouteState(n.ports[p], state, n.defaultRouteFeature)]]

handleTsaEnableNotification(m, enable) ==
  [m EXCEPT !.ports = [p \in DOMAIN m.ports |-> handleTsaEnable(m.ports[p], enable)]]

processSrcMac(m, useTorMac) ==
  IF m.useTorMac = useTorMac THEN m
  ELSE [m EXCEPT !.useTorMac = useTorMac,
                 !.ports = [p \in DOMAIN m.ports |-> handleSrcMacAddressUpdate(m.ports[p])]]

\* setTimeoutIpv4_msec and setTimeoutIpv6_msec, but for what the ports ask for.
setTimeout_msec(m, interval, isV4) ==
  IF isV4 THEN [m EXCEPT !.interval = interval] ELSE m

setUseWellKnownMacActiveActive(m, enable) ==
  [m EXCEPT !.useWellKnownMac = enable,
            !.ports = [p \in DOMAIN m.ports |-> handleUseWellKnownMacAddress(m.ports[p])]]

-----------------------------------------------------------------------------
(* The count of ports and the timer of a warm restart                       *)

updateWarmRestartReconciliationCount(m, increment) ==
  [m EXCEPT !.strand = Append(@, increment)]

\* 16 bits.
Counts == {count \in Nat : count < 65536}

\* At 0 the wait is called off.
handleUpdateReconciliationCount(m, increment) ==
  LET count == (m.count + increment) % 65536 IN
  [m EXCEPT !.count = count,
            !.timer = IF count = 0 /\ @ = "Waiting" THEN "Aborted" ELSE @]

\* Mutant: the timer is armed only if ports are counted already.
startWarmRestartReconciliationTimer_IfCounted(m) ==
  IF m.count > 0 THEN [m EXCEPT !.timer = "Waiting"] ELSE m

startWarmRestartReconciliationTimer(m) == [m EXCEPT !.timer = "Waiting"]
=============================================================================
