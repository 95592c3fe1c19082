----------------------------- MODULE MCLinkmgrd -----------------------------
EXTENDS Linkmgrd

MCCable  == [p \in Ports |-> IF p = "s1" THEN "active-standby" ELSE "active-active"]
MCProber == [p \in Ports |-> IF p = "a1" THEN "hardware" ELSE "software"]

\* The keys and what they may change to, one port for each kind of table.
MCChanges ==
  { <<"MUX_CABLE", "s1", {"auto"}>>,
    <<"PORT_TABLE", "s1", {"down"}>>,
    <<"MUX_CABLE_TABLE", "s1", {"active"}>>,
    <<"MUX_CABLE_RESPONSE", "s1", {"unknown"}>>,
    <<"MUX_CABLE_INFO", "s1", {"down"}>>,
    <<"MUX_CABLE", "a1", {"standby"}>>,
    <<"PORT_TABLE", "a1", {}>>,
    <<"MUX_CABLE_TABLE", "a1", {"standby"}>>,
    <<"FORWARDING_STATE_RESPONSE", "a1", {"failure"}>>,
    <<"FORWARDING_STATE_RESPONSE_PEER", "a1", {"active"}>>,
    <<"HW_MUX_CABLE_TABLE_PEER", "a1", {"error"}>>,
    <<"PCK_LOSS_DATA_RESET", "s1", {"reset"}>>,
    <<"ICMP_ECHO_SESSION_TABLE", "a1", {"Up"}>>,
    <<"NEIGH", "a1", {"mac"}>>,
    <<"ROUTE_TABLE", "0.0.0.0/0", {"ok"}>>,
    <<"ROUTE_TABLE", "::/0", {"ok"}>>,
    <<"BGP_DEVICE_GLOBAL", "tsa_enabled", {"true"}>>,
    <<"LINK_PROBER", "src_mac", {"ToRMac"}>>,
    <<"LINK_PROBER", "use_well_known_mac", {"disable"}>>,
    <<"LINK_PROBER", "interval_v4", {"50"}>>,
    <<"LINK_PROBER", "reset_suspend_timer", {"s1"}>> }

MCKeys == {<<c[1], c[2]>> : c \in MCChanges}

MCValues == [k \in MCKeys |-> UNION {c[3] : c \in {d \in MCChanges : <<d[1], d[2]>> = k}}]

\* One of each kind; a port takes one change to be initialized.
MCRequests ==
  { <<"SetMuxState", "s1", "Active">>,
    <<"GetMuxState", "s1", "">>,
    <<"Probe", "s1", "">>,
    <<"Probe", "a1", "">>,
    <<"SetPeerMuxState", "a1", "Standby">>,
    <<"SetMuxLinkmgrState", "a1", "Healthy">>,
    <<"PostMuxMetrics", "s1", "start">>,
    <<"PostSwitchCause", "s1", "cause">>,
    <<"PostLinkProberMetrics", "s1", "unknown">>,
    <<"PostPckLossRatio", "a1", "ratio">>,
    <<"CreateSession", "a1", "">>,
    <<"DeleteSession", "a1", "">> }

\* What the databases hold when the process starts.
MCFirst ==
  { [k \in MCKeys |->
      CASE k[1] = "MUX_CABLE" -> "manual"
        [] k[1] = "PORT_TABLE" -> "up"
        [] OTHER -> None],
    [k \in MCKeys |-> IF k = <<"ROUTE_TABLE", "0.0.0.0/0">> THEN "na" ELSE None] }

\* A port whose mode is replaced while it is being initialized.
MCModeKeys == {<<"MUX_CABLE", "a1">>, <<"PORT_TABLE", "a1">>, <<"MUX_CABLE_TABLE", "a1">>}

MCModeValues == [k \in MCModeKeys |-> IF k[1] = "MUX_CABLE" THEN {"standby"} ELSE {}]

MCModeFirst == {[k \in MCModeKeys |-> CASE k[1] = "MUX_CABLE"  -> "manual"
                                        [] k[1] = "PORT_TABLE" -> "up"
                                        [] OTHER               -> "active"]}

\* Cold with everything configured, or warm with nothing.
MCStarts == {[warm |-> b, vlanMac |-> ~b, loopback |-> ~b] : b \in BOOLEAN}

\* The 1024 servers there can be (KNOWN_MAC_COUNT) have different addresses.
ASSUME ServersAreTold ==
  Cardinality({generateServerMac(serverId) : serverId \in 0 .. 1023}) = 1024

MCMaxChanges == [warm \in BOOLEAN |-> IF warm THEN 1 ELSE 2]
=============================================================================
