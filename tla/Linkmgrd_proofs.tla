--------------------------- MODULE Linkmgrd_proofs ---------------------------
(***************************************************************************)
(* What the process promises of its ports and of the databases, proved for *)
(* every set of ports, keys, words and requests.                           *)
(*                                                                         *)
(* The strands are queues of any length, so the invariants speak of the    *)
(* last handler of its kind that waits: LastIs says what a port will have  *)
(* been told when its strand is empty.  A method of the manager posts to   *)
(* ports or creates them, a worker takes the first handler off; both keep  *)
(* LastIs but for the handler that is posted.  What the strand of the      *)
(* databases will have written is a sequence of contents, one for each     *)
(* handler that waits (Replay), so that no induction over its length is    *)
(* needed: a handler that is posted adds one at the end, a handler that    *)
(* runs takes the first away.                                              *)
(***************************************************************************)
EXTENDS Linkmgrd, SequenceTheorems, FiniteSetTheorems, TLAPS

Names == Ports \cup Strangers

-----------------------------------------------------------------------------
(* Types *)

\* The strings; the provers do not know of a literal that it is one.
Text ==
  STRING \cup
  {None, "", "Active", "Standby", "Error", "Unknown", "Up", "Down", "Manual", "Detached",
   "Auto", "NA", "OK", "set", "failure", "probe", "auto", "known", "tor", "vlan",
   "Loopback2", "default", "100", "na", "ok"}

Entries == [handler : Handlers, arg : Text]

Port ==
  [cable : CableTypes, proberType : ProberTypes \cup {"uninitialized"},
   blade : Text, fitted : ProberTypes \cup {"uninitialized", None},
   frame : [source : Text, dest : Text, address : Text],
   init : SUBSET Components, mode : Text,
   registered : SUBSET Text, rerun : SUBSET Text,
   told : [Handlers -> Text], strand : Seq(Entries)]

\* The maps from names to S, which the manager extends as it learns of names.
MapsTo(S) == UNION {[D -> S] : D \in SUBSET Names}

Manager ==
  [ports : MapsTo(Port), cables : MapsTo(CableTypes), v4 : Text, v6 : Text,
   defaultRouteFeature : BOOLEAN, useTorMac : BOOLEAN, useWellKnownMac : BOOLEAN,
   torMac : Text, vlanMac : Text, loopback : Text, interval : Text,
   start : Starts, strand : Seq(Int), count : Counts,
   timer : {"Off", "Waiting", "Expired", "Aborted"}]

\* What is posted to the strand of the databases.
DbHandlers ==
  [op : States \cup Probes \cup Figures
        \cup {"GetMuxState", "CreateSession", "DeleteSession", "SetMuxMode"},
   port : Ports, label : Text]
  \cup [op : {"UpdateInterval"}, port : {None}, label : Text]

Contents == [Writes -> Text]

Typed ==
  /\ main \in {"StartThread", "StartTimer", "EnableFeatures", "run", "exit"}
  /\ swss \in {"none", "getTorMacAddress", "getVlanNames", "getLoopbackInterfacesInfo",
               "getPortCableType", "getProberType", "getServerIpAddress",
               "getSoCIpAddress", "select", "barrier1", "barrier2", "terminate", "ended"}
  /\ stopper \in {"none", "barrier1", "stop", "barrier2", "done"}
  /\ mgr \in Manager
  /\ tables \in [Keys -> Text]
  /\ fresh \subseteq Keys

-----------------------------------------------------------------------------
(* The assumptions of the theorems *)

srcMac == <<"LINK_PROBER", "src_mac">>
wellKnown == <<"LINK_PROBER", "use_well_known_mac">>
route4 == <<"ROUTE_TABLE", "0.0.0.0/0">>
tsa == <<"BGP_DEVICE_GLOBAL", "tsa_enabled">>

\* The words a key may hold.  Modes are written by the process itself as well.
Words(k) == Values[k] \cup {t[k] : t \in FirstTables}

\* Where the VLAN has no address, nobody configures it as that of the heartbeats.
SourceKnown ==
  \/ \A start \in Starts : start.vlanMac
  \/ srcMac \in Keys => Words(srcMac) \subseteq {None, "ToRMac"}

-----------------------------------------------------------------------------
(* A port *)

On(port, handler) ==
  \E i \in 1 .. Len(port.strand) : port.strand[i].handler = handler

\* When the strand has run, label is the last that handler was told.
LastIs(port, handler, label) ==
  /\ ~On(port, handler) => port.told[handler] = label
  /\ \A i \in 1 .. Len(port.strand) :
       /\ port.strand[i].handler = handler
       /\ \A j \in i + 1 .. Len(port.strand) : port.strand[j].handler # handler
       => port.strand[i].arg = label

\* The port and its prober are what the configuration says.  A stranger has no
\* prober.
Built(p, port) ==
  /\ p \in Ports =>
       /\ port.cable = Cable[p]
       /\ Cable[p] = "active-active" =>
            port.proberType = Prober[p] /\ port.fitted \in {None, Prober[p]}
       /\ Cable[p] = "active-standby" => port.fitted \in {None, "software"}
  /\ p \notin Ports =>
       /\ "LinkProber" \notin port.init /\ port.fitted = None
       /\ ~On(port, "BladeIpv4Address") /\ ~On(port, "SoCIpv4Address")

\* Heartbeats have the addresses of config, or the handler that will change them is
\* on the strand; the server's address is always that of the port.
FrameOK(port, config) ==
  SourceKnown /\ port.frame # NoFrame =>
    /\ "LinkProber" \in port.init
    /\ port.frame.address = config.loopback
    /\ port.frame.source # None
    /\ port.frame.dest = port.blade
    /\ port.frame.source = config.source \/ On(port, "SrcMacAddress")

\* The server's address is the one that was told, or the well known one, or the
\* handler that will change that is on the strand.
BladeOK(port, config) ==
  LET known == port.cable = "active-active" /\ config.useWellKnownMac
      blade == IF known THEN "known" ELSE port.told["GetServerMacAddress"]
  IN  \/ port.blade = blade
      \/ port.cable = "active-active" /\ On(port, "UseWellKnownMacAddress")

\* Only an active-active port holds modes back until it is activated.
ModesOK(port) == port.cable = "active-standby" => port.registered \cup port.rerun = {}

PortOK(p, port, config) ==
  Built(p, port) /\ FrameOK(port, config) /\ BladeOK(port, config) /\ ModesOK(port)

-----------------------------------------------------------------------------
(* The process *)

Beginning == {"none", "getTorMacAddress", "getVlanNames", "getLoopbackInterfacesInfo",
              "getPortCableType"}

(***************************************************************************)
(* What each phase of the start has stored.  Before the cable types are    *)
(* read there is no port, afterwards every port of the configuration has   *)
(* its type, and it exists once the types of the probers are read.         *)
(***************************************************************************)
Phases ==
  /\ swss \in Beginning => DOMAIN mgr.cables = {}
  /\ swss \in Beginning \cup {"getProberType"} => DOMAIN mgr.ports = {}
  /\ swss \notin Beginning => \A p \in Ports : p \in DOMAIN mgr.cables /\ mgr.cables[p] = Cable[p]
  /\ swss \notin Beginning \cup {"getProberType"} => Ports \subseteq DOMAIN mgr.ports
  /\ DOMAIN mgr.ports \subseteq DOMAIN mgr.cables
  /\ IsFiniteSet(DOMAIN mgr.ports)
  /\ swss \notin {"none", "getTorMacAddress"} => mgr.torMac = "tor"
  /\ swss \notin {"none", "getTorMacAddress", "getVlanNames"} =>
       IF mgr.start.vlanMac THEN mgr.vlanMac = "vlan" ELSE SourceKnown => mgr.useTorMac
  /\ swss \in {"none", "getTorMacAddress", "getVlanNames", "getLoopbackInterfacesInfo"} =>
       mgr.loopback = "default"
  /\ swss \notin {"none", "getTorMacAddress", "getVlanNames", "getLoopbackInterfacesInfo"} =>
       mgr.loopback = (IF mgr.start.loopback THEN "Loopback2" ELSE "default")
  /\ mgr.defaultRouteFeature = (main \in {"run", "exit"} /\ DefaultRouteFeature)
  /\ main \notin {"run", "exit"} => changed = {}
  /\ main = "StartThread" => swss = "none"

\* The members that come from a key are what the table holds, unless its notification
\* is still to be taken up.
Stored ==
  /\ \A k \in fresh : tables[k] # None
  /\ \A k \in Keys : k[1] # "MUX_CABLE" => tables[k] \in Words(k)
  /\ srcMac \notin fresh /\ mgr.start.vlanMac =>
       (mgr.useTorMac <=> Holds(srcMac) = "ToRMac")
  /\ wellKnown \notin fresh =>
       (mgr.useWellKnownMac <=> Holds(wellKnown) \in {None, "enable"})
  /\ swss \in Beginning \cup {"getProberType"} => mgr.useWellKnownMac
  /\ route4 \in Keys \ fresh => tables[route4] \in {None, mgr.v4}

PortsExist == swss \notin Beginning \cup {"getProberType"}
Ready == swss \notin Beginning \cup {"getProberType", "getServerIpAddress", "getSoCIpAddress"}

\* A key that is held and was taken up.
Taken(k) == k \in Keys \ fresh /\ tables[k] # None

Route(word, feature) == RouteLabel(IF word = "ok" THEN "ok" ELSE "na", feature)

\* What a port is told of the IPv4 route: while it has not changed, perhaps what it was
\* before the options were stored.
IsRoute(label) ==
  \/ label = Route(tables[route4], DefaultRouteFeature)
  \/ route4 \notin changed /\ label = Route(tables[route4], FALSE)

\* What a port was told last, or will have been.
ToldOK(p, port) ==
  LET link == <<"PORT_TABLE", p>>
      mux == <<"MUX_CABLE_TABLE", p>>
      info == <<"MUX_CABLE_INFO", p>>
      table == <<"HW_MUX_CABLE_TABLE_PEER", p>>
      probe == <<"FORWARDING_STATE_RESPONSE_PEER", p>>
      neigh == <<"NEIGH", p>>
      config == <<"MUX_CABLE", p>>
  IN
  /\ Taken(link) => LastIs(port, "LinkState", LinkLabel(tables[link]))
  /\ Taken(mux)  => LastIs(port, "MuxState", MuxLabel(tables[mux]))
  /\ Taken(info) => LastIs(port, "PeerLinkState", PeerLinkLabel(tables[info]))
  /\ Taken(route4) =>
       \E label : IsRoute(label) /\ LastIs(port, "DefaultRouteState", label)
  /\ table \notin fresh /\ probe \notin fresh /\ (Taken(table) \/ Taken(probe)) =>
       \/ Taken(table) /\ LastIs(port, "PeerMuxState", MuxLabel(tables[table]))
       \/ Taken(probe) /\ LastIs(port, "PeerMuxState", MuxLabel(tables[probe]))
  /\ neigh \notin fresh => LastIs(port, "GetServerMacAddress", Holds(neigh))
  /\ port.cable = "active-standby" =>
       (Taken(config) /\ tsa \notin fresh /\ Understood(port, tables[config]) =>
          \/ LastIs(port, "MuxConfig", ModeLabel(tables[config]))
          \/ Taken(tsa) /\ LastIs(port, "MuxConfig", TsaLabel(tables[tsa] = "true")))

\* No notification was taken up before all ports exist.
NothingTaken == ~Ready => \A k \in Keys \ fresh : tables[k] = None

-----------------------------------------------------------------------------
(* The databases *)

\* What a handler of the strand makes of the entries e.
Applied(e, r) ==
  IF r.op = "UpdateInterval" THEN InAllSessions(e, r.label)
  ELSE IF r.op \in {"GetMuxState", "SetMuxMode"} \/ ~Accepted(r.op, r.label) THEN e
  ELSE [e EXCEPT ![<<Entry(r.op), r.port>>] = r.label]

\* Contents of the databases, from what is written to what was asked, that the
\* handlers on the strand lead through.
Replay(f, strand, written, asked) ==
  /\ f \in [0 .. Len(strand) -> Contents]
  /\ f[0] = written
  /\ f[Len(strand)] = asked
  /\ \A i \in 1 .. Len(strand) : f[i] = Applied(f[i - 1], strand[i])

Written ==
  /\ dbStrand \in Seq(DbHandlers)
  /\ out \in [asked : Contents, written : Contents, reads : SUBSET (Ports \X Text),
              count : Int]
  /\ out.reads # {} => PortsExist
  /\ \E f \in [0 .. Len(dbStrand) -> Contents] :
       Replay(f, dbStrand, out.written, out.asked)
  /\ \A i \in 1 .. Len(dbStrand) :
       /\ dbStrand[i].op \in Probes => dbStrand[i].label = "probe"
       /\ dbStrand[i].op = "SetMuxMode" => dbStrand[i].label = "auto"
  /\ \A p \in Names : out.asked[<<"IcmpEchoSession", p>>] # None => p \in Ports /\ PortsExist

PortsInv ==
  /\ Typed
  /\ Phases
  /\ Stored
  /\ NothingTaken
  /\ \A p \in DOMAIN mgr.ports : PortOK(p, mgr.ports[p], Config(mgr))
  /\ \A p \in Ports \cap DOMAIN mgr.ports : ToldOK(p, mgr.ports[p])

IInv == PortsInv /\ Written

-----------------------------------------------------------------------------
(* Words and labels *)

\* What the words of the databases are turned into is text.
LEMMA LabelsAreText ==
  ASSUME NEW word \in Text, NEW feature \in BOOLEAN, NEW enable \in BOOLEAN
  PROVE  /\ MuxLabel(word) \in Text /\ LinkLabel(word) \in Text
         /\ PeerLinkLabel(word) \in Text /\ ModeLabel(word) \in Text
         /\ TsaLabel(enable) \in Text /\ RouteLabel(word, feature) \in Text
         /\ None \in Text /\ "" \in Text
BY DEF MuxLabel, LinkLabel, PeerLinkLabel, ModeLabel, TsaLabel, RouteLabel, Text

-----------------------------------------------------------------------------
(* What a method and a handler do to one port *)

\* The handler posted is the last of its kind, and the others are as they were.
LEMMA PostFacts ==
  ASSUME NEW port \in Port, NEW h \in Handlers, NEW arg \in Text
  PROVE  LET t == Post(port, h, arg)
         IN  /\ t \in Port
             /\ t = [port EXCEPT !.strand = t.strand]
             /\ On(t, h)
             /\ \A g : On(port, g) => On(t, g)
             /\ \A g : g # h => (On(t, g) => On(port, g))
             /\ LastIs(t, h, arg)
             /\ \A g, v : g # h /\ LastIs(port, g, v) => LastIs(t, g, v)
<1> DEFINE t == Post(port, h, arg)
           e == [handler |-> h, arg |-> arg]
           n == Len(port.strand)
<1>1. e \in Entries
  BY DEF Entries
<1>2. port.strand \in Seq(Entries) /\ n \in Nat
  BY LenProperties DEF Port
<1>3. /\ Append(port.strand, e) \in Seq(Entries)
      /\ Len(Append(port.strand, e)) = n + 1
      /\ \A i \in 1 .. n : Append(port.strand, e)[i] = port.strand[i]
      /\ Append(port.strand, e)[n + 1] = e
  BY <1>1, <1>2, AppendProperties
<1>4. /\ t \in Port
      /\ t.strand = Append(port.strand, e)
      /\ t = [port EXCEPT !.strand = t.strand]
      /\ t.told = port.told
  BY <1>3 DEF Post, Port
<1>5. /\ Len(t.strand) = n + 1
      /\ \A i \in 1 .. n : t.strand[i] = port.strand[i]
      /\ t.strand[n + 1].handler = h
      /\ t.strand[n + 1].arg = arg
  BY <1>3, <1>4
<1> HIDE DEF t, e
<1>6. On(t, h)
  BY <1>2, <1>5 DEF On
<1>7. \A g : On(port, g) => On(t, g)
  BY <1>2, <1>5 DEF On, n
<1>8. \A g : g # h => (On(t, g) => On(port, g))
  BY <1>2, <1>5 DEF On, n
<1>9. LastIs(t, h, arg)
  <2>1. ASSUME NEW i \in 1 .. Len(t.strand), i # n + 1
        PROVE  n + 1 \in i + 1 .. Len(t.strand)
    BY <2>1, <1>2, <1>5
  <2> QED BY <1>5, <1>6, <2>1 DEF LastIs
<1>10. ASSUME NEW g, NEW v, g # h, LastIs(port, g, v) PROVE LastIs(t, g, v)
  <2>1. ~On(t, g) => t.told[g] = v
    BY <1>10, <1>4, <1>7 DEF LastIs
  <2>2. ASSUME NEW i \in 1 .. Len(t.strand), t.strand[i].handler = g,
               \A j \in i + 1 .. Len(t.strand) : t.strand[j].handler # g
        PROVE  t.strand[i].arg = v
    <3>1. i \in 1 .. n
      BY <2>2, <1>10, <1>5, <1>2
    <3>2. \A j \in i + 1 .. n : port.strand[j].handler # g
      BY <3>1, <2>2, <1>5, <1>2
    <3> QED BY <3>1, <3>2, <2>2, <1>5, <1>10, <1>2 DEF LastIs, n
  <2> QED BY <2>1, <2>2 DEF LastIs
<1> QED BY <1>4, <1>6, <1>7, <1>8, <1>9, <1>10 DEF t

\* A port that is created satisfies the invariants.
LEMMA NewPortOK ==
  ASSUME NEW type \in CableTypes, NEW config, config.useWellKnownMac \in BOOLEAN
  PROVE  LET t == NewPort(type, config.useWellKnownMac)
         IN  /\ t \in Port
             /\ t.cable = type /\ t.init = {}
             /\ t.strand = <<>> /\ t.proberType = "uninitialized" /\ t.fitted = None
             /\ \A g : ~On(t, g)
             /\ \A g \in Handlers : LastIs(t, g, None)
             /\ FrameOK(t, config) /\ BladeOK(t, config) /\ ModesOK(t)
<1> DEFINE t == NewPort(type, config.useWellKnownMac)
<1>1. t \in Port /\ t.strand = <<>> /\ t.told = [h \in Handlers |-> None]
  BY DEF NewPort, Port, NoFrame, Components, CableTypes, Text
<1>2. Len(t.strand) = 0
  BY <1>1
<1> USE <1>1, <1>2
<1>3. \A g : ~On(t, g)
  BY DEF On
<1>4. \A g \in Handlers : LastIs(t, g, None)
  BY DEF LastIs
<1>5. t.cable = type /\ t.init = {} /\ t.proberType = "uninitialized" /\ t.fitted = None
  BY DEF NewPort
<1>6. FrameOK(t, config)
  BY DEF NewPort, FrameOK
<1>7. BladeOK(t, config)
  BY DEF NewPort, BladeOK, Handlers, CableTypes
<1>8. ModesOK(t)
  BY DEF NewPort, ModesOK
<1> QED BY <1>1, <1>3, <1>4, <1>5, <1>6, <1>7, <1>8

\* A handler that is posted leaves the port in order.  The addresses are posted
\* only to ports of the configuration.
LEMMA PostOK ==
  ASSUME NEW p, NEW port \in Port, NEW config, NEW h \in Handlers, NEW arg \in Text,
         PortOK(p, port, config),
         h \in {"BladeIpv4Address", "SoCIpv4Address"} => p \in Ports
  PROVE  PortOK(p, Post(port, h, arg), config)
<1> DEFINE t == Post(port, h, arg)
<1>1. /\ t = [port EXCEPT !.strand = t.strand]
      /\ \A g : On(port, g) => On(t, g)
      /\ \A g : g # h => (On(t, g) => On(port, g))
  BY PostFacts
<1>3. /\ t.cable = port.cable /\ t.proberType = port.proberType /\ t.blade = port.blade
      /\ t.fitted = port.fitted /\ t.frame = port.frame /\ t.init = port.init
      /\ t.registered = port.registered /\ t.rerun = port.rerun /\ t.told = port.told
  BY DEF Post, Port
<1> HIDE DEF t
<1>4. Built(p, t)
  BY <1>1, <1>3 DEF PortOK, Built
<1>5. FrameOK(t, config)
  BY <1>1, <1>3 DEF PortOK, FrameOK
<1>6. BladeOK(t, config)
  BY <1>1, <1>3 DEF PortOK, BladeOK
<1>7. ModesOK(t)
  BY <1>3 DEF PortOK, ModesOK
<1> QED BY <1>4, <1>5, <1>6, <1>7 DEF PortOK, t

\* The first handler off the strand.
Taking(port) == [port EXCEPT !.strand = Tail(@)]

\* The first handler is taken off: it alone leaves the strand, what is last of any
\* kind stays so.
LEMMA TakingFacts ==
  ASSUME NEW port \in Port, port.strand # <<>>
  PROVE  LET t == Taking(port)
             h == Head(port.strand).handler
         IN  /\ t \in Port
             /\ t = [port EXCEPT !.strand = t.strand]
             /\ h \in Handlers /\ Head(port.strand).arg \in Text
             /\ On(port, h)
             /\ \A g : On(t, g) => On(port, g)
             /\ \A g : g # h => (On(port, g) => On(t, g))
<1> DEFINE t == Taking(port)
           n == Len(port.strand)
           h == Head(port.strand).handler
<1>1. port.strand \in Seq(Entries)
  BY DEF Port
<1>2. n \in Nat \ {0}
  BY <1>1, EmptySeq, LenProperties
<1>3. /\ Head(port.strand) = port.strand[1] /\ port.strand[1] \in Entries
      /\ Tail(port.strand) \in Seq(Entries)
      /\ Len(Tail(port.strand)) = n - 1
      /\ \A i \in 1 .. n - 1 : Tail(port.strand)[i] = port.strand[i + 1]
  BY <1>1, <1>2, HeadTailProperties, ElementOfSeq
<1>4. t \in Port /\ t = [port EXCEPT !.strand = t.strand] /\ t.strand = Tail(port.strand)
  BY <1>3 DEF Taking, Port
<1>5. h \in Handlers /\ Head(port.strand).arg \in Text
  BY <1>3 DEF Entries
<1>6. /\ n \in Nat /\ n > 0 /\ Len(t.strand) = n - 1
      /\ \A i \in 1 .. Len(t.strand) : i + 1 \in 1 .. n /\ t.strand[i] = port.strand[i + 1]
      /\ h = port.strand[1].handler
  BY <1>2, <1>3, <1>4
<1> HIDE DEF t, h
<1>7. On(port, h)
  BY <1>6 DEF On
<1>8. \A g : On(t, g) => On(port, g)
  BY <1>6 DEF On
<1>9. ASSUME NEW g, g # h, On(port, g) PROVE On(t, g)
  <2>1. PICK i \in 1 .. n : port.strand[i].handler = g
    BY <1>9 DEF On
  <2>2. i # 1
    BY <2>1, <1>6, <1>9
  <2>3. i - 1 \in 1 .. Len(t.strand) /\ t.strand[i - 1] = port.strand[i]
    BY <2>1, <2>2, <1>6
  <2> QED BY <2>1, <2>3 DEF On
<1> QED BY <1>4, <1>5, <1>6, <1>7, <1>8, <1>9 DEF t, h

\* When the first handler has run, the last of each kind still is.
LEMMA LastIsTaken ==
  ASSUME NEW port \in Port, port.strand # <<>>, NEW t,
         t.strand = Taking(port).strand,
         t.told = [port.told EXCEPT ![Head(port.strand).handler] = Head(port.strand).arg],
         NEW g \in Handlers, NEW v, LastIs(port, g, v)
  PROVE  LastIs(t, g, v)
<1> DEFINE s == Taking(port)
           n == Len(port.strand)
<1>1. /\ port.strand \in Seq(Entries) /\ n \in Nat \ {0}
      /\ Head(port.strand) = port.strand[1] /\ port.strand[1] \in Entries
      /\ s.strand = Tail(port.strand)
  BY EmptySeq, LenProperties, HeadTailProperties, ElementOfSeq DEF Port, Taking
<1>2. /\ Len(s.strand) = n - 1
      /\ \A i \in 1 .. n - 1 : s.strand[i] = port.strand[i + 1]
  BY <1>1, HeadTailProperties
<1>3. port.told \in [Handlers -> Text]
  BY DEF Port
<1> HIDE DEF s
<1>4. ASSUME ~On(t, g) PROVE t.told[g] = v
  <2>1. \A i \in 2 .. n : port.strand[i].handler # g
    <3> SUFFICES ASSUME NEW i \in 2 .. n PROVE port.strand[i].handler # g
      OBVIOUS
    <3>1. i - 1 \in 1 .. n - 1 /\ s.strand[i - 1] = port.strand[i]
      BY <1>1, <1>2
    <3> QED BY <3>1, <1>4, <1>2 DEF On, s
  <2>2. CASE port.strand[1].handler = g
    <3>1. port.strand[1].arg = v
      BY <2>1, <2>2, <1>1 DEF LastIs
    <3> QED BY <3>1, <2>2, <1>1, <1>3
  <2>3. CASE port.strand[1].handler # g
    <3>1. ~On(port, g)
      BY <2>1, <2>3, <1>1 DEF On
    <3> QED BY <3>1, <2>3, <1>1, <1>3 DEF LastIs
  <2> QED BY <2>2, <2>3
<1>5. ASSUME NEW i \in 1 .. Len(t.strand), t.strand[i].handler = g,
             \A j \in i + 1 .. Len(t.strand) : t.strand[j].handler # g
      PROVE  t.strand[i].arg = v
  <2>1. /\ Len(t.strand) = n - 1 /\ i + 1 \in 1 .. n
        /\ t.strand[i] = port.strand[i + 1]
    BY <1>1, <1>2 DEF s
  <2>2. ASSUME NEW j \in i + 2 .. n PROVE port.strand[j].handler # g
    <3>1. j - 1 \in i + 1 .. Len(t.strand) /\ t.strand[j - 1] = port.strand[j]
      BY <2>1, <1>1, <1>2 DEF s
    <3> QED BY <3>1, <1>5
  <2> QED BY <2>1, <2>2, <1>5 DEF LastIs
<1> QED BY <1>4, <1>5 DEF LastIs

\* What the configuration a handler reads is.
IsConfig(config) ==
  config \in [source : Text, loopback : Text, useWellKnownMac : BOOLEAN]

Activated(port, brings) == brings # {} /\ port.init \cup brings = Components

\* The members of the port t that handler h leaves of s, member by member.
Leaves(s, h, arg, config, t) ==
  LET brings == Brings(s, h, arg)
      blade == BladeMac(s, h, arg, config)
      activated == Activated(s, brings)
  IN  /\ t.cable = s.cable /\ t.proberType = s.proberType /\ t.strand = s.strand
      /\ t.told = [s.told EXCEPT ![h] = arg]
      /\ t.init = s.init \cup brings
      /\ t.blade = blade
      /\ t.fitted = IF "LinkProber" \in brings THEN Fitted(s) ELSE s.fitted
      /\ t.frame = IF Framed(s, h, blade, activated)
                   THEN [source |-> config.source, dest |-> blade,
                         address |-> config.loopback]
                   ELSE s.frame
      /\ h # "MuxConfig" =>
           IF activated /\ s.cable = "active-active"
           THEN t.rerun = s.registered /\ t.registered = {}
           ELSE t.rerun = s.rerun /\ t.registered = s.registered
      /\ h = "MuxConfig" =>
           /\ t.rerun = s.rerun
           /\ t.registered = IF s.cable = "active-active" /\ ~Initialized(s)
                             THEN s.registered \cup {arg} ELSE s.registered

\* What a handler leaves of its port, whichever it is.
LEMMA HandledFacts ==
  ASSUME NEW s \in Port, NEW h \in Handlers, NEW arg \in Text,
         NEW config, IsConfig(config), NEW t \in Handled(s, h, arg, config)
  PROVE  t \in Port /\ Leaves(s, h, arg, config, t)
<1> DEFINE brings == Brings(s, h, arg)
           blade == BladeMac(s, h, arg, config)
           told == [s EXCEPT !.told[h] = arg, !.init = @ \cup brings, !.blade = blade,
                             !.fitted = IF "LinkProber" \in brings THEN Fitted(s) ELSE @]
           activated == brings # {} /\ Initialized(told)
           framed == IF Framed(s, h, blade, activated)
                     THEN [told EXCEPT !.frame = FrameOf(told, config)] ELSE told
           next == IF activated /\ s.cable = "active-active" THEN Notified(framed) ELSE framed
<1>1. t \in IF h = "MuxConfig" THEN Modes(next, arg) ELSE {next}
  BY Zenon DEF Handled
<1>2. brings \in SUBSET Components
  BY DEF Brings, Components
<1>3. blade \in Text
  <2>1. s.blade \in Text /\ s.told["GetServerMacAddress"] \in Text /\ "known" \in Text
    BY DEF Port, Handlers, Text
  <2> QED BY <2>1 DEF BladeMac
<1>4. Fitted(s) \in ProberTypes \cup {"uninitialized", None}
  BY DEF Fitted, Port, ProberTypes
<1>5. h = "MuxConfig" => brings = {}
  BY DEF Brings
<1> HIDE DEF Leaves, brings, blade
<1>6. /\ told \in Port
      /\ told.cable = s.cable /\ told.proberType = s.proberType /\ told.strand = s.strand
      /\ told.told = [s.told EXCEPT ![h] = arg]
      /\ told.init = s.init \cup brings
      /\ told.blade = blade
      /\ told.fitted = IF "LinkProber" \in brings THEN Fitted(s) ELSE s.fitted
      /\ told.frame = s.frame /\ told.rerun = s.rerun /\ told.registered = s.registered
  BY <1>2, <1>3, <1>4 DEF Port
<1>7. activated = Activated(s, brings)
  BY <1>6 DEF Activated, Initialized
<1> HIDE DEF told, activated
<1>8. /\ framed \in Port
      /\ framed.cable = s.cable /\ framed.proberType = s.proberType
      /\ framed.strand = s.strand
      /\ framed.told = [s.told EXCEPT ![h] = arg]
      /\ framed.init = s.init \cup brings
      /\ framed.blade = blade
      /\ framed.fitted = IF "LinkProber" \in brings THEN Fitted(s) ELSE s.fitted
      /\ framed.frame = IF Framed(s, h, blade, activated)
                        THEN [source |-> config.source, dest |-> blade,
                              address |-> config.loopback]
                        ELSE s.frame
      /\ framed.rerun = s.rerun /\ framed.registered = s.registered
  <2>1. FrameOf(told, config) = [source |-> config.source, dest |-> blade,
                                 address |-> config.loopback]
    BY <1>6 DEF FrameOf
  <2>2. FrameOf(told, config) \in [source : Text, dest : Text, address : Text]
    BY <2>1, <1>3 DEF IsConfig
  <2> QED BY <1>6, <2>1, <2>2 DEF Port
<1> HIDE DEF framed
<1>9. /\ next \in Port
      /\ next.cable = s.cable /\ next.proberType = s.proberType
      /\ next.strand = s.strand
      /\ next.told = framed.told /\ next.init = framed.init /\ next.blade = framed.blade
      /\ next.fitted = framed.fitted /\ next.frame = framed.frame
      /\ IF activated /\ s.cable = "active-active"
         THEN next.rerun = s.registered /\ next.registered = {}
         ELSE next.rerun = s.rerun /\ next.registered = s.registered
  BY <1>8 DEF Notified, Port
<1> HIDE DEF next
<1>10. CASE h # "MuxConfig"
  BY <1>1, <1>7, <1>8, <1>9, <1>10 DEF Leaves, brings, blade
<1>11. CASE h = "MuxConfig"
  <2>1. /\ brings = {} /\ ~activated
        /\ next.init = s.init /\ (Initialized(next) <=> Initialized(s))
        /\ next.rerun = s.rerun /\ next.registered = s.registered
    BY <1>5, <1>7, <1>8, <1>9, <1>11 DEF Activated, Initialized
  <2>2. t \in Modes(next, arg)
    BY <1>1, <1>11
  <2>3. CASE s.cable = "active-active"
    <3>1. t = [next EXCEPT !.mode = arg,
                           !.registered = IF Initialized(next) THEN @ ELSE @ \cup {arg}]
      BY <2>2, <2>3, <1>9 DEF Modes
    <3>2. /\ t \in Port
          /\ t.cable = next.cable /\ t.proberType = next.proberType
          /\ t.strand = next.strand /\ t.told = next.told /\ t.init = next.init
          /\ t.blade = next.blade /\ t.fitted = next.fitted /\ t.frame = next.frame
          /\ t.rerun = next.rerun
          /\ t.registered = IF ~Initialized(s) THEN s.registered \cup {arg}
                            ELSE s.registered
      BY <3>1, <2>1, <1>9 DEF Port
    <3> QED BY <3>2, <2>1, <2>3, <1>7, <1>8, <1>9, <1>11 DEF Leaves, brings, blade
  <2>4. CASE s.cable # "active-active"
    <3>1. t = [next EXCEPT !.mode = arg] \/ t = next
      BY <2>2, <2>4, <1>9 DEF Modes
    <3>2. /\ t \in Port
          /\ t.cable = next.cable /\ t.proberType = next.proberType
          /\ t.strand = next.strand /\ t.told = next.told /\ t.init = next.init
          /\ t.blade = next.blade /\ t.fitted = next.fitted /\ t.frame = next.frame
          /\ t.rerun = next.rerun /\ t.registered = next.registered
      BY <3>1, <1>9 DEF Port
    <3> QED BY <3>2, <2>1, <2>4, <1>7, <1>8, <1>9, <1>11 DEF Leaves, brings, blade
  <2> QED BY <2>3, <2>4
<1> QED BY <1>10, <1>11

\* A worker that runs the next handler leaves the port in order, and leaves the last
\* of each kind.
LEMMA HandledOK ==
  ASSUME NEW p, NEW port \in Port, port.strand # <<>>,
         NEW config, IsConfig(config), SourceKnown => config.source # None,
         PortOK(p, port, config),
         NEW t \in Handled(Taking(port), Head(port.strand).handler,
                           Head(port.strand).arg, config)
  PROVE  /\ t \in Port /\ t.cable = port.cable
         /\ PortOK(p, t, config)
         /\ \A g \in Handlers : \A v : LastIs(port, g, v) => LastIs(t, g, v)
<1> DEFINE s == Taking(port)
           h == Head(port.strand).handler
           arg == Head(port.strand).arg
           brings == Brings(s, h, arg)
           blade == BladeMac(s, h, arg, config)
           activated == Activated(s, brings)
<1>1. /\ s \in Port /\ h \in Handlers /\ arg \in Text
      /\ s = [port EXCEPT !.strand = s.strand]
      /\ On(port, h)
      /\ \A g : On(s, g) => On(port, g)
      /\ \A g : g # h => (On(port, g) => On(s, g))
  BY TakingFacts
<1>2. /\ s.cable = port.cable /\ s.proberType = port.proberType /\ s.blade = port.blade
      /\ s.fitted = port.fitted /\ s.frame = port.frame /\ s.init = port.init
      /\ s.registered = port.registered /\ s.rerun = port.rerun /\ s.told = port.told
  BY <1>1 DEF Port
<1>3. /\ t \in Port
      /\ t.cable = s.cable /\ t.proberType = s.proberType /\ t.strand = s.strand
      /\ t.told = [s.told EXCEPT ![h] = arg]
      /\ t.init = s.init \cup brings
      /\ t.blade = blade
      /\ t.fitted = IF "LinkProber" \in brings THEN Fitted(s) ELSE s.fitted
      /\ t.frame = IF Framed(s, h, blade, activated)
                   THEN [source |-> config.source, dest |-> blade,
                         address |-> config.loopback]
                   ELSE s.frame
      /\ h # "MuxConfig" =>
           IF activated /\ s.cable = "active-active"
           THEN t.rerun = s.registered /\ t.registered = {}
           ELSE t.rerun = s.rerun /\ t.registered = s.registered
      /\ h = "MuxConfig" =>
           /\ t.rerun = s.rerun
           /\ t.registered = IF s.cable = "active-active" /\ ~Initialized(s)
                             THEN s.registered \cup {arg} ELSE s.registered
  <2>1. t \in Port /\ Leaves(s, h, arg, config, t)
    BY <1>1, HandledFacts
  <2> HIDE DEF s, h, arg
  <2> QED BY <2>1 DEF Leaves
<1>4. \A g \in Handlers : \A v : LastIs(port, g, v) => LastIs(t, g, v)
  BY <1>2, <1>3, LastIsTaken
<1>5. \A g : On(t, g) <=> On(s, g)
  BY <1>3 DEF On
<1>6. s.told \in [Handlers -> Text] /\ s.init \in SUBSET Components
  BY <1>1 DEF Port
<1>7. /\ "LinkProber" \in brings => h \in {"BladeIpv4Address", "SoCIpv4Address"}
      /\ brings \in SUBSET Components
  BY DEF Brings, Components
<1> HIDE DEF s, h, arg, brings, blade, activated
<1>9. Built(p, t)
  <2>1. ASSUME p \in Ports, Cable[p] = "active-active"
        PROVE  t.fitted \in {None, Prober[p]}
    BY <2>1, <1>2, <1>3 DEF PortOK, Built, Fitted
  <2>2. ASSUME p \in Ports, Cable[p] = "active-standby"
        PROVE  t.fitted \in {None, "software"}
    BY <2>2, <1>2, <1>3 DEF PortOK, Built, Fitted
  <2> QED BY <2>1, <2>2, <1>1, <1>2, <1>3, <1>5, <1>7 DEF PortOK, Built
<1>10. FrameOK(t, config)
  <2>1. CASE Framed(s, h, blade, activated)
    <3>1. "LinkProber" \in t.init
      BY <2>1, <1>3 DEF Framed, Activated, activated, Components
    <3> QED BY <3>1, <2>1, <1>3 DEF FrameOK
  <2>2. CASE ~Framed(s, h, blade, activated)
    <3> SUFFICES ASSUME SourceKnown, port.frame # NoFrame PROVE FrameOK(t, config)
      BY <2>2, <1>2, <1>3 DEF FrameOK
    <3>1. "LinkProber" \in s.init
      BY <1>2 DEF PortOK, FrameOK
    <3>2. h # "SrcMacAddress" /\ (h = "GetServerMacAddress" => blade = s.blade)
      BY <3>1, <2>2 DEF Framed
    <3>3. h = "UseWellKnownMacAddress" => s.cable # "active-active"
      BY <3>1, <2>2 DEF Framed
    <3>4. blade = s.blade
      BY <3>2, <3>3 DEF BladeMac, blade
    <3> QED BY <3>1, <3>2, <3>4, <2>2, <1>1, <1>2, <1>3, <1>5 DEF PortOK, FrameOK
  <2> QED BY <2>1, <2>2
<1>11. BladeOK(t, config)
  <2> DEFINE g == "GetServerMacAddress"
  <2>1. g \in Handlers /\ "UseWellKnownMacAddress" \in Handlers
    BY DEF Handlers
  <2>2. h # g => t.told[g] = s.told[g]
    BY <1>3, <1>6, <2>1
  <2>3. h = g => t.told[g] = arg
    BY <1>3, <1>6, <2>1
  <2>4. s.cable \in {"active-standby", "active-active"}
    BY <1>1 DEF Port, CableTypes
  <2>5. CASE h = g
    BY <2>3, <2>4, <2>5, <1>1, <1>2, <1>3, <1>5 DEF PortOK, BladeOK, BladeMac, blade
  <2>6. CASE h = "UseWellKnownMacAddress"
    BY <2>2, <2>4, <2>6, <1>1, <1>2, <1>3, <1>5 DEF PortOK, BladeOK, BladeMac, blade
  <2>7. CASE h \notin {g, "UseWellKnownMacAddress"}
    <3>1. blade = s.blade
      BY <2>7 DEF BladeMac, blade
    <3> QED BY <3>1, <2>2, <2>7, <1>1, <1>2, <1>3, <1>5 DEF PortOK, BladeOK
  <2> QED BY <2>5, <2>6, <2>7
<1>12. ModesOK(t)
  BY <1>2, <1>3 DEF PortOK, ModesOK
<1> QED BY <1>2, <1>3, <1>4, <1>9, <1>10, <1>11, <1>12 DEF PortOK, s, h, arg

\* A mode that was held and runs again is told to an active-active port.
LEMMA RunAgainOK ==
  ASSUME NEW p, NEW port \in Port, NEW config, PortOK(p, port, config),
         NEW mode \in port.rerun
  PROVE  LET t == [port EXCEPT !.rerun = @ \ {mode}, !.mode = mode,
                               !.told["MuxConfig"] = mode]
         IN  /\ t \in Port /\ t.cable = port.cable
             /\ port.cable # "active-standby"
             /\ PortOK(p, t, config)
             /\ \A g, v : g # "MuxConfig" /\ LastIs(port, g, v) => LastIs(t, g, v)
<1> DEFINE t == [port EXCEPT !.rerun = @ \ {mode}, !.mode = mode,
                             !.told["MuxConfig"] = mode]
<1>1. port.cable # "active-standby"
  BY DEF PortOK, ModesOK
<1>2. mode \in Text /\ "MuxConfig" \in Handlers
  BY DEF Port, Handlers
<1>3. /\ t \in Port /\ t.cable = port.cable /\ t.proberType = port.proberType
      /\ t.blade = port.blade /\ t.fitted = port.fitted /\ t.frame = port.frame
      /\ t.init = port.init /\ t.registered = port.registered
      /\ t.told = [port.told EXCEPT !["MuxConfig"] = mode]
      /\ t.strand = port.strand /\ t.rerun \subseteq port.rerun
  BY <1>2 DEF Port
<1> HIDE DEF t
<1>4. \A g : g # "MuxConfig" => t.told[g] = port.told[g]
  BY <1>2, <1>3 DEF Port
<1>5. PortOK(p, t, config)
  BY <1>1, <1>3, <1>4 DEF PortOK, Built, FrameOK, BladeOK, ModesOK, On
<1>6. \A g, v : g # "MuxConfig" /\ LastIs(port, g, v) => LastIs(t, g, v)
  BY <1>3, <1>4 DEF LastIs, On
<1> QED BY <1>1, <1>3, <1>5, <1>6 DEF t

-----------------------------------------------------------------------------
(* What a method does to the manager *)

\* A port is as it was, or was posted the handler h.
Gets(s, t, h) == t = s \/ \E arg \in Text : t = Post(s, h, arg)

\* What a method that only passes something on leaves alone.
SameConfig(m, n) ==
  /\ n.start = m.start /\ n.torMac = m.torMac /\ n.vlanMac = m.vlanMac
  /\ n.loopback = m.loopback /\ n.defaultRouteFeature = m.defaultRouteFeature

\* The ports there are, and what is known of a port already, stay.
Grows(m, n) ==
  /\ n \in Manager
  /\ DOMAIN m.ports \subseteq DOMAIN n.ports
  /\ DOMAIN n.ports \subseteq DOMAIN n.cables
  /\ IsFiniteSet(DOMAIN n.ports)
  /\ \A p \in DOMAIN m.cables : p \in DOMAIN n.cables /\ n.cables[p] = m.cables[p]

\* The method posts h, to some ports or to all, and may create one of them.
Passes(m, n, h) ==
  /\ Grows(m, n) /\ SameConfig(m, n)
  /\ \A p \in DOMAIN m.ports : Gets(m.ports[p], n.ports[p], h)
  /\ \A p \in DOMAIN n.ports \ DOMAIN m.ports :
       Gets(NewPort(n.cables[p], m.useWellKnownMac), n.ports[p], h)

\* What the methods find.
IsManager(m) ==
  m \in Manager /\ DOMAIN m.ports \subseteq DOMAIN m.cables /\ IsFiniteSet(DOMAIN m.ports)

\* The maps that the manager extends, by their domain and values.
LEMMA MapFacts ==
  ASSUME NEW S, NEW f
  PROVE  f \in MapsTo(S) <=>
           /\ f = [p \in DOMAIN f |-> f[p]]
           /\ DOMAIN f \subseteq Names
           /\ \A p \in DOMAIN f : f[p] \in S
<1>1. ASSUME f \in MapsTo(S)
      PROVE  /\ f = [p \in DOMAIN f |-> f[p]]
             /\ DOMAIN f \subseteq Names
             /\ \A p \in DOMAIN f : f[p] \in S
  <2>1. PICK D \in SUBSET Names : f \in [D -> S]
    BY <1>1 DEF MapsTo
  <2> QED BY <2>1
<1>2. ASSUME f = [p \in DOMAIN f |-> f[p]], DOMAIN f \subseteq Names,
             \A p \in DOMAIN f : f[p] \in S
      PROVE  f \in MapsTo(S)
  <2>1. f \in [DOMAIN f -> S]
    BY <1>2
  <2> QED BY <2>1, <1>2 DEF MapsTo
<1> QED BY <1>1, <1>2

\* The ports and the cable types of a manager.
LEMMA ManagerFacts ==
  ASSUME NEW m \in Manager
  PROVE  /\ m.ports = [p \in DOMAIN m.ports |-> m.ports[p]]
         /\ DOMAIN m.ports \subseteq Names
         /\ \A p \in DOMAIN m.ports : m.ports[p] \in Port
         /\ m.cables = [p \in DOMAIN m.cables |-> m.cables[p]]
         /\ DOMAIN m.cables \subseteq Names
         /\ \A p \in DOMAIN m.cables : m.cables[p] \in CableTypes
<1>1. m.ports \in MapsTo(Port) /\ m.cables \in MapsTo(CableTypes)
  BY DEF Manager
<1> QED BY <1>1, MapFacts

\* Creating ports, with the cable types that are known.
LEMMA CreateFacts ==
  ASSUME NEW m, IsManager(m), NEW names \in SUBSET Names, IsFiniteSet(names)
  PROVE  LET n == getMuxPortPtrOrThrow(m, names)
         IN  /\ IsManager(n) /\ Grows(m, n) /\ SameConfig(m, n)
             /\ DOMAIN n.ports = DOMAIN m.ports \cup names
             /\ DOMAIN n.cables = DOMAIN m.cables \cup names
             /\ \A p \in DOMAIN m.ports : n.ports[p] = m.ports[p]
             /\ \A p \in names \ DOMAIN m.ports :
                  n.ports[p] = NewPort(n.cables[p], m.useWellKnownMac)
             /\ n.useTorMac = m.useTorMac /\ n.useWellKnownMac = m.useWellKnownMac
             /\ n.v4 = m.v4 /\ n.strand = m.strand
<1> DEFINE n == getMuxPortPtrOrThrow(m, names)
           cables == [p \in DOMAIN m.cables \cup names |-> getMuxPortCableType(m, p)]
           ports == [p \in DOMAIN m.ports \cup names |->
                       IF p \in DOMAIN m.ports THEN m.ports[p]
                       ELSE NewPort(getMuxPortCableType(m, p), m.useWellKnownMac)]
<1>1. m \in Manager /\ DOMAIN m.ports \subseteq DOMAIN m.cables /\ IsFiniteSet(DOMAIN m.ports)
  BY DEF IsManager
<1>2. /\ DOMAIN m.ports \subseteq Names /\ DOMAIN m.cables \subseteq Names
      /\ \A p \in DOMAIN m.ports : m.ports[p] \in Port
      /\ \A p \in DOMAIN m.cables : m.cables[p] \in CableTypes
      /\ m.useWellKnownMac \in BOOLEAN
  BY <1>1, ManagerFacts DEF Manager
<1>3. \A p : getMuxPortCableType(m, p) \in CableTypes
  BY <1>2 DEF getMuxPortCableType, CableTypes
<1>4. cables \in MapsTo(CableTypes)
  <2>1. /\ DOMAIN cables \subseteq Names
        /\ cables = [p \in DOMAIN cables |-> cables[p]]
        /\ \A p \in DOMAIN cables : cables[p] \in CableTypes
    BY <1>2, <1>3
  <2> QED BY <2>1, MapFacts
<1>5. ASSUME NEW type \in CableTypes PROVE NewPort(type, m.useWellKnownMac) \in Port
  <2> DEFINE config == [useWellKnownMac |-> m.useWellKnownMac]
  <2>1. config.useWellKnownMac = m.useWellKnownMac
    OBVIOUS
  <2> HIDE DEF config
  <2> QED BY <2>1, <1>2, NewPortOK
<1>6. ports \in MapsTo(Port)
  <2>1. /\ DOMAIN ports \subseteq Names
        /\ ports = [p \in DOMAIN ports |-> ports[p]]
        /\ \A p \in DOMAIN ports : ports[p] \in Port
    BY <1>2, <1>3, <1>5
  <2> QED BY <2>1, MapFacts
<1>7. IsFiniteSet(DOMAIN m.ports \cup names)
  BY <1>1, FS_Union
<1>8. n = [m EXCEPT !.cables = cables, !.ports = ports]
  BY DEF getMuxPortPtrOrThrow
<1>9. /\ DOMAIN ports = DOMAIN m.ports \cup names
      /\ DOMAIN cables = DOMAIN m.cables \cup names
      /\ \A p \in DOMAIN m.ports : ports[p] = m.ports[p]
      /\ \A p \in names \ DOMAIN m.ports :
           ports[p] = NewPort(cables[p], m.useWellKnownMac)
      /\ \A p \in DOMAIN m.cables : cables[p] = m.cables[p]
  BY DEF getMuxPortCableType
<1> HIDE DEF n, ports, cables
<1>10. /\ n \in Manager
       /\ n.ports = ports /\ n.cables = cables
       /\ SameConfig(m, n)
       /\ n.useTorMac = m.useTorMac /\ n.useWellKnownMac = m.useWellKnownMac
       /\ n.v4 = m.v4 /\ n.strand = m.strand
  BY <1>1, <1>4, <1>6, <1>8 DEF Manager, SameConfig
<1> QED BY <1>1, <1>7, <1>9, <1>10 DEF IsManager, Grows, n

\* The ports of the manager n were replaced by those of f.
LEMMA PassesExcept ==
  ASSUME NEW m, IsManager(m), NEW h \in Handlers, NEW f,
         f = [p \in DOMAIN m.ports |-> f[p]],
         \A p \in DOMAIN m.ports : Gets(m.ports[p], f[p], h)
  PROVE  LET n == [m EXCEPT !.ports = f]
         IN  /\ IsManager(n) /\ Passes(m, n, h)
             /\ n.ports = f /\ DOMAIN n.ports = DOMAIN m.ports
             /\ n.useTorMac = m.useTorMac /\ n.useWellKnownMac = m.useWellKnownMac
             /\ n.v4 = m.v4
<1> DEFINE n == [m EXCEPT !.ports = f]
<1>1. m \in Manager /\ DOMAIN m.ports \subseteq DOMAIN m.cables /\ IsFiniteSet(DOMAIN m.ports)
  BY DEF IsManager
<1>2. DOMAIN f = DOMAIN m.ports
  OBVIOUS
<1>3. \A p \in DOMAIN m.ports : f[p] \in Port
  <2> SUFFICES ASSUME NEW p \in DOMAIN m.ports PROVE f[p] \in Port
    OBVIOUS
  <2>1. m.ports[p] \in Port
    BY <1>1, ManagerFacts
  <2> QED BY <2>1, PostFacts DEF Gets
<1>4. f \in MapsTo(Port)
  <2>1. f = [p \in DOMAIN f |-> f[p]] /\ DOMAIN f \subseteq Names
        /\ \A p \in DOMAIN f : f[p] \in Port
    BY <1>1, <1>2, <1>3, ManagerFacts
  <2> QED BY <2>1, MapFacts
<1>5. /\ n \in Manager
      /\ n.ports = f /\ n.cables = m.cables /\ SameConfig(m, n)
      /\ n.useTorMac = m.useTorMac /\ n.useWellKnownMac = m.useWellKnownMac
      /\ n.v4 = m.v4
  BY <1>1, <1>4 DEF Manager, SameConfig
<1> HIDE DEF n
<1> QED BY <1>1, <1>2, <1>5 DEF IsManager, Passes, Grows, n

\* One port that exists was posted h.
LEMMA PassesOne ==
  ASSUME NEW m, IsManager(m), NEW h \in Handlers, NEW arg \in Text,
         NEW p \in DOMAIN m.ports
  PROVE  LET n == [m EXCEPT !.ports[p] = Post(@, h, arg)]
         IN  /\ Passes(m, n, h)
             /\ n.ports[p] = Post(m.ports[p], h, arg)
             /\ \A q \in DOMAIN m.ports \ {p} : n.ports[q] = m.ports[q]
             /\ n.useTorMac = m.useTorMac /\ n.useWellKnownMac = m.useWellKnownMac
             /\ n.v4 = m.v4
<1> DEFINE f == [m.ports EXCEPT ![p] = Post(@, h, arg)]
<1>1. m \in Manager /\ m.ports = [q \in DOMAIN m.ports |-> m.ports[q]]
  BY ManagerFacts DEF IsManager
<1>2. [m EXCEPT !.ports[p] = Post(@, h, arg)] = [m EXCEPT !.ports = f]
  BY <1>1 DEF Manager
<1>3. /\ f = [q \in DOMAIN m.ports |-> f[q]]
      /\ f[p] = Post(m.ports[p], h, arg)
      /\ \A q \in DOMAIN m.ports \ {p} : f[q] = m.ports[q]
  BY <1>1
<1>4. \A q \in DOMAIN m.ports : Gets(m.ports[q], f[q], h)
  BY <1>3 DEF Gets
<1> HIDE DEF f
<1> QED BY <1>2, <1>3, <1>4, PassesExcept

\* One port was posted h, after it was created if it did not exist.
Created(m, p, h, arg) == [getMuxPortPtrOrThrow(m, {p}) EXCEPT !.ports[p] = Post(@, h, arg)]

\* A notification of one name creates its port if need be, posts to it and to no other.
LEMMA PassesNew ==
  ASSUME NEW m, IsManager(m), NEW h \in Handlers, NEW arg \in Text, NEW p \in Names
  PROVE  LET n == Created(m, p, h, arg)
         IN  /\ Passes(m, n, h)
             /\ p \in DOMAIN m.ports => n.ports[p] = Post(m.ports[p], h, arg)
             /\ \A q \in DOMAIN m.ports \ {p} : n.ports[q] = m.ports[q]
             /\ n.useTorMac = m.useTorMac /\ n.useWellKnownMac = m.useWellKnownMac
             /\ n.v4 = m.v4
<1> DEFINE c == getMuxPortPtrOrThrow(m, {p})
           n == [c EXCEPT !.ports[p] = Post(@, h, arg)]
<1>0. n = Created(m, p, h, arg)
  BY DEF Created
<1>1. IsFiniteSet({p}) /\ {p} \in SUBSET Names
  BY FS_Singleton
<1>2. /\ IsManager(c) /\ Grows(m, c) /\ SameConfig(m, c)
      /\ DOMAIN c.ports = DOMAIN m.ports \cup {p}
      /\ \A q \in DOMAIN m.ports : c.ports[q] = m.ports[q]
      /\ \A q \in {p} \ DOMAIN m.ports :
           c.ports[q] = NewPort(c.cables[q], m.useWellKnownMac)
      /\ c.useTorMac = m.useTorMac /\ c.useWellKnownMac = m.useWellKnownMac
      /\ c.v4 = m.v4
  BY <1>1, CreateFacts
<1> HIDE DEF c
<1>3. IsManager(c) /\ p \in DOMAIN c.ports
  BY <1>2
<1>4. /\ Passes(c, n, h)
      /\ n.ports[p] = Post(c.ports[p], h, arg)
      /\ \A q \in DOMAIN c.ports \ {p} : n.ports[q] = c.ports[q]
      /\ n.useTorMac = c.useTorMac /\ n.useWellKnownMac = c.useWellKnownMac
      /\ n.v4 = c.v4
  BY <1>3, PassesOne
<1>5. n = [c EXCEPT !.ports = n.ports]
  BY <1>2 DEF IsManager, Manager
<1>6. n.cables = c.cables /\ DOMAIN n.ports = DOMAIN c.ports
  BY <1>2 DEF IsManager, Manager
<1> HIDE DEF n
<1>7. Grows(m, n) /\ SameConfig(m, n)
  BY <1>2, <1>4 DEF Passes, Grows, SameConfig
<1>8. \A q \in DOMAIN m.ports : Gets(m.ports[q], n.ports[q], h)
  BY <1>2, <1>4 DEF Gets
<1>9. \A q \in DOMAIN n.ports \ DOMAIN m.ports :
        Gets(NewPort(n.cables[q], m.useWellKnownMac), n.ports[q], h)
  BY <1>2, <1>4, <1>6 DEF Gets
<1>10. /\ p \in DOMAIN m.ports => n.ports[p] = Post(m.ports[p], h, arg)
       /\ \A q \in DOMAIN m.ports \ {p} : n.ports[q] = m.ports[q]
       /\ n.useTorMac = m.useTorMac /\ n.useWellKnownMac = m.useWellKnownMac
       /\ n.v4 = m.v4
  BY <1>2, <1>4
<1> QED BY <1>0, <1>1, <1>7, <1>8, <1>9, <1>10 DEF Passes

\* A new configuration, of which the handlers that will see it are on the strand.
LEMMA ConfigOK ==
  ASSUME NEW p, NEW port \in Port, NEW c, NEW d, PortOK(p, port, c),
         d.loopback = c.loopback,
         d.source = c.source \/ On(port, "SrcMacAddress"),
         d.useWellKnownMac = c.useWellKnownMac \/ On(port, "UseWellKnownMacAddress")
  PROVE  PortOK(p, port, d)
<1>1. FrameOK(port, d)
  BY DEF PortOK, FrameOK
<1>2. BladeOK(port, d)
  <2>1. port.cable \in {"active-standby", "active-active"}
    BY DEF Port, CableTypes
  <2> QED BY <2>1 DEF PortOK, BladeOK
<1> QED BY <1>1, <1>2 DEF PortOK

\* Every port is in order after a method that passes something on.
LEMMA PassesOK ==
  ASSUME NEW m, IsManager(m), NEW n, NEW h \in Handlers, Passes(m, n, h),
         h \notin {"BladeIpv4Address", "SoCIpv4Address"},
         Ports \subseteq DOMAIN m.ports,
         \A p \in DOMAIN m.ports : PortOK(p, m.ports[p], Config(m)),
         \/ Config(n).source = Config(m).source
         \/ /\ DOMAIN n.ports = DOMAIN m.ports
            /\ \A p \in DOMAIN m.ports : On(n.ports[p], "SrcMacAddress"),
         \/ n.useWellKnownMac = m.useWellKnownMac
         \/ /\ DOMAIN n.ports = DOMAIN m.ports
            /\ \A p \in DOMAIN m.ports : On(n.ports[p], "UseWellKnownMacAddress")
  PROVE  \A p \in DOMAIN n.ports : PortOK(p, n.ports[p], Config(n))
<1>1. /\ m \in Manager /\ n \in Manager
      /\ n.loopback = m.loopback
      /\ \A p \in DOMAIN m.ports : Gets(m.ports[p], n.ports[p], h)
      /\ \A p \in DOMAIN n.ports \ DOMAIN m.ports :
           Gets(NewPort(n.cables[p], m.useWellKnownMac), n.ports[p], h)
      /\ DOMAIN n.ports \subseteq DOMAIN n.cables
  BY DEF IsManager, Passes, Grows, SameConfig
<1>2. /\ Config(m).loopback = Config(n).loopback
      /\ Config(m).useWellKnownMac = m.useWellKnownMac
      /\ Config(n).useWellKnownMac = n.useWellKnownMac
      /\ m.useWellKnownMac \in BOOLEAN
  BY <1>1 DEF Config, Manager
<1>3. ASSUME NEW p \in DOMAIN m.ports PROVE PortOK(p, n.ports[p], Config(n))
  <2>1. m.ports[p] \in Port /\ n.ports[p] \in Port
    BY <1>1, ManagerFacts DEF Passes, Grows
  <2>2. PortOK(p, n.ports[p], Config(m))
    <3>1. CASE n.ports[p] = m.ports[p]
      BY <3>1
    <3>2. CASE n.ports[p] # m.ports[p]
      <4>1. PICK arg \in Text : n.ports[p] = Post(m.ports[p], h, arg)
        BY <3>2, <1>1 DEF Gets
      <4> QED BY <3>2, <4>1, <2>1, PostOK
    <3> QED BY <3>1, <3>2
  <2> HIDE DEF Config
  <2> QED BY <2>1, <2>2, <1>2, ConfigOK
<1>4. ASSUME NEW p \in DOMAIN n.ports \ DOMAIN m.ports
      PROVE  PortOK(p, n.ports[p], Config(n))
  <2> DEFINE new == NewPort(n.cables[p], m.useWellKnownMac)
  <2>1. p \notin Ports /\ n.cables[p] \in CableTypes
    BY <1>1, <1>4, ManagerFacts
  <2>2. /\ Config(n).source = Config(m).source
        /\ n.useWellKnownMac = m.useWellKnownMac
    BY <1>4
  <2>3. /\ new \in Port /\ new.init = {} /\ \A g : ~On(new, g)
        /\ FrameOK(new, Config(n)) /\ BladeOK(new, Config(n)) /\ ModesOK(new)
        /\ new.registered \cup new.rerun = {} /\ new.fitted = None
    <3>1. new.registered \cup new.rerun = {} /\ new.fitted = None
      BY DEF NewPort
    <3> DEFINE config == Config(n)
               type == n.cables[p]
    <3>2. config.useWellKnownMac = m.useWellKnownMac /\ type \in CableTypes
      BY <2>1, <2>2, <1>2
    <3>3. new = NewPort(type, config.useWellKnownMac)
      BY <3>2
    <3> HIDE DEF config, type, new
    <3>4. /\ new \in Port /\ new.init = {} /\ \A g : ~On(new, g)
          /\ FrameOK(new, config) /\ BladeOK(new, config) /\ ModesOK(new)
      <4>1. config.useWellKnownMac \in BOOLEAN
        BY <3>2, <1>2
      <4> DEFINE t == NewPort(type, config.useWellKnownMac)
      <4>2. /\ t \in Port /\ t.init = {} /\ \A g : ~On(t, g)
            /\ FrameOK(t, config) /\ BladeOK(t, config) /\ ModesOK(t)
        BY <4>1, <3>2, NewPortOK
      <4> HIDE DEF t
      <4>3. new = t
        BY <3>3 DEF t
      <4> QED BY <4>2, <4>3
    <3> QED BY <3>1, <3>4 DEF config
  <2> HIDE DEF new
  <2>4. PortOK(p, new, Config(n))
    <3>1. Built(p, new)
      BY <2>1, <2>3 DEF Built
    <3> QED BY <2>3, <3>1 DEF PortOK
  <2>5. CASE n.ports[p] = new
    BY <2>4, <2>5
  <2>6. CASE n.ports[p] # new
    <3>1. PICK arg \in Text : n.ports[p] = Post(new, h, arg)
      BY <2>6, <1>1 DEF Gets, new
    <3> QED BY <3>1, <2>3, <2>4, PostOK
  <2> QED BY <2>5, <2>6
<1> QED BY <1>3, <1>4

-----------------------------------------------------------------------------
(* What a port is told *)

\* Key k tells port p label, by the handler h.
Tells(p, k, h, label) ==
  \/ k = <<"PORT_TABLE", p>> /\ h = "LinkState" /\ label = LinkLabel(tables[k])
  \/ k = <<"MUX_CABLE_TABLE", p>> /\ h = "MuxState" /\ label = MuxLabel(tables[k])
  \/ k = <<"MUX_CABLE_INFO", p>> /\ h = "PeerLinkState" /\ label = PeerLinkLabel(tables[k])
  \/ k = route4 /\ h = "DefaultRouteState" /\ IsRoute(label)
  \/ /\ k \in {<<"HW_MUX_CABLE_TABLE_PEER", p>>, <<"FORWARDING_STATE_RESPONSE_PEER", p>>}
     /\ h = "PeerMuxState" /\ label = MuxLabel(tables[k])
  \/ k = <<"NEIGH", p>> /\ h = "GetServerMacAddress" /\ label = tables[k]
  \/ k = <<"MUX_CABLE", p>> /\ h = "MuxConfig" /\ label = ModeLabel(tables[k])
  \/ k = tsa /\ h = "MuxConfig" /\ label = TsaLabel(tables[k] = "true")

\* Keys that tell port p something that ToldOK speaks of, and the handlers that do.
TellingKeys(p) ==
  {"PORT_TABLE", "MUX_CABLE_TABLE", "MUX_CABLE_INFO", "HW_MUX_CABLE_TABLE_PEER",
   "FORWARDING_STATE_RESPONSE_PEER", "NEIGH", "MUX_CABLE"} \X {p} \cup {route4, tsa}
TellingHandlers ==
  {"LinkState", "MuxState", "PeerLinkState", "DefaultRouteState", "PeerMuxState",
   "GetServerMacAddress", "MuxConfig"}

\* What s was told last of its kind t is told last too, but that an active-active port
\* may be told an older mode again.
Keeps(s, t) ==
  \A g \in TellingHandlers : \A v :
    (g # "MuxConfig" \/ s.cable = "active-standby") /\ LastIs(s, g, v) => LastIs(t, g, v)

\* A port whose strand moves on or is posted something else is told what it was.
LEMMA ToldStays ==
  ASSUME NEW p, NEW s \in Port, NEW t \in Port, ToldOK(p, s), t.cable = s.cable,
         Keeps(s, t),
         tables' = tables, changed' = changed, NEW k, k \notin TellingKeys(p),
         fresh' = fresh \/ fresh' = fresh \ {k} \/ fresh' = fresh \cup {k}
  PROVE  ToldOK(p, t)'
<1>1. \A l \in TellingKeys(p) : /\ l \in fresh' <=> l \in fresh
                                /\ Taken(l)' <=> Taken(l)
                                /\ Holds(l)' = Holds(l)
  BY DEF Taken, Holds
<1>2. TellingKeys(p) = {<<"PORT_TABLE", p>>, <<"MUX_CABLE_TABLE", p>>,
        <<"MUX_CABLE_INFO", p>>, <<"HW_MUX_CABLE_TABLE_PEER", p>>,
        <<"FORWARDING_STATE_RESPONSE_PEER", p>>, <<"NEIGH", p>>, <<"MUX_CABLE", p>>,
        route4, tsa}
  BY DEF TellingKeys
<1> DEFINE neigh == <<"NEIGH", p>>
           config == <<"MUX_CABLE", p>>
<1>3. Understood(t, tables[config]) <=> Understood(s, tables[config])
  BY DEF Understood
<1>4. \A label : IsRoute(label)' <=> IsRoute(label)
  BY DEF IsRoute
<1> HIDE DEF neigh, config
<1> QED
  BY <1>1, <1>2, <1>3, <1>4 DEF ToldOK, Keeps, TellingHandlers, neigh, config

\* The key that is taken up tells port p what the table holds, unless it is a mode
\* the port does not understand.
Informs(p, k, s, t) ==
  \/ \E h \in TellingHandlers : \E label :
       /\ Tells(p, k, h, label)
       /\ LastIs(t, h, label)
       /\ \A g \in TellingHandlers \ {h} : \A v : LastIs(s, g, v) => LastIs(t, g, v)
  \/ /\ k = <<"MUX_CABLE", p>> /\ ~Understood(s, tables[k])
     /\ \A g \in TellingHandlers : \A v : LastIs(s, g, v) => LastIs(t, g, v)

\* A key that is taken up stays told where its handler is posted.
LEMMA ToldTaken ==
  ASSUME NEW p, NEW s \in Port, NEW t \in Port, ToldOK(p, s), t.cable = s.cable,
         NEW k \in Keys, Informs(p, k, s, t), tables[k] # None,
         tables' = tables, changed' = changed, fresh' = fresh \ {k}
  PROVE  ToldOK(p, t)'
<1> DEFINE link == <<"PORT_TABLE", p>>
           mux == <<"MUX_CABLE_TABLE", p>>
           info == <<"MUX_CABLE_INFO", p>>
           table == <<"HW_MUX_CABLE_TABLE_PEER", p>>
           probe == <<"FORWARDING_STATE_RESPONSE_PEER", p>>
           neigh == <<"NEIGH", p>>
           config == <<"MUX_CABLE", p>>
<1>1. /\ \A l : l # k => /\ l \in fresh' <=> l \in fresh
                         /\ Taken(l)' <=> Taken(l)
                         /\ Holds(l)' = Holds(l)
      /\ k \notin fresh' /\ Taken(k)' /\ Holds(k)' = tables[k]
  BY DEF Taken, Holds
<1>2. /\ link \notin {mux, info, route4, table, probe, neigh, config, tsa}
      /\ mux \notin {info, route4, table, probe, neigh, config, tsa}
      /\ info \notin {route4, table, probe, neigh, config, tsa}
      /\ route4 \notin {table, probe, neigh, config, tsa}
      /\ table \notin {probe, neigh, config, tsa}
      /\ probe \notin {neigh, config, tsa}
      /\ neigh \notin {config, tsa} /\ config # tsa
  BY DEF route4, tsa
<1>3. Understood(t, tables[config]) <=> Understood(s, tables[config])
  BY DEF Understood
<1>4. /\ TellingHandlers = {"LinkState", "MuxState", "PeerLinkState", "DefaultRouteState",
                            "PeerMuxState", "GetServerMacAddress", "MuxConfig"}
      /\ \A label : IsRoute(label)' <=> IsRoute(label)
  BY DEF TellingHandlers, IsRoute
<1> DEFINE Stays(h) == \A v : LastIs(s, h, v) => LastIs(t, h, v)
<1>5. ASSUME k = config, ~Understood(s, tables[k]), \A g \in TellingHandlers : Stays(g)
      PROVE  ToldOK(p, t)'
  <2> HIDE DEF link, mux, info, table, probe, neigh, config
  <2> QED BY <1>1, <1>2, <1>3, <1>4, <1>5
          DEF ToldOK, link, mux, info, table, probe, neigh, config
<1>6. ASSUME NEW h \in TellingHandlers, NEW label,
             Tells(p, k, h, label), LastIs(t, h, label),
             \A g \in TellingHandlers \ {h} : Stays(g)
      PROVE  ToldOK(p, t)'
  <2> HIDE DEF link, mux, info, table, probe, neigh, config
  <2>1. CASE k = link /\ h = "LinkState" /\ label = LinkLabel(tables[k])
    BY <2>1, <1>1, <1>2, <1>3, <1>4, <1>6
    DEF ToldOK, link, mux, info, table, probe, neigh, config
  <2>2. CASE k = mux /\ h = "MuxState" /\ label = MuxLabel(tables[k])
    BY <2>2, <1>1, <1>2, <1>3, <1>4, <1>6
    DEF ToldOK, link, mux, info, table, probe, neigh, config
  <2>3. CASE k = info /\ h = "PeerLinkState" /\ label = PeerLinkLabel(tables[k])
    BY <2>3, <1>1, <1>2, <1>3, <1>4, <1>6
    DEF ToldOK, link, mux, info, table, probe, neigh, config
  <2>4. CASE k = route4 /\ h = "DefaultRouteState" /\ IsRoute(label)
    BY <2>4, <1>1, <1>2, <1>3, <1>4, <1>6
    DEF ToldOK, link, mux, info, table, probe, neigh, config
  <2>5. CASE k \in {table, probe} /\ h = "PeerMuxState" /\ label = MuxLabel(tables[k])
    BY <2>5, <1>1, <1>2, <1>3, <1>4, <1>6
    DEF ToldOK, link, mux, info, table, probe, neigh, config
  <2>6. CASE k = neigh /\ h = "GetServerMacAddress" /\ label = tables[k]
    BY <2>6, <1>1, <1>2, <1>3, <1>4, <1>6
    DEF ToldOK, link, mux, info, table, probe, neigh, config
  <2>7. CASE k = config /\ h = "MuxConfig" /\ label = ModeLabel(tables[k])
    BY <2>7, <1>1, <1>2, <1>3, <1>4, <1>6
    DEF ToldOK, link, mux, info, table, probe, neigh, config
  <2>8. CASE k = tsa /\ h = "MuxConfig" /\ label = TsaLabel(tables[k] = "true")
    BY <2>8, <1>1, <1>2, <1>3, <1>4, <1>6
    DEF ToldOK, link, mux, info, table, probe, neigh, config
  <2> QED BY <1>6, <2>1, <2>2, <2>3, <2>4, <2>5, <2>6, <2>7, <2>8
          DEF Tells, link, mux, info, table, probe, neigh, config
<1> QED BY <1>5, <1>6, Zenon DEF Informs

\* A key that changed tells nothing until it is taken up.
LEMMA ToldUnsettled ==
  ASSUME NEW p, NEW s, ToldOK(p, s), NEW k \in Keys, NEW v,
         tables \in [Keys -> Text], tables' = [tables EXCEPT ![k] = v],
         fresh' = fresh \cup {k}, changed' \subseteq changed \cup {k}
  PROVE  ToldOK(p, s)'
<1>1. \A l : l # k => /\ l \in fresh' <=> l \in fresh
                      /\ Taken(l)' <=> Taken(l)
                      /\ Holds(l)' = Holds(l)
                      /\ l \in Keys => tables'[l] = tables[l]
  BY DEF Taken, Holds
<1>2. k \in fresh' /\ ~Taken(k)'
  BY DEF Taken
<1> DEFINE link == <<"PORT_TABLE", p>>
           mux == <<"MUX_CABLE_TABLE", p>>
           info == <<"MUX_CABLE_INFO", p>>
           table == <<"HW_MUX_CABLE_TABLE_PEER", p>>
           probe == <<"FORWARDING_STATE_RESPONSE_PEER", p>>
           neigh == <<"NEIGH", p>>
           config == <<"MUX_CABLE", p>>
<1>3. \A l : Taken(l)' => l \in Keys
  BY DEF Taken
<1>4. Taken(route4)' => \A label : IsRoute(label) => IsRoute(label)'
  BY <1>1, <1>2, <1>3 DEF IsRoute
<1> HIDE DEF link, mux, info, table, probe, neigh, config
<1> QED BY <1>1, <1>2, <1>3, <1>4
        DEF ToldOK, link, mux, info, table, probe, neigh, config

\* A port that is created has been told nothing, and nothing was taken up.
LEMMA ToldNothing ==
  ASSUME NEW p, NEW s, NothingTaken, ~Ready, LastIs(s, "GetServerMacAddress", None)
  PROVE  ToldOK(p, s)
<1>1. \A k : ~Taken(k)
  BY DEF NothingTaken, Taken
<1>2. ASSUME NEW k, k \notin fresh PROVE LastIs(s, "GetServerMacAddress", Holds(k))
  <2>1. Holds(k) = None
    BY <1>2 DEF NothingTaken, Holds
  <2> QED BY <2>1
<1> QED BY <1>1, <1>2, Zenon DEF ToldOK

\* What the assumption on the constants says of a key that holds something.
LEMMA TablesFacts ==
  ASSUME Typed
  PROVE  /\ IsFiniteSet(Ports) /\ Ports \subseteq Names
         /\ \A k \in Keys : tables[k] \in Text
         /\ Cable \in [Ports -> CableTypes] /\ Prober \in [Ports -> ProberTypes]
         /\ \A k \in Keys : Values[k] \subseteq Text /\ None \notin Values[k]
BY LinkmgrdAssumption DEF Typed, Names, Text

\* A notification that was taken up, and passed on by handler h.
LEMMA TakesOK ==
  ASSUME PortsInv, NEW k, NEW n, Takes(k, n),
         NEW h \in Handlers \ {"BladeIpv4Address", "SoCIpv4Address"}, Passes(mgr, n, h),
         n.useTorMac = (IF k = srcMac THEN tables[k] = "ToRMac" ELSE mgr.useTorMac),
         \/ n.useTorMac = mgr.useTorMac
         \/ /\ DOMAIN n.ports = DOMAIN mgr.ports
            /\ \A p \in DOMAIN mgr.ports : On(n.ports[p], "SrcMacAddress"),
         n.useWellKnownMac =
           (IF k = wellKnown THEN tables[k] = "enable" ELSE mgr.useWellKnownMac),
         \/ n.useWellKnownMac = mgr.useWellKnownMac
         \/ /\ DOMAIN n.ports = DOMAIN mgr.ports
            /\ \A p \in DOMAIN mgr.ports : On(n.ports[p], "UseWellKnownMacAddress"),
         n.v4 = (IF k = route4 THEN tables[k] ELSE mgr.v4),
         \A p \in Ports : ToldOK(p, n.ports[p])'
  PROVE  PortsInv'
<1>1. /\ Typed /\ Phases /\ Stored /\ NothingTaken
      /\ \A p \in DOMAIN mgr.ports : PortOK(p, mgr.ports[p], Config(mgr))
  BY DEF PortsInv
<1>2. /\ swss = "select" /\ k \in fresh /\ fresh' = fresh \ {k} /\ mgr' = n
      /\ UNCHANGED <<main, swss, stopper, tables, changed>>
  BY DEF Takes
<1>3. k \in Keys /\ tables[k] # None /\ mgr \in Manager /\ n \in Manager
  BY <1>1, <1>2 DEF Typed, Stored, Passes, Grows
<1>4. IsManager(mgr) /\ Ports \subseteq DOMAIN mgr.ports /\ SameConfig(mgr, n)
  BY <1>1, <1>2, <1>3 DEF Phases, Beginning, IsManager, Passes
<1>5. Typed'
  BY <1>1, <1>2, <1>3 DEF Typed
<1>6. Phases'
  <2>1. mgr.start \in Starts /\ n.start = mgr.start
    BY <1>3, <1>4 DEF Manager, SameConfig
  <2>2. ~mgr.start.vlanMac /\ SourceKnown => n.useTorMac
    <3> SUFFICES ASSUME ~mgr.start.vlanMac, SourceKnown PROVE n.useTorMac
      OBVIOUS
    <3>1. mgr.useTorMac
      BY <1>1, <1>2 DEF Phases
    <3>2. CASE k = srcMac
      <4>1. Words(srcMac) \subseteq {None, "ToRMac"}
        BY <2>1, <3>2, <1>3 DEF SourceKnown
      <4>2. tables[srcMac] \in Words(srcMac)
        BY <3>2, <1>1, <1>3 DEF Stored, srcMac
      <4> QED BY <4>1, <4>2, <3>2, <1>3
    <3> QED BY <3>1, <3>2
  <2> QED BY <2>1, <2>2, <1>1, <1>2, <1>4
          DEF Phases, Beginning, Passes, Grows, SameConfig
<1>7. Stored'
  <2>1. \A l : Holds(l)' = Holds(l) /\ (k = l => Holds(l) = tables[l])
    BY <1>2, <1>3 DEF Holds
  <2>2. n.start = mgr.start
    BY <1>4 DEF SameConfig
  <2>3. srcMac # wellKnown /\ srcMac # route4 /\ wellKnown # route4
    BY DEF srcMac, wellKnown, route4
  <2>4. (\A l \in fresh : tables[l] # None)'
    BY <1>1, <1>2 DEF Stored
  <2>5. (\A l \in Keys : l[1] # "MUX_CABLE" => tables[l] \in Words(l))'
    BY <1>1, <1>2 DEF Stored, Words
  <2>6. (srcMac \notin fresh /\ mgr.start.vlanMac =>
           (mgr.useTorMac <=> Holds(srcMac) = "ToRMac"))'
    BY <1>1, <1>2, <2>1, <2>2 DEF Stored
  <2>7. (wellKnown \notin fresh =>
           (mgr.useWellKnownMac <=> Holds(wellKnown) \in {None, "enable"}))'
    BY <1>1, <1>2, <1>3, <2>1 DEF Stored
  <2>8. (route4 \in Keys \ fresh => tables[route4] \in {None, mgr.v4})'
    BY <1>1, <1>2 DEF Stored
  <2> QED BY <2>4, <2>5, <2>6, <2>7, <2>8, <1>2 DEF Stored, Beginning
<1>8. NothingTaken'
  BY <1>2 DEF NothingTaken, Ready, Beginning
<1>9. (\A p \in DOMAIN mgr.ports : PortOK(p, mgr.ports[p], Config(mgr)))'
  <2>1. \/ Config(n).source = Config(mgr).source
        \/ /\ DOMAIN n.ports = DOMAIN mgr.ports
           /\ \A p \in DOMAIN mgr.ports : On(n.ports[p], "SrcMacAddress")
    BY <1>4 DEF Config, SameConfig
  <2>2. \A p \in DOMAIN n.ports : PortOK(p, n.ports[p], Config(n))
    <3> HIDE DEF Config
    <3> QED BY <2>1, <1>1, <1>4, PassesOK
  <2> QED BY <2>2, <1>2
<1>10. (\A p \in Ports \cap DOMAIN mgr.ports : ToldOK(p, mgr.ports[p]))'
  BY <1>2
<1> QED BY <1>5, <1>6, <1>7, <1>8, <1>9, <1>10 DEF PortsInv

\* A notification of one port: the other ports are as they were.
LEMMA OnePortOK ==
  ASSUME PortsInv, NEW p, NEW table \in PortTables, NEW n, Takes(<<table, p>>, n),
         NEW h \in Handlers \ {"BladeIpv4Address", "SoCIpv4Address"}, Passes(mgr, n, h),
         n.useTorMac = mgr.useTorMac, n.useWellKnownMac = mgr.useWellKnownMac,
         n.v4 = mgr.v4,
         \A q \in DOMAIN mgr.ports \ {p} : n.ports[q] = mgr.ports[q],
         p \in Ports =>
           \/ Informs(p, <<table, p>>, mgr.ports[p], n.ports[p])
           \/ /\ <<table, p>> \notin TellingKeys(p)
              /\ \A g \in TellingHandlers : \A v :
                   LastIs(mgr.ports[p], g, v) => LastIs(n.ports[p], g, v)
  PROVE  PortsInv'
<1> DEFINE k == <<table, p>>
<1>1. k \notin {srcMac, wellKnown, route4, tsa}
  BY DEF PortTables, srcMac, wellKnown, route4, tsa
<1>2. /\ k \in fresh /\ k \in Keys /\ tables[k] # None
      /\ fresh' = fresh \ {k} /\ tables' = tables /\ changed' = changed
      /\ swss = "select" /\ mgr \in Manager /\ n \in Manager
      /\ Ports \subseteq DOMAIN mgr.ports
  BY DEF Takes, PortsInv, Typed, Stored, Passes, Grows, Phases, Beginning
<1>3. ASSUME NEW q \in Ports PROVE ToldOK(q, n.ports[q])'
  <2> DEFINE s == mgr.ports[q]
             t == n.ports[q]
  <2>1. /\ s \in Port /\ t \in Port /\ ToldOK(q, s)
        /\ t.cable = s.cable
    <3>1. s \in Port /\ ToldOK(q, s)
      BY <1>2, ManagerFacts DEF PortsInv
    <3>2. Gets(s, t, h)
      BY <1>2 DEF Passes
    <3>3. t \in Port /\ t.cable = s.cable
      <4>1. CASE t = s
        BY <4>1, <3>1
      <4>2. CASE t # s
        <5>1. PICK arg \in Text : t = Post(s, h, arg)
          BY <4>2, <3>2 DEF Gets
        <5>2. t \in Port
          BY <5>1, <3>1, PostFacts
        <5>3. t.cable = s.cable
          BY <5>1, <3>1 DEF Post, Port
        <5> QED BY <5>2, <5>3
      <4> QED BY <4>1, <4>2
    <3> QED BY <3>1, <3>3
  <2>2. CASE q # p
    <3>1. t = s
      BY <2>2, <1>2
    <3>2. k \notin TellingKeys(q)
      BY <2>2, <1>1 DEF TellingKeys
    <3> HIDE DEF s, t, k
    <3>3. Keeps(s, t)
      BY <3>1 DEF Keeps
    <3>4. ToldOK(q, t)'
      BY <3>2, <3>3, <2>1, <1>2, ToldStays
    <3> QED BY <3>4, <1>2 DEF t, Takes
  <2>3. CASE q = p /\ Informs(p, k, s, t)
    <3> HIDE DEF s, t, k
    <3>1. ToldOK(q, t)'
      BY <2>3, <2>1, <1>2, ToldTaken
    <3> QED BY <3>1, <1>2 DEF t, Takes
  <2>4. CASE q = p /\ k \notin TellingKeys(p)
             /\ \A g \in TellingHandlers : \A v : LastIs(s, g, v) => LastIs(t, g, v)
    <3> HIDE DEF s, t, k
    <3>1. Keeps(s, t)
      BY <2>4 DEF Keeps
    <3>2. ToldOK(q, t)'
      BY <3>1, <2>4, <2>1, <1>2, ToldStays
    <3> QED BY <3>2, <1>2 DEF t, Takes
  <2> QED BY <2>2, <2>3, <2>4
<1> QED BY <1>1, <1>2, <1>3, TakesOK

\* Posting what a key says, or something that ToldOK does not speak of.
LEMMA Posts ==
  ASSUME NEW s \in Port, NEW h \in Handlers, NEW arg \in Text, NEW p, NEW k
  PROVE  LET t == Post(s, h, arg)
         IN  /\ Tells(p, k, h, arg) => Informs(p, k, s, t)
             /\ h \notin TellingHandlers =>
                  \A g \in TellingHandlers : \A v : LastIs(s, g, v) => LastIs(t, g, v)
<1>1. TellingHandlers \subseteq Handlers
  BY DEF TellingHandlers, Handlers
<1>2. Tells(p, k, h, arg) => h \in TellingHandlers
  BY DEF Tells, TellingHandlers
<1>3. /\ LastIs(Post(s, h, arg), h, arg)
      /\ \A g, v : g # h /\ LastIs(s, g, v) => LastIs(Post(s, h, arg), g, v)
  BY PostFacts
<1> QED BY <1>1, <1>2, <1>3 DEF Informs

\* A notification of one port that is passed on, if the port exists, or after it was
\* created.
LEMMA NotifiesOne ==
  ASSUME PortsInv, NEW p \in Names, NEW table \in PortTables, NEW n,
         Takes(<<table, p>>, n),
         NEW h \in Handlers \ {"BladeIpv4Address", "SoCIpv4Address"}, NEW arg \in Text,
         \/ n = mgr /\ p \notin Ports
         \/ p \in DOMAIN mgr.ports /\ n = [mgr EXCEPT !.ports[p] = Post(@, h, arg)]
         \/ n = Created(mgr, p, h, arg),
         \/ Tells(p, <<table, p>>, h, arg)
         \/ <<table, p>> \notin TellingKeys(p) /\ h \notin TellingHandlers
  PROVE  PortsInv'
<1>1. IsManager(mgr) /\ Ports \subseteq DOMAIN mgr.ports
  BY DEF Takes, PortsInv, Typed, Phases, Beginning, IsManager
<1>2. CASE n = mgr /\ p \notin Ports
  <2>1. Passes(mgr, mgr, h)
    BY <1>1 DEF Passes, IsManager, Grows, SameConfig, Gets
  <2>2. \A q \in DOMAIN mgr.ports \ {p} : n.ports[q] = mgr.ports[q]
    BY <1>2
  <2> QED BY <1>2, <2>1, <2>2, OnePortOK
<1>3. ASSUME \/ p \in DOMAIN mgr.ports /\ n = [mgr EXCEPT !.ports[p] = Post(@, h, arg)]
             \/ n = Created(mgr, p, h, arg)
      PROVE  PortsInv'
  <2>1. /\ Passes(mgr, n, h)
        /\ p \in DOMAIN mgr.ports => n.ports[p] = Post(mgr.ports[p], h, arg)
        /\ \A q \in DOMAIN mgr.ports \ {p} : n.ports[q] = mgr.ports[q]
        /\ n.useTorMac = mgr.useTorMac /\ n.useWellKnownMac = mgr.useWellKnownMac
        /\ n.v4 = mgr.v4
    <3>1. CASE p \in DOMAIN mgr.ports /\ n = [mgr EXCEPT !.ports[p] = Post(@, h, arg)]
      BY <3>1, <1>1, PassesOne
    <3>2. CASE n = Created(mgr, p, h, arg)
      <4> DEFINE d == Created(mgr, p, h, arg)
      <4>1. /\ Passes(mgr, d, h)
            /\ p \in DOMAIN mgr.ports => d.ports[p] = Post(mgr.ports[p], h, arg)
            /\ \A q \in DOMAIN mgr.ports \ {p} : d.ports[q] = mgr.ports[q]
            /\ d.useTorMac = mgr.useTorMac /\ d.useWellKnownMac = mgr.useWellKnownMac
            /\ d.v4 = mgr.v4
        BY <1>1, PassesNew
      <4> QED BY <3>2, <4>1
    <3> QED BY <1>3, <3>1, <3>2
  <2>2. ASSUME p \in Ports
        PROVE  \/ Informs(p, <<table, p>>, mgr.ports[p], n.ports[p])
               \/ /\ <<table, p>> \notin TellingKeys(p)
                  /\ \A g \in TellingHandlers : \A v :
                       LastIs(mgr.ports[p], g, v) => LastIs(n.ports[p], g, v)
    <3>1. mgr.ports[p] \in Port
      BY <2>2, <1>1, ManagerFacts DEF IsManager
    <3> QED BY <3>1, <2>1, <2>2, <1>1, Posts
  <2> QED BY <2>1, <2>2, OnePortOK
<1> QED BY <1>2, <1>3

-----------------------------------------------------------------------------
(* The notifications of one port *)

\* Every notification that concerns one port keeps the invariant.
LEMMA NotificationOfOne ==
  ASSUME PortsInv, NEW p \in Names,
         \/ processMuxPortConfigNotifiction(p) \/ processPckLossDataReset(p)
         \/ processLinkStateNotifiction(p) \/ processPeerLinkStateNotification(p)
         \/ processMuxStateNotifiction(p) \/ processMuxResponseNotifiction(p)
         \/ processForwardingResponseNotification(p) \/ processPeerMuxNotification(p)
         \/ processIcmpEchoSessionStateNotification(p) \/ updateServerMacAddress(p)
  PROVE  PortsInv'
<1>1. /\ IsManager(mgr)
      /\ swss = "select" => Ports \subseteq DOMAIN mgr.ports
      /\ \A k \in fresh : k \in Keys /\ tables[k] \in Text
  BY DEF PortsInv, Typed, Phases, Beginning, IsManager
<1> DEFINE fits(table, h, arg, n) ==
      /\ Takes(<<table, p>>, n)
      /\ \/ n = mgr /\ p \notin Ports
         \/ p \in DOMAIN mgr.ports /\ n = [mgr EXCEPT !.ports[p] = Post(@, h, arg)]
         \/ n = Created(mgr, p, h, arg)
      /\ \/ Tells(p, <<table, p>>, h, arg)
         \/ <<table, p>> \notin TellingKeys(p) /\ h \notin TellingHandlers
<1>2. ASSUME NEW table \in PortTables, NEW n, NEW arg \in Text,
             NEW h \in Handlers \ {"BladeIpv4Address", "SoCIpv4Address", "MuxConfig"},
             fits(table, h, arg, n)
      PROVE  PortsInv'
  BY <1>2, NotifiesOne
<1>3. ASSUME NEW k, NEW n, Takes(k, n)
      PROVE  swss = "select" /\ k \in fresh /\ k \in Keys /\ tables[k] \in Text
  BY <1>1, <1>3 DEF Takes
<1>4. CASE processLinkStateNotifiction(p)
  <2> DEFINE word == tables[<<"PORT_TABLE", p>>]
             n == addOrUpdateMuxPortLinkState(mgr, p, word)
  <2>1. Takes(<<"PORT_TABLE", p>>, n)
    BY <1>4 DEF processLinkStateNotifiction, TakesUp
  <2>2. LinkLabel(word) \in Text
    BY <2>1, <1>3, LabelsAreText
  <2>3. n = Created(mgr, p, "LinkState", LinkLabel(word))
    BY DEF addOrUpdateMuxPortLinkState, handleLinkState, Created
  <2>4. Tells(p, <<"PORT_TABLE", p>>, "LinkState", LinkLabel(word))
    BY DEF Tells
  <2>5. "PORT_TABLE" \in PortTables
        /\ "LinkState" \in Handlers \ {"BladeIpv4Address", "SoCIpv4Address", "MuxConfig"}
    BY DEF PortTables, Handlers
  <2> HIDE DEF n
  <2> QED BY <2>1, <2>2, <2>3, <2>4, <2>5, <1>2
<1>5. CASE processPeerLinkStateNotification(p)
  <2> DEFINE word == tables[<<"MUX_CABLE_INFO", p>>]
             n == addOrUpdatePeerLinkState(mgr, p, word)
  <2>1. Takes(<<"MUX_CABLE_INFO", p>>, n)
    BY <1>5 DEF processPeerLinkStateNotification, TakesUp
  <2>2. PeerLinkLabel(word) \in Text
    BY <2>1, <1>3, LabelsAreText
  <2>3. n = Created(mgr, p, "PeerLinkState", PeerLinkLabel(word))
    BY DEF addOrUpdatePeerLinkState, handlePeerLinkState, Created
  <2>4. Tells(p, <<"MUX_CABLE_INFO", p>>, "PeerLinkState", PeerLinkLabel(word))
    BY DEF Tells
  <2>5. "MUX_CABLE_INFO" \in PortTables
        /\ "PeerLinkState" \in Handlers \ {"BladeIpv4Address", "SoCIpv4Address", "MuxConfig"}
    BY DEF PortTables, Handlers
  <2> HIDE DEF n
  <2> QED BY <2>1, <2>2, <2>3, <2>4, <2>5, <1>2
<1>6. CASE processMuxStateNotifiction(p)
  <2> DEFINE word == tables[<<"MUX_CABLE_TABLE", p>>]
             n == addOrUpdateMuxPortMuxState(mgr, p, word)
  <2>1. Takes(<<"MUX_CABLE_TABLE", p>>, n)
    BY <1>6 DEF processMuxStateNotifiction, TakesUp
  <2>2. MuxLabel(word) \in Text
    BY <2>1, <1>3, LabelsAreText
  <2>3. n = Created(mgr, p, "MuxState", MuxLabel(word))
    BY DEF addOrUpdateMuxPortMuxState, handleMuxState, Created
  <2>4. Tells(p, <<"MUX_CABLE_TABLE", p>>, "MuxState", MuxLabel(word))
    BY DEF Tells
  <2>5. "MUX_CABLE_TABLE" \in PortTables
        /\ "MuxState" \in Handlers \ {"BladeIpv4Address", "SoCIpv4Address", "MuxConfig"}
    BY DEF PortTables, Handlers
  <2> HIDE DEF n
  <2> QED BY <2>1, <2>2, <2>3, <2>4, <2>5, <1>2
<1>7. CASE processPckLossDataReset(p)
  <2> DEFINE word == tables[<<"PCK_LOSS_DATA_RESET", p>>]
             n == resetPckLossCount(mgr, p)
  <2>1. Takes(<<"PCK_LOSS_DATA_RESET", p>>, n)
    BY <1>7 DEF processPckLossDataReset, TakesUp
  <2>2. "" \in Text
    BY <2>1, <1>3, LabelsAreText
  <2>3. \/ n = mgr /\ p \notin Ports
        \/ p \in DOMAIN mgr.ports
           /\ n = [mgr EXCEPT !.ports[p] = Post(@, "ResetPckLossCount", "")]
    BY <2>1, <1>1, <1>3 DEF resetPckLossCount, handleResetLinkProberPckLossCount
  <2>4. <<"PCK_LOSS_DATA_RESET", p>> \notin TellingKeys(p) /\ "ResetPckLossCount" \notin TellingHandlers
    BY DEF TellingKeys, TellingHandlers, route4, tsa
  <2>5. "PCK_LOSS_DATA_RESET" \in PortTables
        /\ "ResetPckLossCount" \in Handlers \ {"BladeIpv4Address", "SoCIpv4Address", "MuxConfig"}
    BY DEF PortTables, Handlers
  <2> HIDE DEF n
  <2> QED BY <2>1, <2>2, <2>3, <2>4, <2>5, <1>2
<1>8. CASE processPeerMuxNotification(p)
  <2> DEFINE word == tables[<<"HW_MUX_CABLE_TABLE_PEER", p>>]
             n == processPeerMuxState(mgr, p, word)
  <2>1. Takes(<<"HW_MUX_CABLE_TABLE_PEER", p>>, n)
    BY <1>8 DEF processPeerMuxNotification, TakesUp
  <2>2. MuxLabel(word) \in Text
    BY <2>1, <1>3, LabelsAreText
  <2>3. \/ n = mgr /\ p \notin Ports
        \/ p \in DOMAIN mgr.ports
           /\ n = [mgr EXCEPT !.ports[p] = Post(@, "PeerMuxState", MuxLabel(word))]
    BY <2>1, <1>1, <1>3 DEF processPeerMuxState, handlePeerMuxState
  <2>4. Tells(p, <<"HW_MUX_CABLE_TABLE_PEER", p>>, "PeerMuxState", MuxLabel(word))
    BY DEF Tells
  <2>5. "HW_MUX_CABLE_TABLE_PEER" \in PortTables
        /\ "PeerMuxState" \in Handlers \ {"BladeIpv4Address", "SoCIpv4Address", "MuxConfig"}
    BY DEF PortTables, Handlers
  <2> HIDE DEF n
  <2> QED BY <2>1, <2>2, <2>3, <2>4, <2>5, <1>2
<1>9. ASSUME NEW table \in {"MUX_CABLE_RESPONSE", "FORWARDING_STATE_RESPONSE"},
              Takes(<<table, p>>, processProbeMuxState(mgr, p, tables[<<table, p>>]))
       PROVE  PortsInv'
  <2> DEFINE word == tables[<<table, p>>]
             n == processProbeMuxState(mgr, p, word)
  <2>1. \E h \in {"ProbeMuxFailure", "ProbeMuxState"}, arg \in Text :
          \/ n = mgr /\ p \notin Ports
          \/ p \in DOMAIN mgr.ports
             /\ n = [mgr EXCEPT !.ports[p] = Post(@, h, arg)]
    <3>1. word \in Text /\ Ports \subseteq DOMAIN mgr.ports
      BY <1>9, <1>1, <1>3
    <3>2. "failure" \in Text /\ "Unknown" \in Text /\ MuxLabel(word) \in Text
      BY <3>1, LabelsAreText DEF Text
    <3>3. CASE p \notin DOMAIN mgr.ports
      BY <3>1, <3>2, <3>3 DEF processProbeMuxState
    <3>4. CASE p \in DOMAIN mgr.ports /\ word = "failure"
               /\ mgr.ports[p].cable = "active-active"
      <4>1. n = [mgr EXCEPT !.ports[p] = Post(@, "ProbeMuxFailure", "failure")]
        BY <3>4 DEF processProbeMuxState, handleProbeMuxState
      <4> HIDE DEF n
      <4> QED BY <3>2, <3>4, <4>1
    <3>5. CASE p \in DOMAIN mgr.ports
               /\ ~(word = "failure" /\ mgr.ports[p].cable = "active-active")
      <4> DEFINE arg == IF word = "error" THEN "Unknown" ELSE MuxLabel(word)
      <4>1. n = [mgr EXCEPT !.ports[p] = Post(@, "ProbeMuxState", arg)]
        BY <3>5 DEF processProbeMuxState, handleProbeMuxState
      <4>2. arg \in Text
        BY <3>2
      <4> HIDE DEF n, arg
      <4> QED BY <3>5, <4>1, <4>2
    <3> QED BY <3>3, <3>4, <3>5
  <2> HIDE DEF n
  <2>2. PICK h \in {"ProbeMuxFailure", "ProbeMuxState"}, arg \in Text :
          \/ n = mgr /\ p \notin Ports
          \/ p \in DOMAIN mgr.ports
             /\ n = [mgr EXCEPT !.ports[p] = Post(@, h, arg)]
    BY <2>1
  <2>3. /\ table \in PortTables
        /\ h \in Handlers \ {"BladeIpv4Address", "SoCIpv4Address", "MuxConfig"}
        /\ <<table, p>> \notin TellingKeys(p) /\ h \notin TellingHandlers
    BY DEF PortTables, Handlers, TellingKeys, TellingHandlers, route4, tsa
  <2>4. Takes(<<table, p>>, n)
    BY <1>9 DEF n
  <2> QED BY <2>2, <2>3, <2>4, <1>2
<1>10. CASE processMuxResponseNotifiction(p)
  BY <1>10, <1>9 DEF processMuxResponseNotifiction, TakesUp
<1>11. ASSUME Takes(<<"FORWARDING_STATE_RESPONSE_PEER", p>>,
                     processPeerMuxState(mgr, p,
                       tables[<<"FORWARDING_STATE_RESPONSE_PEER", p>>]))
       PROVE  PortsInv'
  <2> DEFINE word == tables[<<"FORWARDING_STATE_RESPONSE_PEER", p>>]
             n == processPeerMuxState(mgr, p, word)
  <2>1. Takes(<<"FORWARDING_STATE_RESPONSE_PEER", p>>, n)
    BY <1>11
  <2>2. MuxLabel(word) \in Text
    BY <2>1, <1>3, LabelsAreText
  <2>3. \/ n = mgr /\ p \notin Ports
        \/ p \in DOMAIN mgr.ports
           /\ n = [mgr EXCEPT !.ports[p] = Post(@, "PeerMuxState", MuxLabel(word))]
    BY <2>1, <1>1, <1>3 DEF processPeerMuxState, handlePeerMuxState
  <2>4. Tells(p, <<"FORWARDING_STATE_RESPONSE_PEER", p>>, "PeerMuxState", MuxLabel(word))
    BY DEF Tells
  <2>5. "FORWARDING_STATE_RESPONSE_PEER" \in PortTables
        /\ "PeerMuxState" \in Handlers \ {"BladeIpv4Address", "SoCIpv4Address", "MuxConfig"}
    BY DEF PortTables, Handlers
  <2> HIDE DEF n
  <2> QED BY <2>1, <2>2, <2>3, <2>4, <2>5, <1>2
<1>12. CASE processForwardingResponseNotification(p)
  BY <1>12, <1>9, <1>11 DEF processForwardingResponseNotification, TakesUp
<1>13. CASE updateServerMacAddress(p)
  <2> DEFINE word == tables[<<"NEIGH", p>>]
             n == IF p \in Ports THEN processGetServerMacAddress(mgr, p, word) ELSE mgr
  <2>1. Takes(<<"NEIGH", p>>, n)
    BY <1>13 DEF updateServerMacAddress, TakesUp
  <2>2. word \in Text
    BY <2>1, <1>3
  <2>3. \/ n = mgr /\ p \notin Ports
        \/ p \in DOMAIN mgr.ports
           /\ n = [mgr EXCEPT !.ports[p] = Post(@, "GetServerMacAddress", word)]
    BY <2>1, <1>1, <1>3 DEF processGetServerMacAddress, handleGetServerMacAddress
  <2>4. Tells(p, <<"NEIGH", p>>, "GetServerMacAddress", word)
    BY DEF Tells
  <2>5. "NEIGH" \in PortTables
        /\ "GetServerMacAddress" \in Handlers \ {"BladeIpv4Address", "SoCIpv4Address", "MuxConfig"}
    BY DEF PortTables, Handlers
  <2> HIDE DEF n
  <2> QED BY <2>1, <2>2, <2>3, <2>4, <2>5, <1>2
<1>14. CASE processIcmpEchoSessionStateNotification(p)
  <2> DEFINE k == <<"ICMP_ECHO_SESSION_TABLE", p>>
             c == getMuxPortPtrOrThrow(mgr, {p})
             n == updateLinkFailureDetectionState(mgr, p, tables[k])
             h == "LinkFailureDetection"
  <2>1. Takes(k, n)
    BY <1>14 DEF processIcmpEchoSessionStateNotification, TakesUp
  <2>2. /\ "ICMP_ECHO_SESSION_TABLE" \in PortTables
        /\ h \in Handlers \ {"BladeIpv4Address", "SoCIpv4Address", "MuxConfig"}
        /\ k \notin TellingKeys(p) /\ h \notin TellingHandlers
    BY DEF PortTables, Handlers, TellingKeys, TellingHandlers, route4, tsa
  <2>3. tables[k] \in Text /\ Ports \subseteq DOMAIN mgr.ports
    BY <2>1, <1>1, <1>3
  <2>4. CASE c.cables[p] = "active-active"
    <3>1. n = Created(mgr, p, h, tables[k])
      BY <2>4 DEF updateLinkFailureDetectionState, LinkFailureDetectionState, Created
    <3> HIDE DEF n, k, h
    <3> QED BY <2>1, <2>2, <2>3, <3>1, <1>2 DEF k
  <2>5. CASE c.cables[p] # "active-active"
    <3>1. n = c
      BY <2>5 DEF updateLinkFailureDetectionState
    <3>2. IsFiniteSet({p}) /\ {p} \in SUBSET Names
      BY FS_Singleton
    <3>3. /\ Grows(mgr, c) /\ SameConfig(mgr, c)
          /\ DOMAIN c.ports = DOMAIN mgr.ports \cup {p}
          /\ \A q \in DOMAIN mgr.ports : c.ports[q] = mgr.ports[q]
          /\ \A q \in {p} \ DOMAIN mgr.ports :
               c.ports[q] = NewPort(c.cables[q], mgr.useWellKnownMac)
          /\ c.useTorMac = mgr.useTorMac /\ c.useWellKnownMac = mgr.useWellKnownMac
          /\ c.v4 = mgr.v4
      BY <3>2, <1>1, CreateFacts
    <3> HIDE DEF n, c, k, h
    <3>4. Passes(mgr, n, h)
      BY <3>1, <3>3 DEF Passes, Gets
    <3>5. p \in Ports => \A g \in TellingHandlers : \A v :
                           LastIs(mgr.ports[p], g, v) => LastIs(n.ports[p], g, v)
      BY <2>3, <3>1, <3>3
    <3> QED BY <2>1, <2>2, <3>1, <3>3, <3>4, <3>5, OnePortOK DEF k
  <2> QED BY <2>4, <2>5
<1>15. CASE processMuxPortConfigNotifiction(p)
  <2> DEFINE k == <<"MUX_CABLE", p>>
             n == updateMuxPortConfig(mgr, p, tables[k])
             h == "MuxConfig"
             label == ModeLabel(tables[k])
  <2>1. Takes(k, n)
    BY <1>15 DEF processMuxPortConfigNotifiction, TakesUp
  <2>2. label \in Text /\ Ports \subseteq DOMAIN mgr.ports
    BY <2>1, <1>1, <1>3, LabelsAreText
  <2>3. /\ "MUX_CABLE" \in PortTables
        /\ h \in Handlers \ {"BladeIpv4Address", "SoCIpv4Address"}
        /\ Tells(p, k, h, label)
    BY DEF PortTables, Handlers, Tells
  <2>4. CASE p \notin DOMAIN mgr.ports
    <3>1. n = mgr /\ p \notin Ports
      BY <2>2, <2>4 DEF updateMuxPortConfig
    <3> HIDE DEF n, k, h, label
    <3> QED BY <2>1, <2>2, <2>3, <2>4, <3>1, NotifiesOne DEF k
  <2>5. CASE p \in DOMAIN mgr.ports /\ Understood(mgr.ports[p], tables[k])
    <3>1. n = [mgr EXCEPT !.ports[p] = Post(@, h, label)]
      BY <2>5 DEF updateMuxPortConfig, handleMuxConfig
    <3> HIDE DEF n, k, h, label
    <3> QED BY <2>1, <2>2, <2>3, <2>5, <3>1, NotifiesOne DEF k
  <2>6. CASE p \in DOMAIN mgr.ports /\ ~Understood(mgr.ports[p], tables[k])
    <3>1. mgr.ports = [q \in DOMAIN mgr.ports |-> mgr.ports[q]] /\ mgr \in Manager
      BY <1>1, ManagerFacts DEF IsManager
    <3>2. n = [mgr EXCEPT !.ports[p] = mgr.ports[p]]
      BY <2>6 DEF updateMuxPortConfig, handleMuxConfig
    <3>3. n = mgr
      BY <2>6, <3>1, <3>2 DEF Manager
    <3>4. Passes(mgr, n, h)
      BY <1>1, <3>3 DEF Passes, IsManager, Grows, SameConfig, Gets
    <3>5. Informs(p, k, mgr.ports[p], n.ports[p])
      BY <2>6, <3>3 DEF Informs
    <3> HIDE DEF n, k, h
    <3> QED BY <2>1, <2>3, <3>3, <3>4, <3>5, OnePortOK DEF k
  <2> QED BY <2>4, <2>5, <2>6
<1> QED BY <1>4, <1>5, <1>6, <1>7, <1>8, <1>10, <1>12, <1>13, <1>14, <1>15

-----------------------------------------------------------------------------
(* The notifications of every port *)

\* A handler was posted to every port, or to none, after members were stored.
LEMMA AllPortsOK ==
  ASSUME PortsInv, NEW k, NEW m, NEW f, NEW n, Takes(k, n), n = [m EXCEPT !.ports = f],
         NEW h \in Handlers \ {"BladeIpv4Address", "SoCIpv4Address"},
         m \in Manager, m.ports = mgr.ports, m.cables = mgr.cables, SameConfig(mgr, m),
         f = [p \in DOMAIN mgr.ports |-> f[p]],
         \A p \in DOMAIN mgr.ports : Gets(mgr.ports[p], f[p], h),
         m.useTorMac = (IF k = srcMac THEN tables[k] = "ToRMac" ELSE mgr.useTorMac),
         \/ m.useTorMac = mgr.useTorMac
         \/ \A p \in DOMAIN mgr.ports : On(f[p], "SrcMacAddress"),
         m.useWellKnownMac =
           (IF k = wellKnown THEN tables[k] = "enable" ELSE mgr.useWellKnownMac),
         \/ m.useWellKnownMac = mgr.useWellKnownMac
         \/ \A p \in DOMAIN mgr.ports : On(f[p], "UseWellKnownMacAddress"),
         m.v4 = (IF k = route4 THEN tables[k] ELSE mgr.v4),
         \A p \in Ports : ToldOK(p, f[p])'
  PROVE  PortsInv'
<1>1. IsManager(mgr) /\ IsManager(m)
  BY DEF PortsInv, Typed, Phases, IsManager
<1>2. /\ Passes(m, n, h)
      /\ n.ports = f /\ DOMAIN n.ports = DOMAIN mgr.ports
      /\ n.useTorMac = m.useTorMac /\ n.useWellKnownMac = m.useWellKnownMac
      /\ n.v4 = m.v4
  BY <1>1, PassesExcept
<1>3. Passes(mgr, n, h)
  BY <1>2 DEF Passes, Grows, SameConfig
<1>5. \A p \in Ports : ToldOK(p, n.ports[p])'
  BY <1>2
<1>6. /\ n.useTorMac = (IF k = srcMac THEN tables[k] = "ToRMac" ELSE mgr.useTorMac)
      /\ n.useWellKnownMac =
           (IF k = wellKnown THEN tables[k] = "enable" ELSE mgr.useWellKnownMac)
      /\ n.v4 = (IF k = route4 THEN tables[k] ELSE mgr.v4)
  BY <1>2
<1>7. /\ \/ n.useTorMac = mgr.useTorMac
         \/ /\ DOMAIN n.ports = DOMAIN mgr.ports
            /\ \A p \in DOMAIN mgr.ports : On(n.ports[p], "SrcMacAddress")
      /\ \/ n.useWellKnownMac = mgr.useWellKnownMac
         \/ /\ DOMAIN n.ports = DOMAIN mgr.ports
            /\ \A p \in DOMAIN mgr.ports : On(n.ports[p], "UseWellKnownMacAddress")
  BY <1>2
<1> QED BY <1>3, <1>5, <1>6, <1>7, TakesOK

\* A route state that is taken up stays told where its handler is posted.
LEMMA ToldRoute ==
  ASSUME NEW p, NEW s \in Port, NEW t \in Port, ToldOK(p, s), t.cable = s.cable,
         \A g \in TellingHandlers \ {"DefaultRouteState"} : \A v :
           LastIs(s, g, v) => LastIs(t, g, v),
         Taken(route4) =>
           \E label : IsRoute(label) /\ LastIs(t, "DefaultRouteState", label),
         tables' = tables, changed' = changed, fresh' = fresh \ {<<"ROUTE_TABLE", "::/0">>}
  PROVE  ToldOK(p, t)'
<1> DEFINE k == <<"ROUTE_TABLE", "::/0">>
           neigh == <<"NEIGH", p>>
           config == <<"MUX_CABLE", p>>
<1>1. k \notin TellingKeys(p)
  BY DEF TellingKeys, route4, tsa
<1>2. \A l \in TellingKeys(p) : /\ l \in fresh' <=> l \in fresh
                                /\ Taken(l)' <=> Taken(l)
                                /\ Holds(l)' = Holds(l)
  BY <1>1 DEF Taken, Holds
<1>3. TellingKeys(p) = {<<"PORT_TABLE", p>>, <<"MUX_CABLE_TABLE", p>>,
        <<"MUX_CABLE_INFO", p>>, <<"HW_MUX_CABLE_TABLE_PEER", p>>,
        <<"FORWARDING_STATE_RESPONSE_PEER", p>>, <<"NEIGH", p>>, <<"MUX_CABLE", p>>,
        route4, tsa}
  BY DEF TellingKeys
<1>4. Understood(t, tables[config]) <=> Understood(s, tables[config])
  BY DEF Understood
<1>5. \A label : IsRoute(label)' <=> IsRoute(label)
  BY DEF IsRoute
<1> HIDE DEF neigh, config
<1> QED BY <1>2, <1>3, <1>4, <1>5 DEF ToldOK, TellingHandlers, neigh, config

\* What is told a port when h is posted to it, for a key of all ports.
LEMMA ToldAll ==
  ASSUME PortsInv, NEW k, NEW n, Takes(k, n), NEW p \in Ports,
         NEW h \in Handlers, NEW arg \in Text, NEW s, NEW t,
         s = mgr.ports[p], t = Post(s, h, arg),
         \/ Tells(p, k, h, arg)
         \/ k \notin TellingKeys(p) /\ h \notin TellingHandlers
  PROVE  ToldOK(p, t)'
<1>1. /\ k \in Keys /\ tables[k] # None
      /\ tables' = tables /\ changed' = changed /\ fresh' = fresh \ {k}
      /\ s \in Port /\ ToldOK(p, s)
  BY ManagerFacts DEF Takes, PortsInv, Typed, Stored, Phases, Beginning
<1>2. t \in Port /\ t.cable = s.cable
  BY <1>1, PostFacts DEF Post, Port
<1>3. /\ Tells(p, k, h, arg) => Informs(p, k, s, t)
      /\ h \notin TellingHandlers =>
           \A g \in TellingHandlers : \A v : LastIs(s, g, v) => LastIs(t, g, v)
  BY <1>1, Posts
<1>4. CASE Tells(p, k, h, arg)
  BY <1>1, <1>2, <1>3, <1>4, ToldTaken
<1>5. CASE k \notin TellingKeys(p) /\ h \notin TellingHandlers
  BY <1>1, <1>2, <1>3, <1>5, ToldStays DEF Keeps
<1> QED BY <1>4, <1>5

\* What a notification of every port finds.
LEMMA TakesFacts ==
  ASSUME PortsInv, NEW k, NEW n, Takes(k, n)
  PROVE  /\ mgr \in Manager /\ k \in Keys /\ tables[k] \in Text /\ tables[k] # None
         /\ Ports \subseteq DOMAIN mgr.ports
         /\ \A p \in DOMAIN mgr.ports : mgr.ports[p] \in Port
         /\ mgr.ports = [p \in DOMAIN mgr.ports |-> mgr.ports[p]]
         /\ \/ mgr.defaultRouteFeature = DefaultRouteFeature
            \/ mgr.defaultRouteFeature = FALSE /\ changed = {}
         /\ tables' = tables /\ changed' = changed /\ fresh' = fresh \ {k}
<1>1. \/ mgr.defaultRouteFeature = DefaultRouteFeature
      \/ mgr.defaultRouteFeature = FALSE /\ changed = {}
  <2>1. /\ mgr.defaultRouteFeature = (main \in {"run", "exit"} /\ DefaultRouteFeature)
        /\ main \notin {"run", "exit"} => changed = {}
    BY DEF PortsInv, Phases
  <2>2. DefaultRouteFeature \in BOOLEAN
    BY LinkmgrdAssumption
  <2>3. CASE main \in {"run", "exit"}
    BY <2>1, <2>2, <2>3, Zenon
  <2>4. CASE main \notin {"run", "exit"}
    BY <2>1, <2>4, Zenon
  <2> QED BY <2>3, <2>4
<1>2. /\ mgr \in Manager /\ k \in Keys /\ tables[k] \in Text /\ tables[k] # None
      /\ Ports \subseteq DOMAIN mgr.ports
      /\ tables' = tables /\ changed' = changed /\ fresh' = fresh \ {k}
  BY DEF Takes, PortsInv, Typed, Stored, Phases, Beginning
<1>3. /\ \A p \in DOMAIN mgr.ports : mgr.ports[p] \in Port
      /\ mgr.ports = [p \in DOMAIN mgr.ports |-> mgr.ports[p]]
  BY <1>2, ManagerFacts
<1> QED BY <1>1, <1>2, <1>3

\* h is posted to every port with the same argument.
LEMMA ToEvery ==
  ASSUME PortsInv, NEW k, NEW m, NEW n, Takes(k, n),
         NEW h \in Handlers \ {"BladeIpv4Address", "SoCIpv4Address"}, NEW arg \in Text,
         m \in Manager, m.ports = mgr.ports, m.cables = mgr.cables, SameConfig(mgr, m),
         n = [m EXCEPT !.ports = [p \in DOMAIN m.ports |-> Post(m.ports[p], h, arg)]],
         m.useTorMac = (IF k = srcMac THEN tables[k] = "ToRMac" ELSE mgr.useTorMac),
         m.useTorMac = mgr.useTorMac \/ h = "SrcMacAddress",
         m.useWellKnownMac =
           (IF k = wellKnown THEN tables[k] = "enable" ELSE mgr.useWellKnownMac),
         m.useWellKnownMac = mgr.useWellKnownMac \/ h = "UseWellKnownMacAddress",
         m.v4 = (IF k = route4 THEN tables[k] ELSE mgr.v4),
         \/ \A p \in Ports : Tells(p, k, h, arg)
         \/ (\A p \in Ports : k \notin TellingKeys(p)) /\ h \notin TellingHandlers
         \/ /\ k = <<"ROUTE_TABLE", "::/0">> /\ h = "DefaultRouteState"
            /\ Taken(route4) => IsRoute(arg)
  PROVE  PortsInv'
<1> DEFINE f == [p \in DOMAIN mgr.ports |-> Post(mgr.ports[p], h, arg)]
<1>1. /\ mgr \in Manager /\ Ports \subseteq DOMAIN mgr.ports
      /\ \A p \in DOMAIN mgr.ports : mgr.ports[p] \in Port
      /\ tables' = tables /\ changed' = changed /\ fresh' = fresh \ {k}
  BY TakesFacts
<1>2. f = [p \in DOMAIN mgr.ports |-> f[p]]
  OBVIOUS
<1>3. \A p \in DOMAIN mgr.ports : f[p] = Post(mgr.ports[p], h, arg)
  OBVIOUS
<1>4. n = [m EXCEPT !.ports = f]
  OBVIOUS
<1> HIDE DEF f
<1>5. \A p \in DOMAIN mgr.ports : Gets(mgr.ports[p], f[p], h) /\ On(f[p], h)
  BY <1>1, <1>3, PostFacts DEF Gets
<1>6. \E g : g = f
  OBVIOUS
<1>7. PICK g : g = f
  BY <1>6
<1>8. ASSUME NEW p \in Ports PROVE ToldOK(p, g[p])'
  <2>1. \E s, t : s = mgr.ports[p] /\ t = g[p]
    OBVIOUS
  <2>2. PICK s, t : s = mgr.ports[p] /\ t = g[p]
    BY <2>1
  <2>3. t = Post(s, h, arg) /\ s \in Port /\ ToldOK(p, s)
    BY <2>2, <1>1, <1>3, <1>7 DEF PortsInv
  <2>4. CASE \/ \A q \in Ports : Tells(q, k, h, arg)
             \/ (\A q \in Ports : k \notin TellingKeys(q)) /\ h \notin TellingHandlers
    BY <2>2, <2>3, <2>4, ToldAll
  <2>5. CASE /\ k = <<"ROUTE_TABLE", "::/0">> /\ h = "DefaultRouteState"
             /\ Taken(route4) => IsRoute(arg)
    <3>1. t \in Port /\ t.cable = s.cable
      BY <2>3, PostFacts DEF Post, Port
    <3>2. /\ LastIs(t, h, arg)
          /\ \A l \in TellingHandlers \ {"DefaultRouteState"} : \A v :
               LastIs(s, l, v) => LastIs(t, l, v)
      BY <2>3, <2>5, PostFacts
    <3>3. ToldOK(p, t)'
      BY <3>1, <3>2, <2>3, <2>5, <1>1, ToldRoute
    <3> QED BY <3>3, <2>2
  <2> QED BY <2>4, <2>5
<1>9. /\ g = [p \in DOMAIN mgr.ports |-> g[p]] /\ n = [m EXCEPT !.ports = g]
      /\ \A p \in DOMAIN mgr.ports : Gets(mgr.ports[p], g[p], h) /\ On(g[p], h)
  BY <1>2, <1>4, <1>5, <1>7
<1> QED BY <1>8, <1>9, AllPortsOK

RouteStored(m, isV4, word) ==
  IF isV4 THEN [m EXCEPT !.v4 = word] ELSE [m EXCEPT !.v6 = word]

RouteLabelOf(m) == RouteLabel(IF m.v4 = "ok" THEN "ok" ELSE "na", m.defaultRouteFeature)

\* A route report is stored and posted to every port that exists.
LEMMA RouteFacts ==
  ASSUME NEW m, NEW isV4, NEW word
  PROVE  LET c == RouteStored(m, isV4, word)
         IN  addOrUpdateDefaultRouteState(m, isV4, word) =
               [c EXCEPT !.ports = [p \in DOMAIN c.ports |->
                           Post(c.ports[p], "DefaultRouteState", RouteLabelOf(c))]]
<1> DEFINE all(c) == [c EXCEPT !.ports = [p \in DOMAIN c.ports |->
                        Post(c.ports[p], "DefaultRouteState", RouteLabelOf(c))]]
<1>1. addOrUpdateDefaultRouteState(m, isV4, word) =
        all(IF isV4 THEN [m EXCEPT !.v4 = word] ELSE [m EXCEPT !.v6 = word])
  BY Zenon DEF addOrUpdateDefaultRouteState, handleDefaultRouteState, RouteLabelOf
<1> HIDE DEF all
<1>2. addOrUpdateDefaultRouteState(m, isV4, word) = all(RouteStored(m, isV4, word))
  BY <1>1, Zenon DEF RouteStored
<1> QED BY <1>2, Zenon DEF all

\* A handler that ToldOK does not speak of was posted to some ports, or to none.
LEMMA ToSome ==
  ASSUME PortsInv, NEW k, NEW n, Takes(k, n), \A p \in Ports : k \notin TellingKeys(p),
         k \notin {wellKnown, route4},
         n \in Manager, n.cables = mgr.cables, SameConfig(mgr, n),
         DOMAIN n.ports = DOMAIN mgr.ports,
         \A p \in DOMAIN mgr.ports : Gets(mgr.ports[p], n.ports[p], "ResetSuspendTimer"),
         n.useWellKnownMac = mgr.useWellKnownMac, n.v4 = mgr.v4,
         n.useTorMac = mgr.useTorMac,
         k = srcMac => n.useTorMac = (tables[k] = "ToRMac")
  PROVE  PortsInv'
<1> DEFINE h == "ResetSuspendTimer"
<1>1. /\ Ports \subseteq DOMAIN mgr.ports /\ n = mgr'
      /\ \A p \in DOMAIN mgr.ports : mgr.ports[p] \in Port
      /\ \A p \in Ports : ToldOK(p, mgr.ports[p])
      /\ tables' = tables /\ changed' = changed /\ fresh' = fresh \ {k}
  BY TakesFacts DEF PortsInv, Takes
<1>2. /\ h \in Handlers \ {"BladeIpv4Address", "SoCIpv4Address"} /\ h # "MuxConfig"
      /\ h \notin TellingHandlers
  BY DEF Handlers, TellingHandlers
<1>3. Passes(mgr, n, h)
  BY DEF Passes, Grows, PortsInv, Phases
<1>4. ASSUME NEW p \in Ports PROVE ToldOK(p, n.ports[p])'
  <2>1. \E s, t : s = mgr.ports[p] /\ t = n.ports[p]
    OBVIOUS
  <2>2. PICK s, t : s = mgr.ports[p] /\ t = n.ports[p]
    BY <2>1
  <2>3. s \in Port /\ ToldOK(p, s) /\ Gets(s, t, h)
    BY <2>2, <1>1
  <2> HIDE DEF h
  <2>4. /\ t \in Port /\ t.cable = s.cable
        /\ \A g \in TellingHandlers : \A v : LastIs(s, g, v) => LastIs(t, g, v)
    <3>1. CASE t = s
      BY <3>1, <2>3
    <3>2. CASE t # s
      <4>1. PICK arg \in Text : t = Post(s, h, arg)
        BY <3>2, <2>3 DEF Gets
      <4>2. t.cable = s.cable
        BY <4>1, <2>3 DEF Post, Port
      <4> QED BY <4>1, <4>2, <2>3, <1>2, PostFacts, Posts
    <3> QED BY <3>1, <3>2
  <2>5. ToldOK(p, t)'
    BY <2>3, <2>4, <1>1, ToldStays DEF Keeps
  <2> QED BY <2>2, <2>5
<1> HIDE DEF h
<1> QED BY <1>2, <1>3, <1>4, TakesOK

\* Every notification that concerns all ports keeps the invariant.
LEMMA NotificationOfAll ==
  ASSUME PortsInv,
         \/ \E family \in {"0.0.0.0/0", "::/0"} : processDefaultRouteStateNotification(family)
         \/ processTsaEnableNotification
         \/ \E field \in LinkProberFields : processMuxLinkmgrConfigNotifiction(field)
  PROVE  PortsInv'
<1>1. ASSUME NEW family \in {"0.0.0.0/0", "::/0"},
             processDefaultRouteStateNotification(family)
      PROVE  PortsInv'
  <2> DEFINE k == <<"ROUTE_TABLE", family>>
             isV4 == family = "0.0.0.0/0"
             m == RouteStored(mgr, isV4, tables[k])
             n == addOrUpdateDefaultRouteState(mgr, isV4, tables[k])
             h == "DefaultRouteState"
             arg == RouteLabelOf(m)
  <2>1. Takes(k, n)
    BY <1>1 DEF processDefaultRouteStateNotification, TakesUp
  <2>2. /\ mgr \in Manager /\ tables[k] \in Text /\ k \in Keys
        /\ \/ mgr.defaultRouteFeature = DefaultRouteFeature
           \/ mgr.defaultRouteFeature = FALSE /\ changed = {}
    <3> HIDE DEF k, n
    <3> QED BY <2>1, TakesFacts
  <2>3. /\ m \in Manager /\ m.ports = mgr.ports /\ m.cables = mgr.cables
        /\ SameConfig(mgr, m) /\ m.useTorMac = mgr.useTorMac
        /\ m.useWellKnownMac = mgr.useWellKnownMac
        /\ m.v4 = (IF isV4 THEN tables[k] ELSE mgr.v4)
        /\ m.defaultRouteFeature = mgr.defaultRouteFeature
        /\ m.defaultRouteFeature \in BOOLEAN
    BY <2>2 DEF Manager, SameConfig, RouteStored
  <2>4. n = [m EXCEPT !.ports = [p \in DOMAIN m.ports |-> Post(m.ports[p], h, arg)]]
    <3> HIDE DEF isV4, k
    <3> QED BY RouteFacts, Zenon
  <2>5. k \notin {srcMac, wellKnown} /\ (k = route4 <=> family = "0.0.0.0/0")
    BY DEF srcMac, wellKnown, route4
  <2>6. arg \in Text
    <3>1. "ok" \in Text /\ "na" \in Text
      BY DEF Text
    <3> HIDE DEF m
    <3> QED BY <3>1, <2>3, LabelsAreText DEF RouteLabelOf
  <2>7. h \in Handlers \ {"BladeIpv4Address", "SoCIpv4Address"} /\ h # "MuxConfig"
    BY DEF Handlers
  <2> HIDE DEF m, n
  <2>8. CASE k = route4
    <3>1. \A p \in Ports : Tells(p, k, h, arg)
      BY <2>2, <2>3, <2>5, <2>8 DEF Tells, IsRoute, Route, RouteLabelOf
    <3>2. m.v4 = tables[k]
      BY <2>3, <2>5, <2>8
    <3> HIDE DEF k, h, arg
    <3> QED BY <2>1, <2>3, <2>4, <2>5, <2>6, <2>7, <2>8, <3>1, <3>2, ToEvery
  <2>9. CASE k # route4
    <3>1. m.v4 = mgr.v4 /\ k = <<"ROUTE_TABLE", "::/0">>
      BY <2>3, <2>5, <2>9
    <3>2. Taken(route4) => IsRoute(arg)
      BY <2>2, <2>3, <3>1 DEF IsRoute, Route, RouteLabelOf, Taken, PortsInv, Stored
    <3>3. h = "DefaultRouteState"
      OBVIOUS
    <3> HIDE DEF k, h, arg
    <3> QED BY <2>1, <2>3, <2>4, <2>5, <2>6, <2>7, <2>9, <3>1, <3>2, <3>3, ToEvery
  <2> QED BY <2>8, <2>9
<1>2. CASE processTsaEnableNotification
  <2> DEFINE k == tsa
             h == "MuxConfig"
             enable == tables[k] = "true"
             arg == TsaLabel(enable)
             n == handleTsaEnableNotification(mgr, enable)
  <2>1. Takes(k, n)
    BY <1>2 DEF processTsaEnableNotification, TakesUp, tsa
  <2>2. mgr \in Manager
    <3> HIDE DEF k, n
    <3> QED BY <2>1, TakesFacts
  <2>3. n = [mgr EXCEPT !.ports = [p \in DOMAIN mgr.ports |-> Post(mgr.ports[p], h, arg)]]
    BY DEF handleTsaEnableNotification, handleTsaEnable
  <2>4. arg \in Text
    <3>1. enable \in BOOLEAN
      OBVIOUS
    <3> HIDE DEF enable
    <3> QED BY <3>1, LabelsAreText DEF Text
  <2>5. \A p \in Ports : Tells(p, k, h, arg)
    BY DEF Tells
  <2>6. k \notin {srcMac, wellKnown, route4}
    BY DEF srcMac, wellKnown, route4, tsa
  <2>7. h \in Handlers \ {"BladeIpv4Address", "SoCIpv4Address"}
    BY DEF Handlers
  <2>8. SameConfig(mgr, mgr)
    BY DEF SameConfig
  <2> HIDE DEF k, h, enable, arg, n
  <2> QED BY <2>1, <2>2, <2>3, <2>4, <2>5, <2>6, <2>7, <2>8, ToEvery
<1>3. CASE processMuxLinkmgrConfigNotifiction("src_mac")
  <2> DEFINE k == srcMac
             h == "SrcMacAddress"
             use == tables[k] = "ToRMac"
             n == processSrcMac(mgr, use)
             m == [mgr EXCEPT !.useTorMac = use]
  <2>1. Takes(k, n)
    BY <1>3 DEF processMuxLinkmgrConfigNotifiction, TakesUp, srcMac
  <2>2. mgr \in Manager
    <3> HIDE DEF k, n
    <3> QED BY <2>1, TakesFacts
  <2>3. k \notin {wellKnown, route4} /\ k = srcMac
    BY DEF srcMac, wellKnown, route4
  <2>4. \A p : k \notin TellingKeys(p) /\ h \notin TellingHandlers
    BY DEF TellingKeys, TellingHandlers, srcMac, route4, tsa
  <2>5. h \in Handlers \ {"BladeIpv4Address", "SoCIpv4Address"} /\ h # "MuxConfig"
    BY DEF Handlers
  <2>6. CASE mgr.useTorMac = use
    <3>1. n = mgr
      BY <2>6 DEF processSrcMac
    <3>2. /\ SameConfig(mgr, n) /\ n.useTorMac = (tables[k] = "ToRMac")
          /\ n.useTorMac = mgr.useTorMac
          /\ \A p \in DOMAIN mgr.ports :
               Gets(mgr.ports[p], n.ports[p], "ResetSuspendTimer")
      BY <2>6, <3>1 DEF SameConfig, Gets
    <3> HIDE DEF n, k
    <3> QED BY <2>1, <2>2, <2>3, <2>4, <3>1, <3>2, ToSome
  <2>7. CASE mgr.useTorMac # use
    <3>1. n = [m EXCEPT !.ports = [p \in DOMAIN m.ports |-> Post(m.ports[p], h, "")]]
      BY <2>2, <2>7 DEF processSrcMac, handleSrcMacAddressUpdate, Manager
    <3>2. /\ m \in Manager /\ m.ports = mgr.ports /\ m.cables = mgr.cables
          /\ SameConfig(mgr, m) /\ m.useTorMac = use
          /\ m.useWellKnownMac = mgr.useWellKnownMac /\ m.v4 = mgr.v4
      BY <2>2 DEF Manager, SameConfig
    <3>3. "" \in Text /\ h = "SrcMacAddress"
      BY DEF Text
    <3> HIDE DEF n, m, k, h
    <3> QED BY <2>1, <2>3, <2>4, <2>5, <3>1, <3>2, <3>3, ToEvery DEF k
  <2> QED BY <2>6, <2>7
<1>4. CASE processMuxLinkmgrConfigNotifiction("use_well_known_mac")
  <2> DEFINE k == wellKnown
             h == "UseWellKnownMacAddress"
             use == tables[k] = "enable"
             n == setUseWellKnownMacActiveActive(mgr, use)
             m == [mgr EXCEPT !.useWellKnownMac = use]
  <2>1. Takes(k, n)
    BY <1>4 DEF processMuxLinkmgrConfigNotifiction, TakesUp, wellKnown
  <2>2. mgr \in Manager
    <3> HIDE DEF k, n
    <3> QED BY <2>1, TakesFacts
  <2>3. k \notin {srcMac, route4} /\ k = wellKnown
    BY DEF srcMac, wellKnown, route4
  <2>4. \A p : k \notin TellingKeys(p) /\ h \notin TellingHandlers
    BY DEF TellingKeys, TellingHandlers, wellKnown, route4, tsa
  <2>5. h \in Handlers \ {"BladeIpv4Address", "SoCIpv4Address"} /\ h # "MuxConfig"
    BY DEF Handlers
  <2>6. n = [m EXCEPT !.ports = [p \in DOMAIN m.ports |-> Post(m.ports[p], h, "")]]
    BY <2>2 DEF setUseWellKnownMacActiveActive, handleUseWellKnownMacAddress, Manager
  <2>7. /\ m \in Manager /\ m.ports = mgr.ports /\ m.cables = mgr.cables
        /\ SameConfig(mgr, m) /\ m.useWellKnownMac = use
        /\ m.useTorMac = mgr.useTorMac /\ m.v4 = mgr.v4
    BY <2>2 DEF Manager, SameConfig
  <2>8. "" \in Text /\ h = "UseWellKnownMacAddress"
    BY DEF Text
  <2> HIDE DEF n, m, k, h
  <2> QED BY <2>1, <2>3, <2>4, <2>5, <2>6, <2>7, <2>8, ToEvery DEF k
<1>5. CASE processMuxLinkmgrConfigNotifiction("reset_suspend_timer")
  <2> DEFINE k == <<"LINK_PROBER", "reset_suspend_timer">>
             f == [p \in DOMAIN mgr.ports |->
                     IF p \in {tables[k]} THEN handleResetSuspendTimer(mgr.ports[p])
                     ELSE mgr.ports[p]]
             n == processResetSuspendTimer(mgr, {tables[k]})
  <2>1. Takes(k, n)
    BY <1>5 DEF processMuxLinkmgrConfigNotifiction, TakesUp
  <2>2. mgr \in Manager /\ \A p \in DOMAIN mgr.ports : mgr.ports[p] \in Port
    <3> HIDE DEF k, n
    <3> QED BY <2>1, TakesFacts
  <2>3. k \notin {srcMac, wellKnown, route4} /\ \A p : k \notin TellingKeys(p)
    BY DEF srcMac, wellKnown, route4, TellingKeys, tsa
  <2>4. n = [mgr EXCEPT !.ports = f]
    BY DEF processResetSuspendTimer
  <2>5. \A p \in DOMAIN mgr.ports : Gets(mgr.ports[p], f[p], "ResetSuspendTimer")
    BY DEF Gets, handleResetSuspendTimer, Text
  <2>6. f = [p \in DOMAIN mgr.ports |-> f[p]] /\ DOMAIN f = DOMAIN mgr.ports
    OBVIOUS
  <2>7. IsManager(mgr) /\ "ResetSuspendTimer" \in Handlers
    BY DEF PortsInv, Typed, Phases, IsManager, Handlers
  <2> HIDE DEF n, k, f
  <2>8. /\ Passes(mgr, n, "ResetSuspendTimer") /\ n.ports = f
        /\ n.useTorMac = mgr.useTorMac /\ n.useWellKnownMac = mgr.useWellKnownMac
        /\ n.v4 = mgr.v4
    BY <2>4, <2>5, <2>6, <2>7, PassesExcept
  <2>9. n.cables = mgr.cables /\ n \in Manager /\ SameConfig(mgr, n)
    BY <2>2, <2>4, <2>8 DEF Passes, Grows, Manager
  <2> QED BY <2>1, <2>3, <2>5, <2>6, <2>8, <2>9, ToSome
<1> QED BY <1>1, <1>2, <1>3, <1>4, <1>5 DEF LinkProberFields

-----------------------------------------------------------------------------
(* Steps that take nothing up *)

\* The tables are as they were, and so is what each port will have been told.
LEMMA QuietOK ==
  ASSUME PortsInv, NEW n, mgr' = n, UNCHANGED <<tables, fresh, changed>>, Typed', Phases',
         n.start = mgr.start, n.useWellKnownMac = mgr.useWellKnownMac, n.v4 = mgr.v4,
         n.useTorMac = mgr.useTorMac \/ ~mgr.start.vlanMac,
         Ready => Ready',
         swss' \in Beginning \cup {"getProberType"} =>
           swss \in Beginning \cup {"getProberType"},
         \A p \in DOMAIN n.ports : PortOK(p, n.ports[p], Config(n)),
         \A p \in Ports \cap DOMAIN n.ports :
           \/ /\ p \in DOMAIN mgr.ports /\ n.ports[p].cable = mgr.ports[p].cable
              /\ Keeps(mgr.ports[p], n.ports[p])
           \/ ~Ready /\ LastIs(n.ports[p], "GetServerMacAddress", None)
  PROVE  PortsInv'
<1>1. Stored'
  BY DEF PortsInv, Stored, Words, Holds
<1>2. NothingTaken'
  BY DEF PortsInv, NothingTaken
<1>3. ASSUME NEW p \in Ports \cap DOMAIN n.ports PROVE ToldOK(p, n.ports[p])'
  <2>1. \E t : t = n.ports[p]
    OBVIOUS
  <2>2. PICK t : t = n.ports[p]
    BY <2>1
  <2>3. t \in Port
    BY <2>2, ManagerFacts DEF Typed
  <2>4. srcMac \notin TellingKeys(p)
    BY DEF srcMac, TellingKeys, route4, tsa
  <2>5. CASE ~Ready /\ LastIs(t, "GetServerMacAddress", None)
    <3>1. ToldOK(p, t)
      BY <2>5, ToldNothing DEF PortsInv
    <3>2. ToldOK(p, t)'
      BY <3>1, <2>3, <2>4, ToldStays DEF Keeps
    <3> QED BY <3>2, <2>2
  <2>6. CASE /\ p \in DOMAIN mgr.ports /\ t.cable = mgr.ports[p].cable
             /\ Keeps(mgr.ports[p], t)
    <3>1. \E s : s = mgr.ports[p]
      OBVIOUS
    <3>2. PICK s : s = mgr.ports[p]
      BY <3>1
    <3>3. s \in Port /\ ToldOK(p, s)
      BY <3>2, <2>6, ManagerFacts DEF PortsInv, Typed
    <3>4. ToldOK(p, t)'
      BY <3>2, <3>3, <2>3, <2>4, <2>6, ToldStays
    <3> QED BY <3>4, <2>2
  <2> QED BY <2>2, <2>5, <2>6
<1>4. (\A p \in DOMAIN mgr.ports : PortOK(p, mgr.ports[p], Config(mgr)))'
  OBVIOUS
<1>5. (\A p \in Ports \cap DOMAIN mgr.ports : ToldOK(p, mgr.ports[p]))'
  BY <1>3
<1> QED BY <1>1, <1>2, <1>4, <1>5 DEF PortsInv

\* ... and the manager has the ports it had, as they were.
LEMMA SamePortsOK ==
  ASSUME PortsInv, NEW n, mgr' = n, UNCHANGED <<tables, fresh, changed>>, Typed', Phases',
         n.start = mgr.start, n.useWellKnownMac = mgr.useWellKnownMac, n.v4 = mgr.v4,
         n.useTorMac = mgr.useTorMac \/ ~mgr.start.vlanMac,
         Ready => Ready',
         swss' \in Beginning \cup {"getProberType"} =>
           swss \in Beginning \cup {"getProberType"},
         n.ports = mgr.ports,
         Config(n) = Config(mgr) \/ DOMAIN mgr.ports = {}
  PROVE  PortsInv'
<1>1. \A p \in DOMAIN n.ports : PortOK(p, n.ports[p], Config(n))
  BY DEF PortsInv
<1>2. \A p \in DOMAIN n.ports : Keeps(mgr.ports[p], n.ports[p])
  BY DEF Keeps
<1> QED BY <1>1, <1>2, QuietOK

\* A step of the threads alone keeps the invariant, in the order of the phases.
LEMMA ControlOK ==
  ASSUME PortsInv, UNCHANGED <<mgr, tables, fresh, changed>>, Typed',
         \/ swss' = swss
         \/ Ready /\ Ready'
         \/ swss = "none" /\ swss' = "getTorMacAddress",
         \/ main' = main
         \/ main' = "exit" /\ main = "run"
         \/ main = "StartThread" /\ main' \notin {"run", "exit"},
         main' = "StartThread" => main = "StartThread" /\ swss' = "none"
  PROVE  PortsInv'
<1>1. Phases'
  BY DEF PortsInv, Phases, Beginning, Ready
<1>2. \E n : n = mgr
  OBVIOUS
<1>3. PICK n : n = mgr
  BY <1>2
<1>4. /\ Ready => Ready'
      /\ swss' \in Beginning \cup {"getProberType"} =>
           swss \in Beginning \cup {"getProberType"}
  BY DEF Ready, Beginning
<1>5. Config(n) = Config(mgr)
  BY <1>3
<1> QED BY <1>1, <1>3, <1>4, <1>5, SamePortsOK

\* The main thread.
LEMMA MainThreadOK ==
  ASSUME PortsInv, MainThread
  PROVE  PortsInv'
<1>1. Typed /\ Phases /\ mgr \in Manager
  BY DEF PortsInv, Typed
<1>2. CASE initialize
  <2>1. Typed' /\ swss = "none"
    BY <1>1, <1>2 DEF initialize, Typed, Phases
  <2> QED BY <2>1, <1>2, ControlOK DEF initialize
<1>3. CASE deinitialize
  <2>1. Typed'
    BY <1>1, <1>3 DEF deinitialize, Typed
  <2>2. /\ UNCHANGED <<mgr, tables, fresh, changed>> /\ swss' = swss
        /\ main' = "exit" /\ main = "run"
    BY <1>3 DEF deinitialize
  <2>3. main' = "StartThread" => main = "StartThread" /\ swss' = "none"
    BY <2>2
  <2> QED BY <2>1, <2>2, <2>3, ControlOK
<1>4. CASE StartTimer \/ EnableFeatures
  <2>1. PICK n : n = mgr'
    OBVIOUS
  <2>2. /\ n \in Manager /\ n.ports = mgr.ports /\ n.cables = mgr.cables
        /\ n.start = mgr.start /\ n.useWellKnownMac = mgr.useWellKnownMac /\ n.v4 = mgr.v4
        /\ n.useTorMac = mgr.useTorMac /\ n.torMac = mgr.torMac /\ n.vlanMac = mgr.vlanMac
        /\ n.loopback = mgr.loopback
        /\ n.defaultRouteFeature = (main' = "run" /\ DefaultRouteFeature)
        /\ changed = {}
        /\ UNCHANGED <<swss, stopper, tables, fresh, changed>>
        /\ main' \in {"EnableFeatures", "run"}
    <3>1. CASE StartTimer
      BY <3>1, <2>1, <1>1
      DEF StartTimer, startWarmRestartReconciliationTimer, Manager, Phases
    <3>2. CASE EnableFeatures
      BY <3>2, <2>1, <1>1, LinkmgrdAssumption DEF EnableFeatures, Manager, Phases
    <3> QED BY <1>4, <3>1, <3>2
  <2>3. Typed'
    BY <2>1, <2>2, <1>1 DEF Typed
  <2>4. Phases'
    BY <2>1, <2>2, <1>1 DEF Phases
  <2>5. Config(n) = Config(mgr)
    BY <2>2 DEF Config
  <2>6. Ready => Ready'
    BY <2>2 DEF Ready
  <2> QED BY <2>1, <2>2, <2>3, <2>4, <2>5, <2>6, SamePortsOK
<1> QED BY <1>2, <1>3, <1>4 DEF MainThread

-----------------------------------------------------------------------------
(* The configuration is read *)

\* A read of the configuration moves the database thread on and leaves the tables alone.
LEMMA ReadsTyped ==
  ASSUME PortsInv, NEW step, NEW next, NEW n, Reads(step, next, n), n \in Manager,
         next \in {"getVlanNames", "getLoopbackInterfacesInfo",
               "getPortCableType", "getProberType", "getServerIpAddress",
               "getSoCIpAddress", "select"}
  PROVE  /\ Typed' /\ main' = main /\ swss = step /\ swss' = next /\ mgr' = n
         /\ tables' = tables /\ changed' = changed /\ fresh' = fresh
BY DEF PortsInv, Typed, Reads

\* The addresses of the ToR, of the VLAN and of the loopback are stored.
LEMMA ReadsMembers ==
  ASSUME PortsInv,
         processTorMacAddress \/ getVlanMacAddress \/ processLoopbackInterfacesInfo
  PROVE  PortsInv'
<1>1. Phases /\ mgr \in Manager /\ \E n : n = mgr'
  BY DEF PortsInv, Typed
<1> DEFINE vlan == mgr.start.vlanMac
           loopback == mgr.start.loopback
<1>6. vlan \in BOOLEAN /\ loopback \in BOOLEAN
  BY <1>1, LinkmgrdAssumption DEF Manager, Start
<1>2. PICK n : n = mgr'
  BY <1>1
<1>3. CASE processTorMacAddress
  <2>1. /\ n \in Manager /\ n.ports = mgr.ports /\ n.cables = mgr.cables
        /\ n.start = mgr.start /\ n.useWellKnownMac = mgr.useWellKnownMac /\ n.v4 = mgr.v4
        /\ n.useTorMac = mgr.useTorMac /\ n.torMac = "tor" /\ n.vlanMac = mgr.vlanMac
        /\ n.loopback = mgr.loopback /\ n.defaultRouteFeature = mgr.defaultRouteFeature
    BY <1>1, <1>2, <1>3 DEF processTorMacAddress, Reads, setTorMacAddress, Manager, Text
  <2>2. Reads("getTorMacAddress", "getVlanNames", n)
    BY <1>2, <1>3 DEF processTorMacAddress, Reads
  <2>3. Typed' /\ tables' = tables /\ changed' = changed /\ fresh' = fresh
    BY <2>1, <2>2, ReadsTyped
  <2>4. Phases' /\ DOMAIN mgr.ports = {}
    BY <1>1, <2>1, <2>2 DEF Phases, Beginning, Reads
  <2> QED BY <2>1, <2>2, <2>3, <2>4, <1>2, SamePortsOK DEF Reads, Ready, Beginning
<1>4. CASE getVlanMacAddress
  <2>1. /\ n \in Manager /\ n.ports = mgr.ports /\ n.cables = mgr.cables
        /\ n.start = mgr.start /\ n.useWellKnownMac = mgr.useWellKnownMac /\ n.v4 = mgr.v4
        /\ n.torMac = mgr.torMac
        /\ IF mgr.start.vlanMac THEN n.vlanMac = "vlan" /\ n.useTorMac = mgr.useTorMac
           ELSE n.useTorMac
        /\ n.loopback = mgr.loopback /\ n.defaultRouteFeature = mgr.defaultRouteFeature
    <3>1. n = VlanMacAddress(mgr, vlan)
      BY <1>2, <1>4 DEF getVlanMacAddress, Reads
    <3> HIDE DEF vlan
    <3>2. CASE vlan
      <4>1. n = [mgr EXCEPT !.vlanMac = "vlan"]
        BY <3>1, <3>2 DEF VlanMacAddress
      <4> QED BY <4>1, <3>2, <1>1 DEF Manager, Text, vlan
    <3>3. CASE ~vlan
      <4>1. n = [mgr EXCEPT !.useTorMac = TRUE]
        BY <3>1, <3>3 DEF VlanMacAddress
      <4> QED BY <4>1, <3>3, <1>1 DEF Manager, vlan
    <3> QED BY <3>2, <3>3
  <2>2. Reads("getVlanNames", "getLoopbackInterfacesInfo", n)
    BY <1>2, <1>4 DEF getVlanMacAddress, Reads
  <2>3. Typed' /\ tables' = tables /\ changed' = changed /\ fresh' = fresh
    BY <2>1, <2>2, ReadsTyped
  <2>4. Phases' /\ DOMAIN mgr.ports = {}
    BY <1>1, <2>1, <2>2 DEF Phases, Beginning, Reads
  <2> QED BY <2>1, <2>2, <2>3, <2>4, <1>2, SamePortsOK DEF Reads, Ready, Beginning
<1>5. CASE processLoopbackInterfacesInfo
  <2>1. /\ n \in Manager /\ n.ports = mgr.ports /\ n.cables = mgr.cables
        /\ n.start = mgr.start /\ n.useWellKnownMac = mgr.useWellKnownMac /\ n.v4 = mgr.v4
        /\ n.useTorMac = mgr.useTorMac /\ n.torMac = mgr.torMac
        /\ n.vlanMac = mgr.vlanMac
        /\ n.loopback = (IF mgr.start.loopback THEN "Loopback2" ELSE mgr.loopback)
        /\ n.defaultRouteFeature = mgr.defaultRouteFeature
    <3>1. n = LoopbackAddress(mgr, loopback)
      BY <1>2, <1>5 DEF processLoopbackInterfacesInfo, Reads
    <3> HIDE DEF loopback
    <3>2. CASE loopback
      <4>1. n = [mgr EXCEPT !.loopback = "Loopback2"]
        BY <3>1, <3>2 DEF LoopbackAddress
      <4> QED BY <4>1, <3>2, <1>1 DEF Manager, Text, loopback
    <3>3. CASE ~loopback
      BY <3>1, <3>3, <1>1, <1>6 DEF LoopbackAddress, Manager, loopback
    <3> QED BY <3>2, <3>3
  <2>2. Reads("getLoopbackInterfacesInfo", "getPortCableType", n)
    BY <1>2, <1>5 DEF processLoopbackInterfacesInfo, Reads
  <2>3. Typed' /\ tables' = tables /\ changed' = changed /\ fresh' = fresh
    BY <2>1, <2>2, ReadsTyped
  <2>4. Phases' /\ DOMAIN mgr.ports = {}
    BY <1>1, <2>1, <2>2 DEF Phases, Beginning, Reads
  <2> QED BY <2>1, <2>2, <2>3, <2>4, <1>2, SamePortsOK DEF Reads, Ready, Beginning
<1> QED BY <1>3, <1>4, <1>5

\* The cable types are stored before any port is created.
LEMMA CableTypesOK ==
  ASSUME PortsInv, processPortCableType
  PROVE  PortsInv'
<1> DEFINE cables == [p \in DOMAIN mgr.cables \cup DOMAIN Cable |->
                        IF p \in DOMAIN mgr.cables THEN mgr.cables[p] ELSE Cable[p]]
<1>1. /\ Phases /\ mgr \in Manager /\ swss = "getPortCableType"
      /\ Cable \in [Ports -> CableTypes] /\ Ports \subseteq Names
  BY TablesFacts DEF PortsInv, Typed, processPortCableType, Reads
<1>2. DOMAIN mgr.cables = {} /\ DOMAIN mgr.ports = {}
  BY <1>1 DEF Phases, Beginning
<1>3. DOMAIN cables = Ports /\ \A p \in Ports : cables[p] = Cable[p]
  BY <1>1, <1>2
<1>4. cables \in MapsTo(CableTypes)
  <2>1. cables = [p \in DOMAIN cables |-> cables[p]] /\ DOMAIN cables \subseteq Names
        /\ \A p \in DOMAIN cables : cables[p] \in CableTypes
    BY <1>1, <1>3
  <2> QED BY <2>1, MapFacts
<1>5. PICK n : n = mgr'
  OBVIOUS
<1>6. n = [mgr EXCEPT !.cables = cables]
      /\ Reads("getPortCableType", "getProberType", n)
  BY <1>5 DEF processPortCableType, Reads, updatePortCableType
<1> HIDE DEF cables
<1>7. /\ n \in Manager /\ n.ports = mgr.ports /\ n.cables = cables
      /\ n.start = mgr.start /\ n.useWellKnownMac = mgr.useWellKnownMac /\ n.v4 = mgr.v4
      /\ n.useTorMac = mgr.useTorMac /\ n.torMac = mgr.torMac /\ n.vlanMac = mgr.vlanMac
      /\ n.loopback = mgr.loopback /\ n.defaultRouteFeature = mgr.defaultRouteFeature
  BY <1>1, <1>4, <1>6 DEF Manager
<1>8. /\ Typed' /\ UNCHANGED <<tables, fresh, changed>> /\ swss' = "getProberType"
      /\ main' = main
  BY <1>6, <1>7, ReadsTyped
<1>9. Phases'
  BY <1>1, <1>2, <1>3, <1>5, <1>7, <1>8 DEF Phases, Beginning
<1> QED BY <1>1, <1>2, <1>5, <1>7, <1>8, <1>9, SamePortsOK DEF Ready, Beginning

\* The prober types are stored, and the ports created for them.
LEMMA ProberTypesOK ==
  ASSUME PortsInv, processProberType
  PROVE  PortsInv'
<1> DEFINE c == getMuxPortPtrOrThrow(mgr, Ports)
           f == [p \in DOMAIN c.ports |->
                   IF p \in DOMAIN Prober /\ c.cables[p] = "active-active"
                   THEN setLinkProberType(c.ports[p], Prober[p]) ELSE c.ports[p]]
<1>1. /\ Phases /\ mgr \in Manager /\ swss = "getProberType"
      /\ IsManager(mgr)
      /\ Cable \in [Ports -> CableTypes] /\ Prober \in [Ports -> ProberTypes]
      /\ Ports \subseteq Names /\ IsFiniteSet(Ports)
  BY TablesFacts DEF PortsInv, Typed, processProberType, Reads, Phases, IsManager
<1>2. DOMAIN mgr.ports = {} /\ \A p \in Ports : p \in DOMAIN mgr.cables /\ mgr.cables[p] = Cable[p]
  BY <1>1 DEF Phases, Beginning
<1>3. /\ IsManager(c) /\ Grows(mgr, c) /\ SameConfig(mgr, c)
      /\ DOMAIN c.ports = Ports
      /\ \A p \in Ports : c.ports[p] = NewPort(c.cables[p], mgr.useWellKnownMac)
      /\ \A p \in Ports : c.cables[p] = Cable[p] /\ p \in DOMAIN c.cables
      /\ c.useTorMac = mgr.useTorMac /\ c.useWellKnownMac = mgr.useWellKnownMac
      /\ c.v4 = mgr.v4
  <2>1. /\ IsManager(c) /\ Grows(mgr, c) /\ SameConfig(mgr, c)
        /\ DOMAIN c.ports = DOMAIN mgr.ports \cup Ports
        /\ \A p \in Ports \ DOMAIN mgr.ports :
             c.ports[p] = NewPort(c.cables[p], mgr.useWellKnownMac)
        /\ c.useTorMac = mgr.useTorMac /\ c.useWellKnownMac = mgr.useWellKnownMac
        /\ c.v4 = mgr.v4
    BY <1>1, CreateFacts
  <2> HIDE DEF c
  <2> QED BY <2>1, <1>2 DEF Grows
<1>4. PICK n : n = mgr'
  OBVIOUS
<1>5. /\ n = [c EXCEPT !.ports = f]
      /\ Reads("getProberType", "getServerIpAddress", n)
  BY <1>1, <1>4 DEF processProberType, Reads, updateProberType
<1>6. /\ DOMAIN f = Ports /\ f = [p \in DOMAIN f |-> f[p]]
      /\ \A p \in Ports : f[p] = IF Cable[p] = "active-active"
                                 THEN setLinkProberType(c.ports[p], Prober[p])
                                 ELSE c.ports[p]
  BY <1>1, <1>3
<1> HIDE DEF c, f
<1>7. ASSUME NEW p \in Ports, NEW config, config.useWellKnownMac = mgr.useWellKnownMac
      PROVE  f[p] \in Port /\ PortOK(p, f[p], config) /\ LastIs(f[p], "GetServerMacAddress", None)
  <2> DEFINE type == Cable[p]
             new == NewPort(type, config.useWellKnownMac)
             t == f[p]
  <2>1. c.ports[p] = new
    BY <1>3, <1>7
  <2>2. type \in CableTypes /\ config.useWellKnownMac \in BOOLEAN
    BY <1>1, <1>7 DEF Manager
  <2> HIDE DEF type
  <2>3. /\ new \in Port
        /\ new.cable = type /\ new.init = {}
        /\ new.strand = <<>> /\ new.proberType = "uninitialized" /\ new.fitted = None
        /\ \A g : ~On(new, g)
        /\ \A g \in Handlers : LastIs(new, g, None)
        /\ FrameOK(new, config) /\ BladeOK(new, config) /\ ModesOK(new)
    BY <2>2, NewPortOK
  <2> HIDE DEF new
  <2>4. /\ t \in Port
        /\ t.proberType = IF Cable[p] = "active-active" THEN Prober[p] ELSE "uninitialized"
        /\ t.cable = new.cable /\ t.blade = new.blade
        /\ t.fitted = None /\ t.frame = new.frame /\ t.init = {}
        /\ t.registered = new.registered /\ t.rerun = new.rerun /\ t.told = new.told
        /\ t.strand = new.strand
    <3>1. Prober[p] \in {"software", "hardware"}
      BY <1>1 DEF ProberTypes
    <3>2. t = IF Cable[p] = "active-active"
              THEN [new EXCEPT !.proberType = Prober[p]] ELSE new
      BY <1>6, <2>1, <3>1 DEF setLinkProberType
    <3> HIDE DEF t
    <3> QED BY <2>3, <3>1, <3>2 DEF Port, ProberTypes
  <2> HIDE DEF t
  <2>5. \A g : ~On(t, g)
    BY <2>3, <2>4 DEF On
  <2>6. Built(p, t)
    BY <2>3, <2>4 DEF Built, type
  <2>7. FrameOK(t, config) /\ BladeOK(t, config) /\ ModesOK(t)
    BY <2>3, <2>4 DEF FrameOK, BladeOK, ModesOK, On, Initialized
  <2>8. LastIs(t, "GetServerMacAddress", None)
    BY <2>3, <2>4 DEF LastIs, On, Handlers
  <2> QED BY <2>4, <2>6, <2>7, <2>8 DEF PortOK, t
<1>8. f \in MapsTo(Port)
  <2> DEFINE config == [useWellKnownMac |-> mgr.useWellKnownMac]
  <2>1. config.useWellKnownMac = mgr.useWellKnownMac
    OBVIOUS
  <2> HIDE DEF config
  <2>2. \A p \in Ports : f[p] \in Port
    BY <2>1, <1>7
  <2> QED BY <2>2, <1>1, <1>6, MapFacts
<1>9. /\ n \in Manager /\ n.ports = f /\ n.cables = c.cables
      /\ n.useWellKnownMac = mgr.useWellKnownMac /\ n.v4 = mgr.v4
      /\ n.useTorMac = mgr.useTorMac
      /\ SameConfig(mgr, n)
  BY <1>3, <1>5, <1>8 DEF IsManager, Manager, SameConfig
<1>10. /\ Typed' /\ UNCHANGED <<tables, fresh, changed>> /\ swss' = "getServerIpAddress"
       /\ main' = main
  BY <1>5, <1>9, ReadsTyped
<1>11. Phases'
  BY <1>1, <1>3, <1>4, <1>6, <1>9, <1>10 DEF Phases, Beginning, SameConfig
<1>12. ASSUME NEW p \in DOMAIN n.ports
       PROVE  PortOK(p, n.ports[p], Config(n)) /\ LastIs(n.ports[p], "GetServerMacAddress", None)
  <2> DEFINE config == Config(n)
  <2>1. config.useWellKnownMac = mgr.useWellKnownMac /\ p \in Ports
    BY <1>6, <1>9, <1>12 DEF Config
  <2> HIDE DEF config
  <2>2. PortOK(p, f[p], config) /\ LastIs(f[p], "GetServerMacAddress", None)
    BY <2>1, <1>7
  <2> QED BY <2>2, <1>9 DEF config
<1>13. ~Ready /\ ~Ready'
  BY <1>1, <1>10 DEF Ready
<1> QED BY <1>1, <1>4, <1>9, <1>10, <1>11, <1>12, <1>13, QuietOK DEF SameConfig

-----------------------------------------------------------------------------
(* Steps that change ports and take nothing up *)

\* A step of the manager that tells the ports nothing and keeps each of them.
LEMMA StepOK ==
  ASSUME PortsInv, NEW n, mgr' = n, UNCHANGED <<main, stopper, tables, fresh, changed>>,
         \/ swss' = swss
         \/ /\ swss \in {"getServerIpAddress", "getSoCIpAddress"}
            /\ swss' \in {"getSoCIpAddress", "select"},
         n \in Manager, n.cables = mgr.cables, DOMAIN n.ports = DOMAIN mgr.ports,
         SameConfig(mgr, n), n.useTorMac = mgr.useTorMac,
         n.useWellKnownMac = mgr.useWellKnownMac, n.v4 = mgr.v4,
         \A p \in DOMAIN mgr.ports : PortOK(p, n.ports[p], Config(mgr)),
         \A p \in Ports \cap DOMAIN mgr.ports :
           n.ports[p].cable = mgr.ports[p].cable /\ Keeps(mgr.ports[p], n.ports[p])
  PROVE  PortsInv'
<1>1. Typed'
  BY DEF PortsInv, Typed
<1>2. Phases'
  BY DEF PortsInv, Phases, Beginning, SameConfig
<1>3. Config(n) = Config(mgr)
  BY DEF Config, SameConfig
<1>4. /\ Ready => Ready'
      /\ swss' \in Beginning \cup {"getProberType"} =>
           swss \in Beginning \cup {"getProberType"}
  BY DEF Ready, Beginning
<1> QED BY <1>1, <1>2, <1>3, <1>4, QuietOK DEF SameConfig

-----------------------------------------------------------------------------
(* The addresses are told *)

\* addOrUpdateMuxPort and addOrUpdateMuxPortSoCAddress, for the ports of a type.
Addressed(m, type, h) ==
  LET n == getMuxPortPtrOrThrow(m, Ports) IN
  [n EXCEPT !.ports = [p \in DOMAIN n.ports |->
     IF p \in Ports /\ n.cables[p] = type THEN Post(n.ports[p], h, "set") ELSE n.ports[p]]]

\* Every port is told an address, of the server or of the SoC.
LEMMA AddressedOK ==
  ASSUME PortsInv, Ports \subseteq DOMAIN mgr.ports, NEW m \in Manager,
         m.ports = mgr.ports, m.cables = mgr.cables, SameConfig(mgr, m),
         m.useTorMac = mgr.useTorMac, m.useWellKnownMac = mgr.useWellKnownMac,
         m.v4 = mgr.v4, NEW type, NEW h \in {"BladeIpv4Address", "SoCIpv4Address"},
         NEW n, n = Addressed(m, type, h), mgr' = n,
         UNCHANGED <<main, stopper, tables, fresh, changed>>,
         swss \in {"getServerIpAddress", "getSoCIpAddress"},
         swss' \in {"getSoCIpAddress", "select"}
  PROVE  PortsInv'
<1> DEFINE c == getMuxPortPtrOrThrow(m, Ports)
           f == [p \in DOMAIN c.ports |->
                   IF p \in Ports /\ c.cables[p] = type
                   THEN Post(c.ports[p], h, "set") ELSE c.ports[p]]
           arg == "set"
<1>1. /\ mgr \in Manager /\ IsManager(m)
      /\ Ports \subseteq Names /\ IsFiniteSet(Ports)
      /\ h \in Handlers /\ arg \in Text
      /\ h \notin TellingHandlers /\ h # "MuxConfig"
  BY TablesFacts DEF PortsInv, Typed, Phases, IsManager, Handlers, Text, TellingHandlers
<1>2. /\ IsManager(c) /\ SameConfig(m, c) /\ Grows(m, c)
      /\ DOMAIN c.ports = DOMAIN m.ports \cup Ports
      /\ DOMAIN c.cables = DOMAIN m.cables \cup Ports
      /\ \A p \in DOMAIN m.ports : c.ports[p] = m.ports[p]
      /\ c.useTorMac = m.useTorMac /\ c.useWellKnownMac = m.useWellKnownMac
      /\ c.v4 = m.v4
  BY <1>1, CreateFacts
<1>3. n = [c EXCEPT !.ports = f]
  BY DEF Addressed
<1> HIDE DEF c
<1>4. DOMAIN c.ports = DOMAIN mgr.ports /\ DOMAIN c.cables = DOMAIN mgr.cables
  BY <1>1, <1>2 DEF IsManager
<1>5. c.cables = mgr.cables
  <2>1. \A p \in DOMAIN mgr.cables : c.cables[p] = mgr.cables[p]
    BY <1>2 DEF Grows
  <2>2. /\ c.cables = [p \in DOMAIN c.cables |-> c.cables[p]]
        /\ mgr.cables = [p \in DOMAIN mgr.cables |-> mgr.cables[p]]
    BY <1>1, <1>2, ManagerFacts DEF IsManager
  <2> QED BY <2>1, <2>2, <1>4
<1>6. /\ DOMAIN f = DOMAIN mgr.ports /\ f = [p \in DOMAIN f |-> f[p]]
      /\ \A p \in DOMAIN mgr.ports :
           \/ f[p] = mgr.ports[p]
           \/ p \in Ports /\ f[p] = Post(mgr.ports[p], h, arg)
  BY <1>2, <1>4
<1> HIDE DEF f, arg
<1>7. ASSUME NEW p \in DOMAIN mgr.ports
      PROVE  /\ f[p] \in Port /\ f[p].cable = mgr.ports[p].cable
             /\ PortOK(p, f[p], Config(mgr))
             /\ \A g \in TellingHandlers : \A v :
                  LastIs(mgr.ports[p], g, v) => LastIs(f[p], g, v)
  <2> DEFINE s == mgr.ports[p]
             config == Config(mgr)
  <2>1. s \in Port /\ PortOK(p, s, config)
    BY <1>1, <1>7, ManagerFacts DEF PortsInv
  <2>2. CASE f[p] = s
    BY <2>1, <2>2
  <2>3. CASE p \in Ports /\ f[p] = Post(s, h, arg)
    <3> HIDE DEF s, config
    <3> DEFINE t == Post(s, h, arg)
    <3>1. /\ t \in Port /\ t = [s EXCEPT !.strand = t.strand]
          /\ \A g, v : g # h /\ LastIs(s, g, v) => LastIs(t, g, v)
      BY <2>1, <1>1, PostFacts
    <3>2. PortOK(p, t, config)
      BY <2>1, <2>3, <1>1, PostOK
    <3> HIDE DEF t
    <3>3. t.cable = s.cable
      BY <3>1, <2>1 DEF Port
    <3>4. f[p] = t
      BY <2>3 DEF t
    <3> QED BY <3>1, <3>2, <3>3, <3>4, <1>1 DEF s, config
  <2> QED BY <2>2, <2>3, <1>6 DEF s
<1>8. f \in MapsTo(Port)
  BY <1>1, <1>6, <1>7, ManagerFacts, MapFacts
<1>9. /\ n \in Manager /\ n.ports = f /\ n.cables = mgr.cables
      /\ n.useWellKnownMac = mgr.useWellKnownMac /\ n.v4 = mgr.v4
      /\ n.useTorMac = mgr.useTorMac
      /\ SameConfig(mgr, n)
  BY <1>2, <1>3, <1>5, <1>8 DEF IsManager, Manager, SameConfig
<1>10. \A p \in DOMAIN mgr.ports : Keeps(mgr.ports[p], f[p])
  BY <1>7 DEF Keeps
<1> QED BY <1>6, <1>7, <1>9, <1>10, StepOK

\* The addresses of the servers and of the SoCs are told.
LEMMA ReadsAddresses ==
  ASSUME PortsInv, processServerIpAddress \/ processSoCIpAddress
  PROVE  PortsInv'
<1>1. Phases /\ mgr \in Manager /\ IsFiniteSet(Ports)
  BY TablesFacts DEF PortsInv, Typed
<1>2. PICK n : n = mgr'
  OBVIOUS
<1>3. CASE processServerIpAddress
  <2> DEFINE m == updateWarmRestartReconciliationCount(mgr, Cardinality(Ports))
  <2>1. /\ m \in Manager /\ m.ports = mgr.ports /\ m.cables = mgr.cables
        /\ m.useTorMac = mgr.useTorMac /\ m.useWellKnownMac = mgr.useWellKnownMac
        /\ m.v4 = mgr.v4 /\ SameConfig(mgr, m)
    <3> DEFINE i == Cardinality(Ports)
               strand == Append(mgr.strand, i)
    <3>1. i \in Int
      BY <1>1, FS_CardinalityType
    <3> HIDE DEF i
    <3>2. strand \in Seq(Int)
      BY <3>1, <1>1, AppendProperties DEF Manager
    <3>3. m = [mgr EXCEPT !.strand = strand]
      BY <1>1 DEF updateWarmRestartReconciliationCount, i, Manager
    <3> HIDE DEF m, strand
    <3> QED BY <3>2, <3>3, <1>1 DEF Manager, SameConfig
  <2>2. n = Addressed(m, "active-standby", "BladeIpv4Address")
    BY <1>2, <1>3 DEF processServerIpAddress, Reads, addOrUpdateMuxPort, Addressed,
         handleBladeIpv4AddressUpdate
  <2> HIDE DEF m
  <2>3. /\ swss = "getServerIpAddress" /\ swss' = "getSoCIpAddress"
        /\ UNCHANGED <<main, stopper, tables, fresh, changed>>
    BY <1>3 DEF processServerIpAddress, Reads
  <2>4. Ports \subseteq DOMAIN mgr.ports
    BY <1>1, <2>3 DEF Phases, Beginning
  <2> QED BY <2>1, <2>2, <2>3, <2>4, <1>2, AddressedOK
<1>4. CASE processSoCIpAddress
  <2>1. n = Addressed(mgr, "active-active", "SoCIpv4Address")
    BY <1>2, <1>4 DEF processSoCIpAddress, Reads, addOrUpdateMuxPortSoCAddress, Addressed,
         handleSoCIpv4AddressUpdate
  <2>2. /\ swss = "getSoCIpAddress" /\ swss' = "select"
        /\ UNCHANGED <<main, stopper, tables, fresh, changed>>
    BY <1>4 DEF processSoCIpAddress, Reads
  <2>3. Ports \subseteq DOMAIN mgr.ports
    BY <1>1, <2>2 DEF Phases, Beginning
  <2> QED BY <2>1, <2>2, <2>3, <1>1, <1>2, AddressedOK DEF SameConfig
<1> QED BY <1>3, <1>4

-----------------------------------------------------------------------------
(* The workers: the strands of the ports and of the manager *)

\* One port is changed, and what is counted.
LEMMA OneStepOK ==
  ASSUME PortsInv, NEW p \in DOMAIN mgr.ports, NEW t \in Port, NEW strand \in Seq(Int),
         NEW n, n = [mgr EXCEPT !.ports[p] = t, !.strand = strand], mgr' = n,
         UNCHANGED <<main, swss, stopper, tables, fresh, changed>>,
         PortOK(p, t, Config(mgr)), t.cable = mgr.ports[p].cable,
         Keeps(mgr.ports[p], t)
  PROVE  PortsInv'
<1>1. mgr \in Manager /\ DOMAIN mgr.ports \subseteq Names
  BY ManagerFacts DEF PortsInv, Typed
<1> DEFINE f == [mgr.ports EXCEPT ![p] = t]
<1>2. n = [mgr EXCEPT !.ports = f, !.strand = strand]
  OBVIOUS
<1>3. /\ f \in MapsTo(Port) /\ DOMAIN f = DOMAIN mgr.ports
      /\ f[p] = t /\ \A q \in DOMAIN mgr.ports : q # p => f[q] = mgr.ports[q]
  <2>1. /\ mgr.ports = [q \in DOMAIN mgr.ports |-> mgr.ports[q]]
        /\ \A q \in DOMAIN mgr.ports : mgr.ports[q] \in Port
    BY <1>1, ManagerFacts
  <2>2. /\ DOMAIN f = DOMAIN mgr.ports /\ f = [q \in DOMAIN f |-> f[q]]
        /\ f[p] = t /\ \A q \in DOMAIN mgr.ports : q # p => f[q] = mgr.ports[q]
    BY <2>1
  <2> HIDE DEF f
  <2> QED BY <2>1, <2>2, <1>1, MapFacts
<1> HIDE DEF f
<1>4. /\ n \in Manager /\ n.ports = f /\ n.cables = mgr.cables
      /\ n.useWellKnownMac = mgr.useWellKnownMac /\ n.v4 = mgr.v4
      /\ n.useTorMac = mgr.useTorMac
      /\ SameConfig(mgr, n)
  BY <1>1, <1>2, <1>3 DEF Manager, SameConfig
<1>5. \A q \in DOMAIN mgr.ports : PortOK(q, mgr.ports[q], Config(mgr))
  BY DEF PortsInv
<1>6. ASSUME NEW q \in DOMAIN mgr.ports
      PROVE  /\ PortOK(q, f[q], Config(mgr)) /\ f[q].cable = mgr.ports[q].cable
             /\ Keeps(mgr.ports[q], f[q])
  BY <1>3, <1>5 DEF Keeps
<1> QED BY <1>3, <1>4, <1>6, StepOK

\* Only what is counted is changed.
LEMMA CountedOK ==
  ASSUME PortsInv, NEW n \in Manager, mgr' = n,
         UNCHANGED <<main, swss, stopper, tables, fresh, changed>>,
         NEW strand, NEW count, NEW timer,
         n = [mgr EXCEPT !.strand = strand, !.count = count, !.timer = timer]
  PROVE  PortsInv'
<1>1. mgr \in Manager
  BY DEF PortsInv, Typed
<1>2. /\ n.ports = mgr.ports /\ n.cables = mgr.cables
      /\ n.useWellKnownMac = mgr.useWellKnownMac /\ n.v4 = mgr.v4
      /\ n.useTorMac = mgr.useTorMac
      /\ SameConfig(mgr, n)
  BY <1>1 DEF Manager, SameConfig
<1>3. \A p \in DOMAIN mgr.ports : Keeps(mgr.ports[p], n.ports[p])
  BY <1>2 DEF Keeps
<1> QED BY <1>2, <1>3, StepOK DEF PortsInv

\* What a handler reads of the configuration.
LEMMA ConfigFacts ==
  ASSUME PortsInv, NEW p \in DOMAIN mgr.ports
  PROVE  IsConfig(Config(mgr)) /\ (SourceKnown => Config(mgr).source # None)
<1>1. mgr \in Manager /\ Phases
  BY DEF PortsInv, Typed
<1>2. IsConfig(Config(mgr))
  BY <1>1 DEF Manager, IsConfig, Config
<1>3. /\ mgr.torMac = "tor"
      /\ IF mgr.start.vlanMac THEN mgr.vlanMac = "vlan" ELSE SourceKnown => mgr.useTorMac
  BY <1>1 DEF Phases, Beginning
<1> QED BY <1>2, <1>3 DEF Config, None

\* Only a port of the configuration ends its reconciliation.
LEMMA ReconciledIsPort ==
  ASSUME NEW p, NEW port \in Port, port.strand # <<>>, Built(p, port),
         WarmRestartReconciliation(port, Head(port.strand).handler, Head(port.strand).arg)
  PROVE  p \in Ports
<1> DEFINE h == Head(port.strand).handler
           arg == Head(port.strand).arg
<1>1. On(port, h)
  BY TakingFacts
<1> HIDE DEF h
<1>2. "LinkProber" \in port.init \cup Brings(port, h, arg)
  BY DEF WarmRestartReconciliation, h
<1>3. CASE h \in {"BladeIpv4Address", "SoCIpv4Address"}
  BY <1>1, <1>3 DEF Built
<1>4. CASE h \notin {"BladeIpv4Address", "SoCIpv4Address"}
  <2>1. "LinkProber" \notin Brings(port, h, arg)
    BY <1>4 DEF Brings
  <2> QED BY <1>2, <2>1 DEF Built
<1> QED BY <1>3, <1>4

\* A worker runs the first handler of a port.
LEMMA HandleOK ==
  ASSUME PortsInv, NEW p \in DOMAIN mgr.ports, Handle(p)
  PROVE  /\ PortsInv' /\ DOMAIN mgr'.ports = DOMAIN mgr.ports
         /\ \/ dbStrand' = dbStrand
            \/ p \in Ports /\ dbStrand' = Append(dbStrand, setMuxMode(p, "auto"))
         /\ out' = out
<1> DEFINE port == mgr.ports[p]
           h == Head(port.strand).handler
           arg == Head(port.strand).arg
           config == Config(mgr)
           done == mgr.start.warm /\ WarmRestartReconciliation(port, h, arg)
<1>1. /\ mgr \in Manager /\ port \in Port /\ PortOK(p, port, config)
      /\ IsConfig(config) /\ (SourceKnown => config.source # None)
      /\ port.strand # <<>>
      /\ UNCHANGED <<main, swss, stopper, tables, fresh, changed, out>>
  BY ManagerFacts, ConfigFacts DEF PortsInv, Typed, Handle
<1>2. PICK t \in Handled(Taking(port), h, arg, config) :
        LET m == [mgr EXCEPT !.ports[p] = t] IN
        mgr' = IF done THEN updateWarmRestartReconciliationCount(m, -1) ELSE m
  BY DEF Handle, Taking
<1>3. dbStrand' = IF done THEN Append(dbStrand, setMuxMode(p, "auto")) ELSE dbStrand
  BY DEF Handle
<1>4. /\ t \in Port /\ t.cable = port.cable /\ PortOK(p, t, config)
      /\ \A g \in Handlers : \A v : LastIs(port, g, v) => LastIs(t, g, v)
  <2> HIDE DEF port, config
  <2> QED BY <1>1, <1>2, HandledOK
<1>5. done => p \in Ports
  <2> HIDE DEF port
  <2> QED BY <1>1, ReconciledIsPort DEF PortOK
<1>6. PICK strand : strand = IF done THEN Append(mgr.strand, -1) ELSE mgr.strand
  OBVIOUS
<1>7. strand \in Seq(Int)
  <2> HIDE DEF done
  <2> QED BY <1>1, <1>6, AppendProperties DEF Manager
<1>8. PICK n : n = mgr'
  OBVIOUS
<1>9. n = [mgr EXCEPT !.ports[p] = t, !.strand = strand]
  <2> HIDE DEF done
  <2>1. CASE done
    BY <2>1, <1>1, <1>2, <1>6, <1>8 DEF updateWarmRestartReconciliationCount, Manager
  <2>2. CASE ~done
    BY <2>2, <1>1, <1>2, <1>6, <1>8 DEF Manager
  <2> QED BY <2>1, <2>2
<1>10. Keeps(port, t)
  <2>1. TellingHandlers \subseteq Handlers
    BY DEF TellingHandlers, Handlers
  <2> HIDE DEF port
  <2> QED BY <2>1, <1>4 DEF Keeps
<1>11. PortsInv'
  <2> HIDE DEF port, config, done
  <2> QED BY <1>1, <1>4, <1>7, <1>8, <1>9, <1>10, OneStepOK DEF port, config
<1>12. DOMAIN mgr'.ports = DOMAIN mgr.ports
  BY <1>8, <1>9, <1>1 DEF Manager
<1> QED BY <1>1, <1>3, <1>5, <1>11, <1>12

\* A mode that was registered before the activation runs once more.
LEMMA RunsAgainOK ==
  ASSUME PortsInv, NEW p \in DOMAIN mgr.ports, RunAgain(p)
  PROVE  PortsInv' /\ DOMAIN mgr'.ports = DOMAIN mgr.ports /\ UNCHANGED <<dbStrand, out>>
<1> DEFINE port == mgr.ports[p]
           config == Config(mgr)
<1>1. /\ mgr \in Manager /\ port \in Port /\ PortOK(p, port, config)
      /\ UNCHANGED <<main, swss, stopper, dbStrand, tables, fresh, changed, out>>
  BY ManagerFacts DEF PortsInv, Typed, RunAgain
<1>2. PICK mode \in port.rerun :
        mgr' = [mgr EXCEPT !.ports[p] = [port EXCEPT !.rerun = @ \ {mode}, !.mode = mode,
                                                     !.told["MuxConfig"] = mode]]
  BY DEF RunAgain
<1> DEFINE t == [port EXCEPT !.rerun = @ \ {mode}, !.mode = mode,
                             !.told["MuxConfig"] = mode]
<1>3. /\ t \in Port /\ t.cable = port.cable /\ PortOK(p, t, config)
      /\ Keeps(port, t)
  <2> HIDE DEF port, config
  <2>1. /\ t \in Port /\ t.cable = port.cable /\ PortOK(p, t, config)
        /\ port.cable # "active-standby"
        /\ \A g, v : g # "MuxConfig" /\ LastIs(port, g, v) => LastIs(t, g, v)
    BY <1>1, <1>2, RunAgainOK
  <2> HIDE DEF t
  <2> QED BY <2>1 DEF Keeps
<1>4. PICK n : n = mgr'
  OBVIOUS
<1>5. n = [mgr EXCEPT !.ports[p] = t]
  BY <1>2, <1>4
<1> HIDE DEF t
<1>6. PICK strand : strand = mgr.strand
  OBVIOUS
<1>7. n = [mgr EXCEPT !.ports[p] = t, !.strand = strand] /\ strand \in Seq(Int)
  BY <1>1, <1>5, <1>6 DEF Manager
<1>8. PortsInv'
  <2> HIDE DEF port, config
  <2> QED BY <1>1, <1>3, <1>4, <1>7, OneStepOK DEF port, config
<1>9. DOMAIN mgr'.ports = DOMAIN mgr.ports
  BY <1>4, <1>5, <1>1 DEF Manager
<1> QED BY <1>1, <1>8, <1>9

\* A count has sixteen bits whatever is counted.
LEMMA CountIsCount ==
  ASSUME NEW i \in Int
  PROVE  i % 65536 \in Counts
BY DEF Counts

\* And it is a number.
LEMMA CountsAreInt ==
  ASSUME NEW i \in Counts
  PROVE  i \in Int
BY DEF Counts

\* A change of the warm restart count is applied.
LEMMA HandleCountOK ==
  ASSUME PortsInv, HandleCount
  PROVE  PortsInv' /\ DOMAIN mgr'.ports = DOMAIN mgr.ports /\ UNCHANGED <<dbStrand, out>>
<1>1. mgr \in Manager /\ mgr.strand # <<>>
  BY DEF PortsInv, Typed, HandleCount
<1>2. Head(mgr.strand) \in Int /\ Tail(mgr.strand) \in Seq(Int) /\ mgr.count \in Int
  <2>1. mgr.strand \in Seq(Int) /\ mgr.count \in Counts
    BY <1>1 DEF Manager
  <2> QED BY <2>1, <1>1, HeadTailProperties, CountsAreInt
<1>3. PICK n : n = mgr'
  OBVIOUS
<1> DEFINE count == (mgr.count + Head(mgr.strand)) % 65536
           timer == IF count = 0 /\ mgr.timer = "Waiting" THEN "Aborted" ELSE mgr.timer
<1>4. count \in Counts
  BY <1>2, CountIsCount
<1>5. n = [mgr EXCEPT !.strand = Tail(mgr.strand), !.count = count, !.timer = timer]
  BY <1>1, <1>3 DEF HandleCount, handleUpdateReconciliationCount, Manager
<1> HIDE DEF count
<1>6. timer \in {"Off", "Waiting", "Expired", "Aborted"}
  BY <1>1 DEF Manager
<1> HIDE DEF timer
<1>7. n \in Manager /\ DOMAIN n.ports = DOMAIN mgr.ports
  BY <1>1, <1>2, <1>4, <1>5, <1>6 DEF Manager
<1>8. UNCHANGED <<main, swss, stopper, dbStrand, tables, fresh, changed, out>>
  BY DEF HandleCount
<1> QED BY <1>3, <1>5, <1>7, <1>8, CountedOK, ZenonT(30)

\* The timer of a warm restart expires or its handler runs.
LEMMA TimerOK ==
  ASSUME PortsInv, TimerExpires \/ handleWarmRestartReconciliationTimeout
  PROVE  PortsInv' /\ DOMAIN mgr'.ports = DOMAIN mgr.ports
<1>1. mgr \in Manager
  BY DEF PortsInv, Typed
<1>2. PICK n : n = mgr'
  OBVIOUS
<1>3. PICK timer \in {"Off", "Expired"} : n = [mgr EXCEPT !.timer = timer]
  BY <1>2 DEF TimerExpires, handleWarmRestartReconciliationTimeout
<1> DEFINE strand == mgr.strand
           count == mgr.count
<1>4. /\ n = [mgr EXCEPT !.strand = strand, !.count = count, !.timer = timer]
      /\ n \in Manager /\ DOMAIN n.ports = DOMAIN mgr.ports
  BY <1>1, <1>3 DEF Manager
<1>5. UNCHANGED <<main, swss, stopper, tables, fresh, changed>>
  BY DEF TimerExpires, handleWarmRestartReconciliationTimeout
<1> HIDE DEF strand, count
<1> QED BY <1>2, <1>4, <1>5, CountedOK, ZenonT(30)

-----------------------------------------------------------------------------
(* The strand of the databases, the environment and the end: what the ports see *)

\* PortsInv speaks of these variables only.
LEMMA UnchangedOK ==
  ASSUME PortsInv, UNCHANGED <<main, swss, stopper, mgr, tables, fresh, changed>>
  PROVE  PortsInv'
<1>1. Typed'
  BY DEF PortsInv, Typed
<1> QED BY <1>1, ControlOK DEF PortsInv, Phases

\* A new interval is stored by the manager; no port is told.
LEMMA IntervalOK ==
  ASSUME PortsInv, NEW field \in IntervalFields, updateInterval(field)
  PROVE  PortsInv' /\ DOMAIN mgr'.ports = DOMAIN mgr.ports
<1> DEFINE k == <<"LINK_PROBER", field>>
           word == tables[k]
           isV4 == field = "interval_v4"
           interval == IF isV4 THEN word ELSE mgr.interval
<1>1. PICK n : n = setTimeout_msec(mgr, word, isV4)
  OBVIOUS
<1>2. Takes(k, n) /\ mgr' = n
  BY <1>1 DEF updateInterval, Takes
<1>3. \A p \in Ports : k \notin TellingKeys(p)
  BY DEF TellingKeys, route4, tsa
<1>4. k \notin {wellKnown, route4, srcMac}
  BY DEF wellKnown, route4, srcMac, IntervalFields
<1> HIDE DEF k
<1>5. mgr \in Manager /\ word \in Text
  BY <1>2, TakesFacts
<1>6. n = [mgr EXCEPT !.interval = interval]
  BY <1>1, <1>5 DEF setTimeout_msec, Manager
<1>7. interval \in Text
  BY <1>5 DEF Manager
<1> HIDE DEF interval
<1>8. /\ n \in Manager /\ n.ports = mgr.ports /\ n.cables = mgr.cables
      /\ n.useWellKnownMac = mgr.useWellKnownMac /\ n.v4 = mgr.v4
      /\ n.useTorMac = mgr.useTorMac
      /\ SameConfig(mgr, n)
  BY <1>5, <1>6, <1>7 DEF Manager, SameConfig
<1>9. \A p \in DOMAIN mgr.ports : Gets(mgr.ports[p], n.ports[p], "ResetSuspendTimer")
  BY <1>8 DEF Gets
<1> QED BY <1>2, <1>3, <1>4, <1>8, <1>9, ToSome

\* Somebody writes to a table: what was told of the key no longer counts.
LEMMA TablesOK ==
  ASSUME PortsInv, UNCHANGED <<main, swss, stopper, mgr>>,
         NEW k \in Keys, NEW v \in Text, v # None,
         k[1] = "MUX_CABLE" \/ v \in Words(k),
         tables' = [tables EXCEPT ![k] = v], fresh' = fresh \cup {k},
         changed' = changed \/ (main = "run" /\ changed' = changed \cup {k})
  PROVE  PortsInv'
<1>1. tables \in [Keys -> Text]
  BY DEF PortsInv, Typed
<1>2. Typed'
  BY <1>1 DEF PortsInv, Typed
<1>3. Phases'
  BY DEF PortsInv, Phases
<1>4. /\ \A l \in Keys : Words(l)' = Words(l)
      /\ \A l : l # k => Holds(l)' = Holds(l) /\ (l \in Keys => tables'[l] = tables[l])
      /\ tables'[k] = v
  BY <1>1 DEF Words, Holds
<1>5. Stored'
  <2>1. \A l \in fresh' : tables'[l] # None
    BY <1>4 DEF PortsInv, Typed, Stored
  <2>2. \A l \in Keys : l[1] # "MUX_CABLE" => tables'[l] \in Words(l)'
    BY <1>4 DEF PortsInv, Stored
  <2> QED BY <2>1, <2>2, <1>4 DEF PortsInv, Stored
<1>6. NothingTaken'
  BY <1>4 DEF PortsInv, NothingTaken, Ready
<1>7. (\A p \in DOMAIN mgr.ports : PortOK(p, mgr.ports[p], Config(mgr)))'
  BY DEF PortsInv
<1>8. ASSUME NEW p \in Ports \cap DOMAIN mgr.ports
      PROVE  ToldOK(p, mgr.ports[p])'
  <2>1. PICK s : s = mgr.ports[p]
    OBVIOUS
  <2>2. ToldOK(p, s)
    BY <2>1 DEF PortsInv
  <2>3. ToldOK(p, s)'
    BY <2>2, <1>1, ToldUnsettled
  <2> QED BY <2>1, <2>3
<1>9. (\A p \in Ports \cap DOMAIN mgr.ports : ToldOK(p, mgr.ports[p]))'
  BY <1>8
<1> QED BY <1>2, <1>3, <1>5, <1>6, <1>7, <1>9 DEF PortsInv

\* The operator, or orchagent, changes a key: it is due to be told again.
LEMMA ChangeOK ==
  ASSUME PortsInv, NEW k \in Keys, Change(k)
  PROVE  PortsInv'
<1>1. PICK v \in Values[k] : tables' = [tables EXCEPT ![k] = v]
  BY DEF Change
<1>2. v \in Text /\ v # None /\ v \in Words(k)
  BY TablesFacts DEF PortsInv, Words
<1>3. /\ fresh' = fresh \cup {k} /\ UNCHANGED <<main, swss, stopper, mgr>>
      /\ main = "run" /\ changed' = changed \cup {k}
  BY DEF Change
<1> QED BY <1>1, <1>2, <1>3, TablesOK

\* The first handler of the strand of the databases.
LEMMA ServedFacts ==
  ASSUME Written, dbStrand # <<>>
  PROVE  /\ Head(dbStrand) \in DbHandlers
         /\ Head(dbStrand).op = "SetMuxMode" =>
              Head(dbStrand).port \in Ports /\ Head(dbStrand).label = "auto"
<1>1. /\ dbStrand \in Seq(DbHandlers) /\ Len(dbStrand) \in Nat /\ Len(dbStrand) > 0
      /\ Head(dbStrand) = dbStrand[1] /\ Head(dbStrand) \in DbHandlers
  BY HeadTailProperties, EmptySeq, LenProperties DEF Written
<1>2. Head(dbStrand).op = "SetMuxMode" => Head(dbStrand).label = "auto"
  BY <1>1 DEF Written
<1>3. Head(dbStrand).op = "SetMuxMode" => Head(dbStrand).port \in Ports
  BY <1>1 DEF DbHandlers
<1> QED BY <1>1, <1>2, <1>3

\* Mode auto is written by the process itself, as a change of the key.
LEMMA SetMuxModeOK ==
  ASSUME PortsInv, Written, handleSetMuxMode
  PROVE  PortsInv'
<1> DEFINE r == Head(dbStrand)
           k == <<"MUX_CABLE", r.port>>
<1>1. /\ r.op = "SetMuxMode" /\ dbStrand # <<>>
      /\ tables' = [tables EXCEPT ![k] = r.label] /\ fresh' = fresh \cup {k}
      /\ UNCHANGED <<main, swss, stopper, mgr, changed>>
  BY DEF handleSetMuxMode, Serves
<1>2. r.port \in Ports /\ r.label = "auto"
  BY <1>1, ServedFacts
<1>3. k \in Keys
  BY <1>2, LinkmgrdAssumption
<1>4. r.label \in Text /\ r.label # None /\ k[1] = "MUX_CABLE"
  BY <1>2 DEF Text, None
<1> HIDE DEF k
<1> DEFINE label == r.label
<1> HIDE DEF label
<1>5. label \in Text /\ label # None /\ tables' = [tables EXCEPT ![k] = label]
  BY <1>1, <1>4 DEF label
<1> QED BY <1>1, <1>3, <1>4, <1>5, TablesOK

\* A state that a port asked for is read and told.
LEMMA GetMuxStateOK ==
  ASSUME PortsInv, dbHandleGetMuxState
  PROVE  PortsInv' /\ DOMAIN mgr'.ports = DOMAIN mgr.ports
<1> DEFINE p == Head(dbStrand).port
           k == <<"MUX_CABLE_TABLE", p>>
           h == "GetMuxState"
           arg == MuxLabel(tables[k])
<1>1. mgr \in Manager /\ UNCHANGED <<main, swss, stopper, tables, fresh, changed>>
  BY DEF PortsInv, Typed, dbHandleGetMuxState, Serves
<1>2. CASE mgr' = mgr
  BY <1>1, <1>2, UnchangedOK
<1>3. CASE mgr' # mgr
  <2>1. /\ k \in Keys /\ p \in DOMAIN mgr.ports
        /\ mgr' = [mgr EXCEPT !.ports[p] = Post(mgr.ports[p], h, arg)]
    BY <1>3 DEF dbHandleGetMuxState, processGetMuxState, handleGetMuxState
  <2>2. arg \in Text
    BY <2>1, TablesFacts, LabelsAreText DEF PortsInv
  <2> DEFINE s == mgr.ports[p]
             config == Config(mgr)
  <2>3. s \in Port /\ PortOK(p, s, config)
    BY <2>1, <1>1, ManagerFacts DEF PortsInv
  <2>4. h \in Handlers /\ h \notin TellingHandlers /\ h # "MuxConfig"
        /\ h \notin {"BladeIpv4Address", "SoCIpv4Address"}
    BY DEF Handlers, TellingHandlers
  <2> HIDE DEF p, k, h, arg, s, config
  <2> DEFINE t == Post(s, h, arg)
  <2>5. /\ t \in Port /\ t = [s EXCEPT !.strand = t.strand]
        /\ \A g, v : g # h /\ LastIs(s, g, v) => LastIs(t, g, v)
    BY <2>2, <2>3, <2>4, PostFacts
  <2>6. PortOK(p, t, config)
    BY <2>2, <2>3, <2>4, PostOK
  <2> HIDE DEF t
  <2>7. t.cable = s.cable
    BY <2>3, <2>5 DEF Port
  <2>8. PICK n : n = mgr'
    OBVIOUS
  <2>9. PICK strand : strand = mgr.strand
    OBVIOUS
  <2>10. n = [mgr EXCEPT !.ports[p] = t, !.strand = strand] /\ strand \in Seq(Int)
         /\ DOMAIN n.ports = DOMAIN mgr.ports
    BY <1>1, <2>1, <2>8, <2>9 DEF Manager, t, s
  <2>11. Keeps(s, t)
    BY <2>4, <2>5 DEF Keeps
  <2> QED BY <1>1, <2>1, <2>5, <2>6, <2>7, <2>8, <2>10, <2>11, OneStepOK DEF s, config
<1> QED BY <1>2, <1>3

\* The end of the process.
LEMMA EndOK ==
  ASSUME PortsInv, handleSignal \/ LeaveLoop \/ Meet1 \/ stop \/ Meet2 \/ terminate
  PROVE  PortsInv' /\ UNCHANGED <<mgr, dbStrand, out>>
<1>1. UNCHANGED <<main, mgr, dbStrand, tables, fresh, changed, out>>
  BY DEF handleSignal, LeaveLoop, Meet1, stop, Meet2, terminate
<1>2. swss' = swss \/ (Ready /\ Ready')
  BY DEF handleSignal, LeaveLoop, Meet1, stop, Meet2, terminate, Ready, Beginning
<1>3. Typed'
  BY <1>1 DEF PortsInv, Typed, handleSignal, LeaveLoop, Meet1, stop, Meet2, terminate
<1>4. main' = "StartThread" => main = "StartThread" /\ swss' = "none"
  BY <1>1, <1>2 DEF PortsInv, Phases, Ready, Beginning
<1> QED BY <1>1, <1>2, <1>3, <1>4, ControlOK

-----------------------------------------------------------------------------
(* What is written to the databases *)

OutTypes ==
  [asked : Contents, written : Contents, reads : SUBSET (Ports \X Text), count : Int]

Labelled(r) ==
  /\ r.op \in Probes => r.label = "probe"
  /\ r.op = "SetMuxMode" => r.label = "auto"

\* A session was asked for only by a port.
SessionsOfPorts(entries, exist) ==
  \A p \in Names : entries[<<"IcmpEchoSession", p>>] # None => p \in Ports /\ exist

\* Handlers are posted, which together make asked of what was asked for before.
LEMMA WrittenPosted ==
  ASSUME Written, NEW n \in Nat, NEW asked \in Contents, NEW s, NEW o,
         dbStrand' = s, out' = o, o \in OutTypes,
         s \in Seq(DbHandlers), Len(s) = Len(dbStrand) + n,
         \A i \in 1 .. Len(dbStrand) : s[i] = dbStrand[i],
         \A i \in Len(dbStrand) + 1 .. Len(dbStrand) + n :
           /\ Labelled(s[i])
           /\ Applied(IF i = Len(dbStrand) + 1 THEN out.asked ELSE asked, s[i]) = asked,
         n = 0 => asked = out.asked,
         o.written = out.written, o.asked = asked, o.reads \subseteq out.reads,
         SessionsOfPorts(asked, PortsExist'), PortsExist => PortsExist'
  PROVE  Written'
<1> DEFINE L == Len(dbStrand)
<1>1. L \in Nat /\ out \in OutTypes /\ dbStrand \in Seq(DbHandlers)
  BY LenProperties DEF Written, OutTypes
<1>2. PICK f \in [0 .. L -> Contents] : Replay(f, dbStrand, out.written, out.asked)
  BY DEF Written
<1> DEFINE g == [i \in 0 .. L + n |-> IF i <= L THEN f[i] ELSE asked]
<1>3. g \in [0 .. L + n -> Contents]
  BY <1>1, <1>2
<1>4. g[0] = o.written
  BY <1>1, <1>2 DEF Replay
<1>5. g[L + n] = o.asked
  BY <1>1, <1>2 DEF Replay
<1>6. ASSUME NEW i \in 1 .. L + n PROVE g[i] = Applied(g[i - 1], s[i])
  <2>1. CASE i <= L
    BY <2>1, <1>1, <1>2 DEF Replay
  <2>2. CASE i > L
    <3>1. g[i] = asked /\ i \in L + 1 .. L + n
      BY <2>2, <1>1
    <3>2. g[i - 1] = IF i = L + 1 THEN out.asked ELSE asked
      BY <2>2, <1>1, <1>2 DEF Replay
    <3> HIDE DEF g
    <3> QED BY <3>1, <3>2
  <2> QED BY <2>1, <2>2, <1>1
<1> HIDE DEF g
<1>7. Replay(g, s, o.written, o.asked) /\ g \in [0 .. Len(s) -> Contents]
  BY <1>3, <1>4, <1>5, <1>6 DEF Replay
<1>8. \A i \in 1 .. Len(s) : Labelled(s[i])
  BY <1>1 DEF Written, Labelled
<1> QED BY <1>7, <1>8 DEF Written, OutTypes, Labelled, SessionsOfPorts

\* The first handler is served.
LEMMA WrittenServed ==
  ASSUME Written, dbStrand # <<>>, NEW o, out' = o, dbStrand' = Tail(dbStrand),
         o \in OutTypes, o.written = Applied(out.written, Head(dbStrand)),
         o.asked = out.asked, o.reads = out.reads, PortsExist => PortsExist'
  PROVE  Written'
<1> DEFINE L == Len(dbStrand)
           s == Tail(dbStrand)
<1>1. /\ dbStrand \in Seq(DbHandlers) /\ out \in OutTypes
      /\ L \in Nat /\ L >= 1 /\ s \in Seq(DbHandlers) /\ Len(s) = L - 1
      /\ Head(dbStrand) = dbStrand[1]
      /\ \A i \in 1 .. L - 1 : s[i] = dbStrand[i + 1]
  BY HeadTailProperties, EmptySeq, LenProperties DEF Written, OutTypes
<1> HIDE DEF s
<1>2. PICK f \in [0 .. L -> Contents] : Replay(f, dbStrand, out.written, out.asked)
  BY DEF Written
<1> DEFINE g == [i \in 0 .. L - 1 |-> f[i + 1]]
<1>3. g \in [0 .. L - 1 -> Contents]
  BY <1>1, <1>2
<1>4. g[0] = o.written /\ g[L - 1] = o.asked
  BY <1>1, <1>2 DEF Replay
<1>5. ASSUME NEW i \in 1 .. L - 1 PROVE g[i] = Applied(g[i - 1], s[i])
  <2>1. PICK j \in 1 .. L : j = i + 1
    BY <1>1
  <2>2. g[i] = f[j] /\ g[i - 1] = f[j - 1] /\ s[i] = dbStrand[j]
    BY <1>1, <2>1
  <2>3. f[j] = Applied(f[j - 1], dbStrand[j])
    BY <1>2 DEF Replay
  <2> QED BY <2>2, <2>3
<1> HIDE DEF g
<1>6. Replay(g, s, o.written, o.asked) /\ g \in [0 .. Len(s) -> Contents]
  BY <1>1, <1>3, <1>4, <1>5 DEF Replay
<1>7. ASSUME NEW i \in 1 .. Len(s) PROVE Labelled(s[i])
  <2>1. PICK j \in 1 .. L : j = i + 1
    BY <1>1
  <2>2. s[i] = dbStrand[j]
    BY <1>1, <2>1
  <2> QED BY <2>2 DEF Written, Labelled
<1>8. SessionsOfPorts(o.asked, PortsExist')
  BY DEF Written, SessionsOfPorts
<1>9. dbStrand' = s
  BY DEF s
<1> QED BY <1>1, <1>6, <1>7, <1>8, <1>9 DEF Written, OutTypes, Labelled, SessionsOfPorts

\* Written speaks of the strand of the databases, what they hold and who exists.
LEMMA WrittenStays ==
  ASSUME Written, UNCHANGED <<dbStrand, out>>, PortsExist => PortsExist'
  PROVE  Written'
BY DEF Written

-----------------------------------------------------------------------------
(* The handlers of the strand *)

\* The strand serves the handlers and writes what Applied says.
LEMMA PutsOK ==
  ASSUME Written, NEW op \in States \cup Probes \cup Figures \cup {"CreateSession", "DeleteSession"},
         NEW label, label = IF op \in Probes THEN "probe" ELSE Head(dbStrand).label,
         Puts(op, label)
  PROVE  Written'
<1> DEFINE r == Head(dbStrand)
           w == <<Entry(op), r.port>>
<1>1. /\ dbStrand # <<>> /\ dbStrand' = Tail(dbStrand) /\ r.op = op /\ mgr' = mgr
      /\ out' = IF Accepted(op, label) THEN [out EXCEPT !.written[w] = label] ELSE out
  BY DEF Puts, Serves
<1>2. r \in DbHandlers /\ r.label = label
  <2>1. /\ dbStrand \in Seq(DbHandlers) /\ Len(dbStrand) \in Nat /\ Len(dbStrand) > 0
        /\ r = dbStrand[1] /\ r \in DbHandlers
    BY <1>1, HeadTailProperties, EmptySeq, LenProperties DEF Written
  <2>2. op \in Probes => r.label = "probe"
    BY <2>1, <1>1 DEF Written
  <2> QED BY <2>1, <2>2
<1>3. op \notin {"UpdateInterval", "GetMuxState", "SetMuxMode"}
  BY DEF States, Probes, Figures
<1>4. r.port \in Ports /\ label \in Text
  BY <1>1, <1>2, <1>3 DEF DbHandlers
<1>5. w \in Writes
  BY <1>4 DEF Writes, Entry
<1> HIDE DEF r, w
<1>6. Applied(out.written, r) =
        IF Accepted(op, label) THEN [out.written EXCEPT ![w] = label] ELSE out.written
  BY <1>1, <1>2, <1>3 DEF Applied, w
<1>7. PICK o : o = out'
  OBVIOUS
<1>8. out \in OutTypes
  BY DEF Written, OutTypes
<1>9. /\ o \in OutTypes /\ o.asked = out.asked /\ o.reads = out.reads
      /\ o.written = Applied(out.written, r)
  <2> DEFINE yes == Accepted(op, label)
  <2>1. o = IF yes THEN [out EXCEPT !.written[w] = label] ELSE out
    BY <1>1, <1>7
  <2>2. Applied(out.written, r) =
          IF yes THEN [out.written EXCEPT ![w] = label] ELSE out.written
    BY <1>6
  <2> HIDE DEF yes
  <2> QED BY <2>1, <2>2, <1>4, <1>5, <1>8 DEF OutTypes, Contents
<1>10. PortsExist => PortsExist'
  BY DEF Puts, Serves, PortsExist
<1> QED BY <1>1, <1>7, <1>9, <1>10, WrittenServed DEF r

\* A new interval rewrites the sessions there are and adds none.
LEMMA AllSessionsTyped ==
  ASSUME NEW e \in Contents, NEW label \in Text
  PROVE  /\ InAllSessions(e, label) \in Contents
         /\ \A p \in Names : InAllSessions(e, label)[<<"IcmpEchoSession", p>>] # None
                             => e[<<"IcmpEchoSession", p>>] # None
<1>1. \A p \in Names : <<"IcmpEchoSession", p>> \in Writes
  BY DEF Writes, Names
<1> QED BY <1>1 DEF InAllSessions, Contents

\* A handler of the database strand writes what was asked.
LEMMA DbStrandOK ==
  ASSUME PortsInv, Written, DbStrand
  PROVE  PortsInv' /\ Written'
<1> USE DEF PortsExist
<1>1. CASE dbHandleGetMuxState
  <2>1. PortsInv' /\ DOMAIN mgr'.ports = DOMAIN mgr.ports
    BY <1>1, GetMuxStateOK
  <2>2. /\ dbStrand # <<>> /\ dbStrand' = Tail(dbStrand) /\ out' = out /\ swss' = swss
        /\ Head(dbStrand).op = "GetMuxState"
    BY <1>1 DEF dbHandleGetMuxState, Serves
  <2>3. Applied(out.written, Head(dbStrand)) = out.written
    BY <2>2 DEF Applied
  <2> QED BY <2>1, <2>2, <2>3, WrittenServed DEF Written, OutTypes
<1>2. CASE handleSetMuxMode
  <2>1. PortsInv'
    BY <1>2, SetMuxModeOK
  <2>2. /\ dbStrand # <<>> /\ dbStrand' = Tail(dbStrand) /\ out' = out /\ swss' = swss
        /\ Head(dbStrand).op = "SetMuxMode"
    BY <1>2 DEF handleSetMuxMode, Serves
  <2>3. Applied(out.written, Head(dbStrand)) = out.written
    BY <2>2 DEF Applied
  <2> QED BY <2>1, <2>2, <2>3, WrittenServed DEF Written, OutTypes
<1>3. CASE handleUpdateInterval
  <2> DEFINE r == Head(dbStrand)
             label == r.label
             written == InAllSessions(out.written, label)
  <2>1. /\ dbStrand # <<>> /\ dbStrand' = Tail(dbStrand) /\ mgr' = mgr
        /\ out' = [out EXCEPT !.written = written]
        /\ r.op = "UpdateInterval"
        /\ UNCHANGED <<main, swss, stopper, tables, fresh, changed>>
    BY <1>3 DEF handleUpdateInterval, Serves
  <2>2. PortsInv'
    BY <2>1, UnchangedOK
  <2>3. r \in DbHandlers
    BY <2>1, ServedFacts
  <2>4. label \in Text /\ out \in OutTypes
    BY <2>3 DEF DbHandlers, Written, OutTypes
  <2>5. Applied(out.written, r) = written
    BY <2>1 DEF Applied
  <2> HIDE DEF r, label
  <2>6. written \in Contents
    BY <2>4, AllSessionsTyped DEF OutTypes
  <2> HIDE DEF written
  <2>7. PICK o : o = out'
    OBVIOUS
  <2>8. /\ o \in OutTypes /\ o.written = written /\ o.asked = out.asked
        /\ o.reads = out.reads
    BY <2>1, <2>4, <2>6, <2>7 DEF OutTypes
  <2> QED BY <2>1, <2>2, <2>5, <2>7, <2>8, WrittenServed DEF r
<1>4. ASSUME NEW op \in States \cup Probes \cup Figures \cup {"CreateSession", "DeleteSession"},
             NEW label, label = IF op \in Probes THEN "probe" ELSE Head(dbStrand).label,
             Puts(op, label)
      PROVE  PortsInv' /\ Written'
  <2>1. UNCHANGED <<main, swss, stopper, mgr, tables, fresh, changed>>
    BY <1>4 DEF Puts, Serves
  <2> QED BY <2>1, <1>4, PutsOK, UnchangedOK
<1>5. CASE \/ dbHandleProbeMuxState
           \/ handleProbeForwardingState
  <2>1. PICK op \in Probes : Puts(op, "probe")
    BY <1>5 DEF dbHandleProbeMuxState, handleProbeForwardingState, Probes
  <2> QED BY <2>1, <1>4
<1>6. CASE \/ handleSetMuxState \/ handleSetPeerMuxState \/ handleSetMuxLinkmgrState
           \/ handlePostMuxMetrics \/ handlePostSwitchCause
           \/ handlePostLinkProberMetrics \/ handlePostPckLossRatio
           \/ handleIcmpEchoSession \/ handleDeleteIcmpEchoSession
  <2>1. PICK op \in States \cup Figures \cup {"CreateSession", "DeleteSession"} :
          Puts(op, Head(dbStrand).label)
    BY <1>6 DEF handleSetMuxState, handleSetPeerMuxState, handleSetMuxLinkmgrState,
         handlePostMuxMetrics, handlePostSwitchCause, handlePostLinkProberMetrics,
         handlePostPckLossRatio, handleIcmpEchoSession, handleDeleteIcmpEchoSession,
         States, Figures
  <2>2. op \notin Probes
    BY DEF Probes, States, Figures
  <2> QED BY <2>1, <2>2, <1>4
<1> QED BY <1>1, <1>2, <1>3, <1>5, <1>6 DEF DbStrand

-----------------------------------------------------------------------------
(* Handlers are posted to the strand of the databases *)

\* One handler.
LEMMA PostedOne ==
  ASSUME Written, NEW r \in DbHandlers, Labelled(r), NEW o, out' = o, o \in OutTypes,
         dbStrand' = Append(dbStrand, r), o.written = out.written,
         o.asked = Applied(out.asked, r), SessionsOfPorts(o.asked, PortsExist'),
         o.reads \subseteq out.reads, PortsExist => PortsExist'
  PROVE  Written'
<1> DEFINE s == Append(dbStrand, r)
           asked == o.asked
<1>1. /\ dbStrand \in Seq(DbHandlers) /\ Len(dbStrand) \in Nat
      /\ s \in Seq(DbHandlers) /\ Len(s) = Len(dbStrand) + 1
      /\ \A i \in 1 .. Len(dbStrand) : s[i] = dbStrand[i]
      /\ s[Len(dbStrand) + 1] = r
  BY AppendProperties, LenProperties DEF Written
<1>2. dbStrand' = s
  OBVIOUS
<1> HIDE DEF s
<1>3. \A i \in Len(dbStrand) + 1 .. Len(dbStrand) + 1 :
        /\ Labelled(s[i])
        /\ Applied(IF i = Len(dbStrand) + 1 THEN out.asked ELSE asked, s[i]) = asked
  BY <1>1
<1>4. asked \in Contents /\ asked = o.asked
  BY DEF OutTypes
<1> HIDE DEF asked
<1>5. PICK n \in Nat : n = 1
  OBVIOUS
<1> QED BY <1>1, <1>2, <1>3, <1>4, <1>5, WrittenPosted

\* What a handler of a port asks for comes after all that was asked before.
LEMMA HandleWritten ==
  ASSUME PortsInv, Written, NEW p \in DOMAIN mgr.ports, Handle(p)
  PROVE  PortsInv' /\ Written'
<1>1. /\ PortsInv'
      /\ \/ dbStrand' = dbStrand
         \/ p \in Ports /\ dbStrand' = Append(dbStrand, setMuxMode(p, "auto"))
      /\ out' = out /\ PortsExist' = PortsExist
  BY HandleOK DEF Handle, PortsExist
<1>2. CASE dbStrand' = dbStrand
  BY <1>1, <1>2, WrittenStays
<1>3. CASE p \in Ports /\ dbStrand' = Append(dbStrand, setMuxMode(p, "auto"))
  <2> DEFINE r == setMuxMode(p, "auto")
  <2>1. r \in DbHandlers /\ Labelled(r) /\ Applied(out.asked, r) = out.asked
    BY <1>3 DEF setMuxMode, DbHandlers, Labelled, Applied, Text, Probes
  <2> HIDE DEF r
  <2>2. SessionsOfPorts(out.asked, PortsExist') /\ out \in OutTypes
    BY <1>1 DEF Written, SessionsOfPorts, OutTypes
  <2> QED BY <1>1, <1>3, <2>1, <2>2, PostedOne DEF r
<1> QED BY <1>1, <1>2, <1>3

\* A link manager asks something of the databases.
LEMMA AskOK ==
  ASSUME PortsInv, Written,
         NEW op \in States \cup Probes \cup Figures
                    \cup {"GetMuxState", "CreateSession", "DeleteSession"},
         NEW p \in Ports, NEW label \in Text, op \in Probes => label = "probe",
         Ask(op, p, label)
  PROVE  PortsInv' /\ Written'
<1> DEFINE r == [op |-> op, port |-> p, label |-> label]
           w == <<Entry(op), p>>
           yes == op # "GetMuxState" /\ Accepted(op, label)
           asked == IF yes THEN [out.asked EXCEPT ![w] = label] ELSE out.asked
<1>1. /\ PortsExist /\ PortsExist' /\ dbStrand' = Append(dbStrand, r)
      /\ UNCHANGED <<main, swss, stopper, mgr, tables, fresh, changed>>
  BY DEF Ask, PortsInv, Phases, PortsExist
<1>2. out' = [out EXCEPT !.count = out.count + 1, !.asked = asked]
  BY DEF Ask
<1>3. op \notin {"UpdateInterval", "SetMuxMode"}
  BY DEF States, Probes, Figures
<1>4. r \in DbHandlers /\ Labelled(r)
  BY <1>3 DEF DbHandlers, Labelled
<1>5. Applied(out.asked, r) = asked
  BY <1>3 DEF Applied
<1>6. p \in Names /\ (yes => w \in Writes)
  <2>1. yes => Entry(op) \in States \cup Probes \cup Figures \cup {"IcmpEchoSession"}
    BY DEF Entry
  <2> QED BY <2>1 DEF Writes, Names
<1>7. asked \in Contents /\ out \in OutTypes
  <2> HIDE DEF w, yes
  <2> QED BY <1>6 DEF Written, OutTypes, Contents
<1>8. SessionsOfPorts(asked, PortsExist)
  <2>1. \A q \in Names : q # p => <<"IcmpEchoSession", q>> # w
    OBVIOUS
  <2> HIDE DEF w, yes
  <2>2. out.asked \in Contents
    BY DEF Written
  <2>3. ASSUME NEW q \in Names, q # p
        PROVE  asked[<<"IcmpEchoSession", q>>] = out.asked[<<"IcmpEchoSession", q>>]
    BY <2>1, <2>2, <2>3 DEF Contents
  <2> HIDE DEF asked
  <2> QED BY <2>3, <1>1 DEF Written, SessionsOfPorts
<1> HIDE DEF r, asked
<1>9. PICK o : o = out'
  OBVIOUS
<1>10. /\ o \in OutTypes /\ o.written = out.written /\ o.asked = asked
       /\ o.reads = out.reads
  <2> DEFINE count == out.count + 1
  <2>1. count \in Int
    BY <1>7 DEF OutTypes
  <2>2. o = [out EXCEPT !.count = count, !.asked = asked]
    BY <1>2, <1>9
  <2> HIDE DEF count
  <2> QED BY <2>1, <2>2, <1>7 DEF OutTypes
<1>11. PortsInv'
  BY <1>1, UnchangedOK
<1>12. SessionsOfPorts(o.asked, PortsExist')
  BY <1>1, <1>8, <1>10
<1> QED BY <1>1, <1>4, <1>5, <1>9, <1>10, <1>11, <1>12, PostedOne

\* A prober reads the interval for a session.
LEMMA ReadOK ==
  ASSUME PortsInv, Written, NEW op, NEW p \in Ports, readInterval(op, p)
  PROVE  PortsInv' /\ Written'
<1> DEFINE read == <<p, mgr.interval>>
<1>1. /\ UNCHANGED <<main, swss, stopper, mgr, dbStrand, tables, fresh, changed>>
      /\ p \in DOMAIN mgr.ports
      /\ out' = [out EXCEPT !.count = out.count + 1, !.reads = out.reads \cup {read}]
  BY DEF readInterval
<1>2. PortsExist /\ PortsExist'
  BY <1>1 DEF PortsInv, Phases, PortsExist
<1>3. read \in Ports \X Text /\ out \in OutTypes
  BY DEF PortsInv, Typed, Manager, Written, OutTypes
<1> HIDE DEF read
<1>4. PICK o : o = out'
  OBVIOUS
<1>5. o \in OutTypes /\ o.written = out.written /\ o.asked = out.asked
  <2> DEFINE count == out.count + 1
             reads == out.reads \cup {read}
  <2>1. count \in Int /\ reads \in SUBSET (Ports \X Text)
    BY <1>3 DEF OutTypes
  <2>2. o = [out EXCEPT !.count = count, !.reads = reads]
    BY <1>1, <1>4
  <2> HIDE DEF count, reads
  <2> QED BY <2>1, <2>2, <1>3 DEF OutTypes
<1>6. PortsInv'
  BY <1>1, UnchangedOK
<1> QED BY <1>1, <1>2, <1>4, <1>5, <1>6 DEF Written, OutTypes

\* It asks for the session later, with the interval it read.
LEMMA CreateSessionOK ==
  ASSUME PortsInv, Written, NEW read \in out.reads, createIcmpEchoSession(read[1], read[2])
  PROVE  PortsInv' /\ Written'
<1> DEFINE p == read[1]
           interval == read[2]
           r == [op |-> "CreateSession", port |-> p, label |-> interval]
           w == <<"IcmpEchoSession", p>>
           asked == [out.asked EXCEPT ![w] = interval]
           reads == out.reads \ {<<p, interval>>}
<1>1. /\ UNCHANGED <<main, swss, stopper, mgr, tables, fresh, changed>>
      /\ dbStrand' = Append(dbStrand, r)
      /\ out' = [out EXCEPT !.reads = reads, !.asked = asked]
  <2>1. out \in OutTypes
    BY DEF Written, OutTypes
  <2> QED BY <2>1 DEF createIcmpEchoSession, OutTypes
<1>2. PortsExist /\ PortsExist'
  BY <1>1 DEF Written, PortsExist
<1>3. out \in OutTypes /\ p \in Ports /\ interval \in Text /\ p \in Names
  BY DEF Written, OutTypes, Names
<1>4. r \in DbHandlers /\ Labelled(r)
  BY <1>3 DEF DbHandlers, Labelled, Probes
<1>5. Applied(out.asked, r) = asked
  BY DEF Applied, Entry, Accepted, Probes
<1>6. asked \in Contents /\ reads \subseteq out.reads
  <2>1. w \in Writes
    BY <1>3 DEF Writes, Names
  <2> HIDE DEF w, p, interval
  <2> QED BY <1>3, <2>1 DEF OutTypes, Contents
<1>7. SessionsOfPorts(asked, PortsExist')
  <2>1. \A q \in Names : q # p => <<"IcmpEchoSession", q>> # w
    OBVIOUS
  <2> HIDE DEF w, interval
  <2>2. out.asked \in Contents
    BY DEF Written
  <2>3. ASSUME NEW q \in Names, q # p
        PROVE  asked[<<"IcmpEchoSession", q>>] = out.asked[<<"IcmpEchoSession", q>>]
    BY <2>1, <2>2, <2>3 DEF Contents
  <2> HIDE DEF asked
  <2> QED BY <2>3, <1>2, <1>3 DEF Written, SessionsOfPorts
<1> HIDE DEF r, asked, reads
<1>8. PICK o : o = out'
  OBVIOUS
<1>9. /\ o \in OutTypes /\ o.written = out.written /\ o.asked = asked
      /\ o.reads \subseteq out.reads
  BY <1>1, <1>3, <1>6, <1>8 DEF OutTypes
<1>10. PortsInv'
  BY <1>1, UnchangedOK
<1> QED BY <1>1, <1>2, <1>4, <1>5, <1>7, <1>8, <1>9, <1>10, PostedOne

\* What a link manager asks of the databases is appended to their strand.
LEMMA RequestOK ==
  ASSUME PortsInv, Written, NEW r \in Requests,
         \/ AskState(r[1], r[2], r[3])
         \/ postMetricsEvent(r[1], r[2], r[3])
         \/ readInterval(r[1], r[2])
         \/ deleteIcmpEchoSession(r[1], r[2])
  PROVE  PortsInv' /\ Written'
<1> DEFINE op == r[1]
           p == r[2]
           label == r[3]
<1>1. /\ op \in States \cup Figures
               \cup {"Probe", "GetMuxState", "CreateSession", "DeleteSession"}
      /\ p \in Ports /\ label \in Text
  BY LinkmgrdAssumption DEF Text
<1>2. mgr.interval \in Text /\ None \in Text /\ "probe" \in Text
  BY DEF PortsInv, Typed, Manager, Text
<1>3. \A x \in States \cup Figures \cup {"GetMuxState", "CreateSession", "DeleteSession"} :
        x \notin Probes
  BY DEF States, Probes, Figures
<1> HIDE DEF op, p, label
<1>4. CASE AskState(op, p, label)
  <2>1. CASE op \in States \cup {"GetMuxState"} /\ Ask(op, p, label)
    BY <1>1, <1>3, <2>1, AskOK
  <2>2. CASE op = "Probe" /\ p \in DOMAIN mgr.ports
             /\ Ask(probeMuxState(mgr.ports[p]), p, "probe")
    <3>1. PICK x : x = probeMuxState(mgr.ports[p])
      OBVIOUS
    <3>2. x \in Probes
      BY <3>1 DEF probeMuxState, Probes
    <3>3. PICK word \in Text : word = "probe"
      BY <1>2
    <3>4. Ask(x, p, word)
      BY <2>2, <3>1, <3>3
    <3> QED BY <1>1, <3>2, <3>3, <3>4, AskOK
  <2> QED BY <1>4, <2>1, <2>2 DEF AskState
<1>5. CASE postMetricsEvent(op, p, label)
  BY <1>1, <1>3, <1>5, AskOK DEF postMetricsEvent
<1>6. CASE readInterval(op, p)
  BY <1>1, <1>6, ReadOK
<1>7. CASE deleteIcmpEchoSession(op, p)
  <2>1. PICK word \in Text : word = None
    BY <1>2
  <2>2. op = "DeleteSession" /\ Ask(op, p, word)
    BY <1>7, <2>1 DEF deleteIcmpEchoSession
  <2> QED BY <1>1, <1>3, <2>2, AskOK
<1> QED BY <1>4, <1>5, <1>6, <1>7 DEF op, p, label

\* A new interval: every port asks for it.
LEMMA IntervalWritten ==
  ASSUME PortsInv, Written, NEW field \in IntervalFields, updateInterval(field)
  PROVE  PortsInv' /\ Written'
<1> DEFINE k == <<"LINK_PROBER", field>>
           word == tables[k]
           update == [op |-> "UpdateInterval", port |-> None, label |-> word]
           n == Cardinality(DOMAIN mgr.ports)
           posted == [i \in 1 .. n |-> update]
           s == dbStrand \o posted
           asked == InAllSessions(out.asked, word)
           L == Len(dbStrand)
<1>1. PortsInv' /\ PortsExist' = PortsExist
  BY IntervalOK DEF updateInterval, Takes, PortsExist
<1>2. /\ Takes(k, setTimeout_msec(mgr, word, field = "interval_v4"))
      /\ dbStrand' = s /\ out' = [out EXCEPT !.asked = asked]
  BY DEF updateInterval
<1>3. word \in Text
  BY <1>2, TakesFacts
<1>4. n \in Nat /\ (n = 0 => DOMAIN mgr.ports = {})
  <2>1. IsFiniteSet(DOMAIN mgr.ports)
    BY DEF PortsInv, Phases
  <2> QED BY <2>1, FS_CardinalityType, FS_EmptySet
<1> HIDE DEF word, n
<1>5. update \in DbHandlers /\ Labelled(update)
  BY <1>3 DEF DbHandlers, Labelled, Probes
<1>6. /\ out \in OutTypes /\ out.asked \in Contents /\ dbStrand \in Seq(DbHandlers)
      /\ L \in Nat
  BY LenProperties DEF Written, OutTypes
<1>7. /\ asked \in Contents
      /\ \A p \in Names : asked[<<"IcmpEchoSession", p>>] # None
                          => out.asked[<<"IcmpEchoSession", p>>] # None
  BY <1>3, <1>6, AllSessionsTyped
<1>8. Applied(out.asked, update) = asked /\ Applied(asked, update) = asked
  <2>1. InAllSessions(asked, word) = asked
    BY <1>6, <1>3 DEF InAllSessions, Contents
  <2> QED BY <2>1 DEF Applied
<1>9. n = 0 => asked = out.asked
  <2>1. ASSUME n = 0, NEW w \in Writes PROVE asked[w] = out.asked[w]
    <3>1. w[1] = "IcmpEchoSession" => out.asked[w] = None
      <4>1. DOMAIN mgr.ports = {}
        BY <1>4, <2>1
      <4>2. w = <<w[1], w[2]>> /\ w[2] \in Names
        BY DEF Writes, Names
      <4>3. PortsExist => Ports \subseteq DOMAIN mgr.ports
        BY DEF PortsInv, Phases, PortsExist
      <4> QED BY <4>1, <4>2, <4>3 DEF Written
    <3> QED BY <3>1, <1>6 DEF InAllSessions, Contents
  <2>2. /\ asked = [w \in Writes |-> asked[w]]
        /\ out.asked = [w \in Writes |-> out.asked[w]]
    BY <1>6, <1>7 DEF Contents
  <2> HIDE DEF asked
  <2> QED BY <2>1, <2>2
<1>10. SessionsOfPorts(asked, PortsExist')
  BY <1>1, <1>7 DEF SessionsOfPorts, Written
<1> HIDE DEF update, asked
<1>11. /\ posted \in Seq(DbHandlers) /\ Len(posted) = n
       /\ \A i \in 1 .. n : posted[i] = update
  BY <1>4, <1>5
<1> HIDE DEF posted
<1>12. /\ s \in Seq(DbHandlers) /\ Len(s) = L + n
       /\ \A i \in 1 .. L : s[i] = dbStrand[i]
       /\ \A i \in L + 1 .. L + n : s[i] = update
  <2>1. /\ s \in Seq(DbHandlers) /\ Len(s) = L + n
        /\ \A i \in 1 .. L + n : s[i] = IF i <= L THEN dbStrand[i] ELSE posted[i - L]
    BY <1>6, <1>11, ConcatProperties
  <2>2. ASSUME NEW i \in L + 1 .. L + n PROVE s[i] = update
    <3>1. i \in 1 .. L + n /\ ~(i <= L) /\ i - L \in 1 .. n
      BY <1>4, <1>6
    <3> QED BY <3>1, <2>1, <1>11
  <2>3. ASSUME NEW i \in 1 .. L PROVE s[i] = dbStrand[i]
    <3>1. i \in 1 .. L + n /\ i <= L
      BY <1>4, <1>6
    <3> QED BY <3>1, <2>1
  <2> QED BY <2>1, <2>2, <2>3
<1> HIDE DEF s
<1>13. PICK o : o = out'
  OBVIOUS
<1>14. o \in OutTypes /\ o.written = out.written /\ o.asked = asked /\ o.reads = out.reads
  BY <1>2, <1>6, <1>7, <1>13 DEF OutTypes
<1>15. \A i \in L + 1 .. L + n :
         /\ Labelled(s[i])
         /\ Applied(IF i = L + 1 THEN out.asked ELSE asked, s[i]) = asked
  BY <1>5, <1>8, <1>12
<1> QED BY <1>1, <1>2, <1>4, <1>7, <1>9, <1>10, <1>12, <1>13, <1>14, <1>15, WrittenPosted

\* The wait of a warm restart is over: the mode of every port that is left.
LEMMA TimeoutWritten ==
  ASSUME PortsInv, Written, handleWarmRestartReconciliationTimeout
  PROVE  PortsInv' /\ Written'
<1> DEFINE order == SetToSeq(NotAuto)
           posted == [i \in 1 .. Len(order) |-> setMuxMode(order[i], "auto")]
           s == dbStrand \o posted
           L == Len(dbStrand)
           n == Len(order)
<1>1. PortsInv' /\ PortsExist' = PortsExist
  BY TimerOK DEF handleWarmRestartReconciliationTimeout, PortsExist
<1>2. dbStrand' = s /\ out' = out
  BY DEF handleWarmRestartReconciliationTimeout
<1>3. order \in Seq(Ports)
  <2>1. NotAuto \subseteq Ports /\ IsFiniteSet(Ports)
    BY LinkmgrdAssumption DEF NotAuto
  <2>2. PICK S : S = NotAuto
    OBVIOUS
  <2>3. IsFiniteSet(S)
    BY <2>1, <2>2, FS_Subset
  <2>4. Cardinality(S) \in Nat /\ ExistsBijection(1 .. Cardinality(S), S)
    BY <2>3, FS_CardinalityType
  <2>5. \E f \in [1 .. Cardinality(S) -> S] : IsInjective(f)
    BY <2>4 DEF ExistsBijection, Bijection, Injection
  <2>6. SetToSeq(S) \in [1 .. Cardinality(S) -> S]
    BY <2>5 DEF SetToSeq
  <2> QED BY <2>1, <2>2, <2>4, <2>6
<1> HIDE DEF order
<1>4. n \in Nat /\ \A i \in 1 .. n : order[i] \in Ports
  BY <1>3, LenProperties, ElementOfSeq
<1>5. \A p \in Ports : LET r == setMuxMode(p, "auto") IN
        r \in DbHandlers /\ Labelled(r) /\ Applied(out.asked, r) = out.asked
  BY DEF setMuxMode, DbHandlers, Labelled, Applied, Text, Probes
<1>6. /\ posted \in Seq(DbHandlers) /\ Len(posted) = n
      /\ \A i \in 1 .. n : /\ Labelled(posted[i])
                           /\ Applied(out.asked, posted[i]) = out.asked
  BY <1>4, <1>5
<1> HIDE DEF posted, n
<1>7. out \in OutTypes /\ dbStrand \in Seq(DbHandlers) /\ L \in Nat
  BY LenProperties DEF Written, OutTypes
<1> DEFINE asked == out.asked
<1>8. /\ s \in Seq(DbHandlers) /\ Len(s) = L + n
      /\ \A i \in 1 .. L : s[i] = dbStrand[i]
      /\ \A i \in L + 1 .. L + n : Labelled(s[i]) /\ Applied(asked, s[i]) = asked
  <2>1. /\ s \in Seq(DbHandlers) /\ Len(s) = L + n
        /\ \A i \in 1 .. L + n : s[i] = IF i <= L THEN dbStrand[i] ELSE posted[i - L]
    BY <1>6, <1>7, ConcatProperties
  <2>2. ASSUME NEW i \in L + 1 .. L + n
        PROVE  Labelled(s[i]) /\ Applied(asked, s[i]) = asked
    <3>1. i \in 1 .. L + n /\ ~(i <= L) /\ i - L \in 1 .. n
      BY <1>4, <1>7 DEF n
    <3>2. s[i] = posted[i - L]
      BY <3>1, <2>1
    <3> QED BY <3>1, <3>2, <1>6
  <2>3. ASSUME NEW i \in 1 .. L PROVE s[i] = dbStrand[i]
    <3>1. i \in 1 .. L + n /\ i <= L
      BY <1>4, <1>7 DEF n
    <3> QED BY <3>1, <2>1
  <2> QED BY <2>1, <2>2, <2>3
<1> HIDE DEF s
<1>9. /\ asked \in Contents /\ asked = out.asked
      /\ SessionsOfPorts(asked, PortsExist')
  BY <1>1, <1>7 DEF OutTypes, Written, SessionsOfPorts
<1> HIDE DEF asked
<1>10. n \in Nat
  BY <1>4 DEF n
<1>11. \A i \in L + 1 .. L + n :
         /\ Labelled(s[i])
         /\ Applied(IF i = L + 1 THEN out.asked ELSE asked, s[i]) = asked
  BY <1>8, <1>9
<1>12. PICK o : o = out
  OBVIOUS
<1> QED BY <1>1, <1>2, <1>7, <1>8, <1>9, <1>10, <1>11, <1>12, WrittenPosted

-----------------------------------------------------------------------------
(* Every step *)

\* Every notification of the databases.
LEMMA NotificationOK ==
  ASSUME IInv, Notification
  PROVE  IInv'
<1>1. CASE \E field \in IntervalFields : updateInterval(field)
  BY <1>1, IntervalWritten DEF IInv
<1>2. CASE \E p \in Names :
             \/ processMuxPortConfigNotifiction(p) \/ processPckLossDataReset(p)
             \/ processLinkStateNotifiction(p) \/ processPeerLinkStateNotification(p)
             \/ processMuxStateNotifiction(p) \/ processMuxResponseNotifiction(p)
             \/ processForwardingResponseNotification(p) \/ processPeerMuxNotification(p)
             \/ processIcmpEchoSessionStateNotification(p) \/ updateServerMacAddress(p)
  <2>1. PortsInv'
    BY <1>2, NotificationOfOne DEF IInv
  <2>2. UNCHANGED <<dbStrand, out>> /\ PortsExist' = PortsExist
    BY <1>2 DEF processMuxPortConfigNotifiction, processPckLossDataReset,
      processLinkStateNotifiction, processPeerLinkStateNotification,
      processMuxStateNotifiction, processMuxResponseNotifiction,
      processForwardingResponseNotification, processPeerMuxNotification,
      processIcmpEchoSessionStateNotification, updateServerMacAddress,
      TakesUp, Takes, PortsExist
  <2> QED BY <2>1, <2>2, WrittenStays DEF IInv
<1>3. CASE \/ \E family \in {"0.0.0.0/0", "::/0"} :
                processDefaultRouteStateNotification(family)
           \/ processTsaEnableNotification
           \/ \E field \in LinkProberFields : processMuxLinkmgrConfigNotifiction(field)
  <2>1. PortsInv'
    BY <1>3, NotificationOfAll DEF IInv
  <2>2. UNCHANGED <<dbStrand, out>> /\ PortsExist' = PortsExist
    BY <1>3 DEF processDefaultRouteStateNotification, processTsaEnableNotification,
      processMuxLinkmgrConfigNotifiction, TakesUp, Takes, PortsExist
  <2> QED BY <2>1, <2>2, WrittenStays DEF IInv
<1> QED BY <1>1, <1>2, <1>3 DEF Notification, Names

\* Every read of the configuration.
LEMMA ReadsOK ==
  ASSUME IInv,
         \/ processTorMacAddress \/ getVlanMacAddress \/ processLoopbackInterfacesInfo
         \/ processPortCableType \/ processProberType \/ processServerIpAddress
         \/ processSoCIpAddress
  PROVE  IInv'
<1>1. PortsInv'
  BY ReadsMembers, CableTypesOK, ProberTypesOK, ReadsAddresses DEF IInv
<1>2. UNCHANGED <<dbStrand, out>> /\ (PortsExist => PortsExist')
  BY DEF processTorMacAddress, getVlanMacAddress, processLoopbackInterfacesInfo,
    processPortCableType, processProberType, processServerIpAddress,
    processSoCIpAddress, Reads, PortsExist, Beginning
<1> QED BY <1>1, <1>2, WrittenStays DEF IInv

\* The manager begins without ports.
LEMMA EmptyMap ==
  ASSUME NEW S
  PROVE  <<>> \in MapsTo(S)
<1> DEFINE none == <<>>
<1>1. none \in Seq(S) /\ Len(none) = 0
  BY EmptySeq
<1> HIDE DEF none
<1>2. none \in [1 .. 0 -> S]
  BY <1>1, LenProperties
<1>3. 1 .. 0 = {}
  OBVIOUS
<1>4. none \in [{} -> S] /\ {} \in SUBSET Names
  BY <1>2, <1>3
<1> QED BY <1>4 DEF MapsTo, none

\* The process starts in the invariant,
LEMMA InductiveInit ==
  Init => IInv
<1> SUFFICES ASSUME Init PROVE IInv
  OBVIOUS
<1>1. PICK start \in Starts : mgr = NewManager(start)
  BY DEF Init
<1>2. mgr.ports = <<>> /\ mgr.cables = <<>> /\ DOMAIN mgr.ports = {} /\ DOMAIN mgr.cables = {}
  BY <1>1 DEF NewManager
<1>3. <<>> \in MapsTo(Port) /\ <<>> \in MapsTo(CableTypes)
  BY EmptyMap
<1>4. 0 \in Counts
  BY DEF Counts
<1>5. mgr \in Manager
  BY <1>1, <1>3, <1>4 DEF NewManager, Manager, Text, None
<1>6. tables \in [Keys -> Text] /\ \A k \in Keys : tables[k] \in Words(k)
  BY LinkmgrdAssumption DEF Init, Text, Words
<1>7. Typed
  BY <1>5, <1>6 DEF Init, Typed
<1>8. IsFiniteSet({})
  BY FS_EmptySet
<1>9. Phases
  BY <1>1, <1>2, <1>8 DEF Init, Phases, Beginning, NewManager
<1>10. Stored
  BY <1>1, <1>6 DEF Init, Stored, NewManager, Holds, None
<1>11. NothingTaken
  BY DEF Init, NothingTaken
<1>12. Written
  <2> DEFINE nothing == [w \in Writes |-> None]
             f == [i \in 0 .. 0 |-> nothing]
  <2>1. nothing \in Contents
    BY DEF Contents, Text
  <2>2. \A w \in Writes : nothing[w] = None
    OBVIOUS
  <2>3. /\ out = [asked |-> nothing, written |-> nothing, reads |-> {}, count |-> 0]
        /\ dbStrand = <<>>
    BY DEF Init
  <2> HIDE DEF nothing
  <2>4. Len(dbStrand) = 0 /\ dbStrand \in Seq(DbHandlers)
    BY <2>3
  <2>5. Replay(f, dbStrand, out.written, out.asked) /\ f \in [0 .. Len(dbStrand) -> Contents]
    BY <2>1, <2>3, <2>4 DEF Replay
  <2>6. out \in OutTypes
    BY <2>1, <2>3 DEF OutTypes
  <2>7. \A p \in Names : out.asked[<<"IcmpEchoSession", p>>] = None
    BY <2>2, <2>3 DEF Writes, Names
  <2> HIDE DEF f
  <2>8. out.reads = {} /\ \A i \in 1 .. Len(dbStrand) : FALSE
    BY <2>3, <2>4
  <2> QED BY <2>4, <2>5, <2>6, <2>7, <2>8 DEF Written, OutTypes
<1> QED BY <1>2, <1>7, <1>9, <1>10, <1>11, <1>12 DEF IInv, PortsInv

\* every step keeps it,
LEMMA InductiveNext ==
  IInv /\ [Next]_vars => IInv'
<1> SUFFICES ASSUME IInv, [Next]_vars PROVE IInv'
  OBVIOUS
<1>0. PortsInv /\ Written
  BY DEF IInv
<1>1. CASE MainThread
  <2>1. PortsInv'
    BY <1>0, <1>1, MainThreadOK
  <2>2. UNCHANGED <<dbStrand, out>> /\ (PortsExist => PortsExist')
    BY <1>0, <1>1 DEF MainThread, initialize, StartTimer, EnableFeatures, deinitialize,
      PortsExist, PortsInv, Phases, Beginning
  <2> QED BY <1>0, <2>1, <2>2, WrittenStays DEF IInv
<1>2. CASE \/ processTorMacAddress \/ getVlanMacAddress \/ processLoopbackInterfacesInfo
           \/ processPortCableType \/ processProberType \/ processServerIpAddress
           \/ processSoCIpAddress
  BY <1>2, ReadsOK
<1>3. CASE Notification
  BY <1>3, NotificationOK
<1>4. CASE handleSignal \/ LeaveLoop \/ Meet1 \/ stop \/ Meet2 \/ terminate
  <2>1. PortsInv' /\ UNCHANGED <<mgr, dbStrand, out>>
    BY <1>0, <1>4, EndOK
  <2>2. PortsExist => PortsExist'
    BY <1>4 DEF handleSignal, LeaveLoop, Meet1, stop, Meet2, terminate, PortsExist, Beginning
  <2> QED BY <1>0, <2>1, <2>2, WrittenStays DEF IInv
<1>5. CASE \E p \in DOMAIN mgr.ports : Handle(p)
  BY <1>0, <1>5, HandleWritten DEF IInv
<1>6. CASE \E p \in DOMAIN mgr.ports : RunAgain(p)
  <2>1. PortsInv' /\ UNCHANGED <<dbStrand, out>>
    BY <1>0, <1>6, RunsAgainOK
  <2>2. PortsExist => PortsExist'
    BY <1>6 DEF RunAgain, PortsExist
  <2> QED BY <1>0, <2>1, <2>2, WrittenStays DEF IInv
<1>7. CASE HandleCount
  <2>1. PortsInv' /\ UNCHANGED <<dbStrand, out>>
    BY <1>0, <1>7, HandleCountOK
  <2>2. PortsExist => PortsExist'
    BY <1>7 DEF HandleCount, PortsExist
  <2> QED BY <1>0, <2>1, <2>2, WrittenStays DEF IInv
<1>8. CASE handleWarmRestartReconciliationTimeout
  BY <1>0, <1>8, TimeoutWritten DEF IInv
<1>9. CASE TimerExpires
  <2>1. PortsInv'
    BY <1>0, <1>9, TimerOK
  <2>2. UNCHANGED <<dbStrand, out>> /\ (PortsExist => PortsExist')
    BY <1>9 DEF TimerExpires, PortsExist
  <2> QED BY <1>0, <2>1, <2>2, WrittenStays DEF IInv
<1>10. CASE DbStrand
  BY <1>0, <1>10, DbStrandOK DEF IInv
<1>11. CASE \E k \in Keys : Change(k)
  <2>1. PortsInv'
    BY <1>0, <1>11, ChangeOK
  <2>2. UNCHANGED <<dbStrand, out>> /\ (PortsExist => PortsExist')
    BY <1>11 DEF Change, PortsExist
  <2> QED BY <1>0, <2>1, <2>2, WrittenStays DEF IInv
<1>12. CASE \E r \in Requests : \/ AskState(r[1], r[2], r[3])
                                \/ postMetricsEvent(r[1], r[2], r[3])
                                \/ readInterval(r[1], r[2])
                                \/ deleteIcmpEchoSession(r[1], r[2])
  BY <1>0, <1>12, RequestOK DEF IInv
<1>13. CASE UNCHANGED vars
  <2>1. PortsInv'
    BY <1>0, <1>13, UnchangedOK DEF vars
  <2>2. UNCHANGED <<dbStrand, out>> /\ (PortsExist => PortsExist')
    BY <1>13 DEF vars, PortsExist
  <2> QED BY <1>0, <2>1, <2>2, WrittenStays DEF IInv
<1>14. CASE \E read \in out.reads : createIcmpEchoSession(read[1], read[2])
  BY <1>0, <1>14, CreateSessionOK DEF IInv
<1> QED BY <1>1, <1>2, <1>3, <1>4, <1>5, <1>6, <1>7, <1>8, <1>9, <1>10, <1>11, <1>12, <1>13,
           <1>14
        DEF Next, System, Environment, DbThread, Workers

\* and so it always holds.
LEMMA Inductive ==
  Spec => []IInv
BY InductiveInit, InductiveNext, PTL DEF Spec

-----------------------------------------------------------------------------
(* The properties *)

\* The port of every name is of a type the code has, its prober too, and every port
\* that was created has a cable type.  This needs none of the assumptions: the sixteen
\* bits of the count hold whatever is counted down (MuxManager.cpp:628), and no
\* prober is made before its type is known (LinkManagerStateMachineActiveActive.cpp:125).
THEOREM TypesAreThoseOfTheCode ==
  Spec => []TypeOK
<1>1. IInv => TypeOK
  <2> SUFFICES ASSUME PortsInv PROVE TypeOK
    BY DEF IInv
  <2>1. mgr \in Manager /\ Typed /\ Phases
    BY DEF PortsInv, Typed
  <2>2. mgr.count \in Counts
    BY <2>1 DEF Manager
  <2>3. /\ DOMAIN mgr.ports \subseteq DOMAIN mgr.cables
        /\ DOMAIN mgr.cables \subseteq Ports \cup Strangers
        /\ mgr.timer \in {"Off", "Waiting", "Expired", "Aborted"}
    BY <2>1, ManagerFacts DEF Phases, Manager, Names
  <2>4. ASSUME NEW p \in DOMAIN mgr.ports
        PROVE  /\ mgr.ports[p].cable \in CableTypes
               /\ mgr.ports[p].proberType \in ProberTypes \cup {"uninitialized"}
               /\ mgr.ports[p].fitted \in ProberTypes \cup {None}
               /\ mgr.ports[p].init \subseteq Components
    <3>1. mgr.ports[p] \in Port /\ Built(p, mgr.ports[p])
      BY <2>1, ManagerFacts DEF PortsInv, PortOK
    <3>2. Cable \in [Ports -> CableTypes] /\ Prober \in [Ports -> ProberTypes]
      BY LinkmgrdAssumption
    <3>3. mgr.ports[p].fitted \in ProberTypes \cup {None}
      BY <3>1, <3>2 DEF Built, CableTypes, ProberTypes
    <3> QED BY <3>1, <3>3 DEF Port
  <2>5. /\ main \in {"StartThread", "StartTimer", "EnableFeatures", "run", "exit"}
        /\ swss \in {"none", "getTorMacAddress", "getVlanNames", "getLoopbackInterfacesInfo",
                     "getPortCableType", "getProberType", "getServerIpAddress",
                     "getSoCIpAddress", "select", "barrier1", "barrier2", "terminate", "ended"}
        /\ stopper \in {"none", "barrier1", "stop", "barrier2", "done"}
    BY <2>1 DEF Typed
  <2> QED BY <2>2, <2>3, <2>4, <2>5 DEF TypeOK
<1> QED BY <1>1, Inductive, PTL

\* A port is built for the cable type of the configuration and its prober for the
\* prober type of the configuration, whatever mentions the port first, and its
\* heartbeats have addresses (MuxManager.cpp:484,
\* LinkManagerStateMachineActiveActive.cpp:125, LinkProberBase.cpp:330).  The address
\* of the source may be missing only where the VLAN has none and somebody configures
\* it all the same.
THEOREM PortsAreBuiltAsConfigured ==
  ASSUME SourceKnown
  PROVE  Spec => []BuiltAsConfigured
<1>1. IInv => BuiltAsConfigured
  <2> SUFFICES ASSUME PortsInv, NEW p \in DOMAIN mgr.ports \cap Ports
               PROVE  LET port == mgr.ports[p] IN
                      /\ port.cable = Cable[p]
                      /\ Cable[p] = "active-active" => port.fitted \in {None, Prober[p]}
                      /\ port.frame # NoFrame =>
                           /\ port.frame.source # None
                           /\ port.frame.address = "Loopback2" <=> mgr.start.loopback
    BY DEF IInv, BuiltAsConfigured
  <2> DEFINE port == mgr.ports[p]
  <2>1. Built(p, port) /\ FrameOK(port, Config(mgr)) /\ Phases
    BY DEF PortsInv, PortOK
  <2>2. mgr.loopback = (IF mgr.start.loopback THEN "Loopback2" ELSE "default")
    BY <2>1 DEF Phases, Beginning
  <2>3. Config(mgr).loopback = mgr.loopback
    BY DEF Config
  <2> QED BY <2>1, <2>2, <2>3 DEF Built, FrameOK
<1> QED BY <1>1, Inductive, PTL

\* With the strand of a port empty, the port has been told the label.
LEMMA ToldLast ==
  ASSUME NEW port, NEW h, NEW label, port.strand = <<>>, LastIs(port, h, label)
  PROVE  port.told[h] = label
BY DEF LastIs, On

\* With the strand of the databases empty, they hold what was asked.
LEMMA AllWritten ==
  ASSUME Written, dbStrand = <<>>
  PROVE  out.written = out.asked
BY DEF Written, Replay

\* When nothing is under way, every link manager has been told last what the tables
\* hold, an active-standby port runs the mode of now, heartbeats have the addresses of
\* now, and the databases hold what was asked of them last: nothing is lost or
\* overtaken by the start, by the creation and initialization of ports, or by other
\* notifications (DbInterface.cpp:1813 and :408, MuxManager.cpp:442, MuxPort.cpp:156).
THEOREM AgreeWhenAtRest ==
  ASSUME SourceKnown
  PROVE  Spec => []PortsAndDatabasesAgree
<1>1. IInv => PortsAndDatabasesAgree
  <2> SUFFICES ASSUME PortsInv, Written, AtRest PROVE PortsAndDatabasesAgree
    BY DEF IInv, PortsAndDatabasesAgree
  <2>1. out.written = out.asked
    BY AllWritten DEF AtRest
  <2>2. /\ fresh = {} /\ Phases /\ Stored /\ mgr \in Manager
        /\ Ports \subseteq DOMAIN mgr.ports
    BY DEF AtRest, PortsInv, Phases, Typed, Beginning
  <2>3. ASSUME NEW p \in Ports
        PROVE  LET told == mgr.ports[p].told
                   Says(key, handler, label) == Holds(key) # None => told[handler] = label
                   link  == <<"PORT_TABLE", p>>
                   mux   == <<"MUX_CABLE_TABLE", p>>
                   info  == <<"MUX_CABLE_INFO", p>>
                   route == <<"ROUTE_TABLE", "0.0.0.0/0">>
                   word  == IF Holds(route) = "ok" THEN "ok" ELSE "na"
                   peers == {key \in {<<"HW_MUX_CABLE_TABLE_PEER", p>>,
                               <<"FORWARDING_STATE_RESPONSE_PEER", p>>} : Holds(key) # None}
               IN /\ Says(link, "LinkState", LinkLabel(Holds(link)))
                  /\ Says(mux, "MuxState", MuxLabel(Holds(mux)))
                  /\ Says(info, "PeerLinkState", PeerLinkLabel(Holds(info)))
                  /\ \/ Says(route, "DefaultRouteState",
                             RouteLabel(word, DefaultRouteFeature))
                     \/ /\ route \notin changed
                        /\ Says(route, "DefaultRouteState", RouteLabel(word, FALSE))
                  /\ \/ peers = {}
                     \/ \E key \in peers : told["PeerMuxState"] = MuxLabel(Holds(key))
                  /\ Cable[p] = "active-standby" => ModeIsKnown(p)
                  /\ mgr.ports[p].frame \in {NoFrame, Addresses(p)}
    <3> DEFINE port == mgr.ports[p]
               table == <<"HW_MUX_CABLE_TABLE_PEER", p>>
               probe == <<"FORWARDING_STATE_RESPONSE_PEER", p>>
               neigh == <<"NEIGH", p>>
    <3>1. /\ ToldOK(p, port) /\ PortOK(p, port, Config(mgr)) /\ port \in Port
          /\ port.strand = <<>>
      BY <2>2, <2>3, ManagerFacts DEF PortsInv, AtRest
    <3>2. \A k : Holds(k) # None => Taken(k) /\ Holds(k) = tables[k]
      BY <2>2 DEF Holds, Taken
    <3>3. \A k : Taken(k) => Holds(k) # None /\ Holds(k) = tables[k]
      BY DEF Holds, Taken
    <3> HIDE DEF port
    <3>4. \A h, label : LastIs(port, h, label) => port.told[h] = label
      BY <3>1, ToldLast
    <3>5. \A g : ~On(port, g)
      BY <3>1 DEF On
    <3> DEFINE link  == <<"PORT_TABLE", p>>
               mux   == <<"MUX_CABLE_TABLE", p>>
               info  == <<"MUX_CABLE_INFO", p>>
               word  == IF Holds(route4) = "ok" THEN "ok" ELSE "na"
    <3>6. /\ Holds(link) # None => port.told["LinkState"] = LinkLabel(Holds(link))
          /\ Holds(mux) # None => port.told["MuxState"] = MuxLabel(Holds(mux))
          /\ Holds(info) # None => port.told["PeerLinkState"] = PeerLinkLabel(Holds(info))
      BY <3>1, <3>2, <3>4 DEF ToldOK
    <3>7. \/ Holds(route4) # None =>
               port.told["DefaultRouteState"] = RouteLabel(word, DefaultRouteFeature)
          \/ /\ route4 \notin changed
             /\ Holds(route4) # None =>
                  port.told["DefaultRouteState"] = RouteLabel(word, FALSE)
      BY <3>1, <3>2, <3>4 DEF ToldOK, Route, IsRoute
    <3>8. \/ Holds(table) = None /\ Holds(probe) = None
          \/ Holds(table) # None /\ port.told["PeerMuxState"] = MuxLabel(Holds(table))
          \/ Holds(probe) # None /\ port.told["PeerMuxState"] = MuxLabel(Holds(probe))
      BY <2>2, <3>1, <3>2, <3>3, <3>4 DEF ToldOK
    <3>9. port.told["GetServerMacAddress"] = Holds(neigh)
      BY <2>2, <3>1, <3>4 DEF ToldOK
    <3>10. port.frame \in {NoFrame, Addresses(p)}
      <4> SUFFICES ASSUME port.frame # NoFrame PROVE port.frame = Addresses(p)
        OBVIOUS
      <4> DEFINE config == Config(mgr)
      <4>1. /\ port.frame.address = config.loopback
            /\ port.frame.dest = port.blade
            /\ port.frame.source = config.source
        BY <3>1, <3>5 DEF PortOK, FrameOK
      <4>2. port.blade = IF port.cable = "active-active" /\ config.useWellKnownMac
                         THEN "known" ELSE Holds(neigh)
        BY <3>1, <3>5, <3>9 DEF PortOK, BladeOK
      <4>3. port.cable = Cable[p]
        BY <3>1, <2>3 DEF PortOK, Built
      <4>4. config.useWellKnownMac <=> Holds(wellKnown) \in {None, "enable"}
        BY <2>2 DEF Stored, Config
      <4>5. config.loopback = (IF mgr.start.loopback THEN "Loopback2" ELSE "default")
        BY <2>2 DEF Phases, Config, AtRest, Beginning
      <4>6. config.source = IF Holds(srcMac) = "ToRMac" \/ ~mgr.start.vlanMac
                            THEN "tor" ELSE "vlan"
        BY <2>2 DEF Phases, Config, AtRest, Beginning, Stored
      <4>7. Addresses(p) =
              [source |-> config.source, dest |-> port.blade, address |-> config.loopback]
        BY <4>2, <4>3, <4>4, <4>5, <4>6 DEF Addresses, srcMac, wellKnown
      <4>8. port.frame = [source |-> port.frame.source, dest |-> port.frame.dest,
                          address |-> port.frame.address]
        BY <3>1 DEF Port
      <4> HIDE DEF config
      <4> QED BY <4>1, <4>7, <4>8
    <3>11. ASSUME Cable[p] = "active-standby" PROVE ModeIsKnown(p)
      <4> DEFINE config == <<"MUX_CABLE", p>>
      <4> SUFFICES ASSUME config \in Keys, tables[config] # None,
                          Understood(port, tables[config])
                   PROVE  \/ port.told["MuxConfig"] = ModeLabel(tables[config])
                          \/ /\ tsa \in Keys /\ tables[tsa] # None
                             /\ port.told["MuxConfig"] = TsaLabel(tables[tsa] = "true")
        BY DEF ModeIsKnown, tsa, port
      <4>1. port.cable = "active-standby"
        BY <3>1, <3>11, <2>3 DEF PortOK, Built
      <4>2. Taken(config) /\ tsa \notin fresh
        BY <2>2 DEF Taken
      <4>3. \/ LastIs(port, "MuxConfig", ModeLabel(tables[config]))
            \/ Taken(tsa) /\ LastIs(port, "MuxConfig", TsaLabel(tables[tsa] = "true"))
        BY <3>1, <4>1, <4>2 DEF ToldOK
      <4> QED BY <3>4, <4>3 DEF Taken
    <3> QED BY <3>6, <3>7, <3>8, <3>10, <3>11 DEF port, route4
  <2> QED BY <2>1, <2>3 DEF PortsAndDatabasesAgree
<1> QED BY <1>1, Inductive, PTL

=============================================================================
