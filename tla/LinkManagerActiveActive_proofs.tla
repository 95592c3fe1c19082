-------------------- MODULE LinkManagerActiveActive_proofs --------------------
(***************************************************************************)
(* Proofs about the link manager of an active-active port, for every value *)
(* of the constants, every set of reports and any number of handlers       *)
(* waiting on the strand.                                                  *)
(*                                                                         *)
(* As for an active-standby port the proof is about a relation between     *)
(* objects: Kept(s, t) says that on the way from s to t no component fell  *)
(* behind its sub state machine, no handler left the strand, and what held *)
(* of the waits, of the suspension of heartbeats and of the directions     *)
(* asked for still holds.  Every method keeps; a handler is covered by     *)
(* composing the lemmas of the methods it calls.  What a handler changes   *)
(* first (a mode, a route, a component that is now there) is the base the  *)
(* methods keep from.                                                      *)
(***************************************************************************)
EXTENDS LinkManagerActiveActive, TLAPS

\* CompositeCoherent of any object, with the reports named.
Coherent(s) ==
  /\ s.ps # s.psm =>
       s.psm \in Detected /\ s.posted[<<"LinkProber", s.psm>>] > 0
  /\ s.ms # s.mux.state =>
       s.mux.state \in Reported /\ s.posted[<<"MuxState", s.mux.state>>] > 0
  /\ s.ls # s.link.state => s.posted[<<"LinkState", s.link.state>>] > 0
  /\ s.peerPs # s.peerPsm =>
       s.peerPsm \in PeerDetected /\ s.posted[<<"PeerLinkProber", s.peerPsm>>] > 0

\* What WaitEnds says of the wait for the mux, of any object.
Covered(s) ==
  s.waitMux => \/ "wait" \in s.armed
               \/ "deadline" \in s.armed
               \/ s.posted[<<"WaitOver", "None">>] > 0
               \/ s.posted[<<"MuxProbeTimeout", "None">>] > 0

\* The periodic probe will come.
Resyncs(s) ==
  \/ "resync" \in s.armed
  \/ s.posted[<<"AdminForwardingStateSyncUp", "None">>] > 0

\* Heartbeats are shut down as mode and route ask for.
Matches(s) == s.shutdown <=> s.mode \in StopsWithoutRoute /\ s.route # "OK"

\* OperatorHoldsDirection of any object.
Directed(s) ==
  /\ "SetActive" \in s.out => s.mode \in {"Auto", "Detached", "Active"}
  /\ "SetStandby" \in s.out => s.mode \in {"Auto", "Detached", "Standby"}
  /\ "SetPeerStandby" \in s.out => s.mode = "Auto"

\* What LabelAccurate says of any object.
Published(s) ==
  /\ s.label = "Healthy" => Connected(s)
  /\ Connected(s) /\ s.ms = s.lastState => s.label = "Healthy"

\* From s to t nothing that the label depends on changed, nor the label.
Shown(s, t) ==
  /\ s \in LinkManager /\ t \in LinkManager
  /\ t.ps = s.ps /\ t.ms = s.ms /\ t.ls = s.ls /\ t.route = s.route
  /\ t.lastState = s.lastState /\ t.label = s.label

\* From s to t no component fell behind and no handler left the strand.
KeptComponents(s, t) ==
  /\ t.ps = t.psm \/ (t.ps = s.ps /\ t.psm = s.psm)
  /\ t.ms = t.mux.state \/ (t.ms = s.ms /\ t.mux.state = s.mux.state)
  /\ t.ls = t.link.state \/ (t.ls = s.ls /\ t.link.state = s.link.state)
  /\ t.peerPs = t.peerPsm \/ (t.peerPs = s.peerPs /\ t.peerPsm = s.peerPsm)
  /\ \A e \in Events : t.posted[e] >= s.posted[e]

Kept(s, t) ==
  /\ s \in LinkManager /\ t \in LinkManager
  /\ KeptComponents(s, t)
  /\ t.init = s.init /\ t.mode = s.mode
  /\ Covered(s) => Covered(t)
  /\ Resyncs(s) => Resyncs(t)
  /\ Matches(s) => Matches(t)
  /\ Directed(s) => Directed(t)

\* The parts of the invariant that Kept carries from one object to the next.
Solid(s) ==
  /\ Coherent(s) /\ Covered(s) /\ Directed(s)
  /\ s.init = Components => Resyncs(s)
  /\ s.init = Components /\ DefaultRouteFeature => Matches(s)

\* The inductive invariant.
IInv ==
  /\ lm \in LinkManager
  /\ Solid(lm)
  /\ lm.init = Components => Published(lm)

-----------------------------------------------------------------------------
(* The sub state machines. *)

\* Forcing the mux machine into a state yields a machine in that state.
LEMMA MuxForced ==
  ASSUME NEW m \in MuxMachines, NEW l \in MuxLabels
  PROVE  setCurrentState(m, l) \in MuxMachines /\ setCurrentState(m, l).state = l
<1>1. DOMAIN m.count = MuxEvents
  BY DEF MuxMachines, Machine
<1>2. NoneOf(MuxEvents) \in [MuxEvents -> 0 .. MuxStateChangeRetryCount - 1]
  BY RetryCountAssumption DEF NoneOf
<1>3. l \in MuxEvents \cup {"Wait"}
  BY DEF MuxLabels, MuxEvents
<1> QED BY <1>1, <1>2, <1>3 DEF setCurrentState, MuxMachines, Machine

\* The same for the link.
LEMMA LinkForced ==
  ASSUME NEW m \in LinkMachines, NEW l \in LinkLabels
  PROVE  setCurrentState(m, l) \in LinkMachines /\ setCurrentState(m, l).state = l
<1>1. DOMAIN m.count = LinkEvents
  BY DEF LinkMachines, Machine
<1>2. NoneOf(LinkEvents) \in [LinkEvents -> 0 .. LinkStateChangeRetryCount - 1]
  BY RetryCountAssumption DEF NoneOf
<1>3. l \in LinkEvents
  BY DEF LinkLabels, LinkEvents
<1> QED BY <1>1, <1>2, <1>3 DEF setCurrentState, LinkMachines, Machine

\* A machine that counts an event, or has its state confirmed, keeps its
\* counters below the retry count and moves nowhere but to the event's state.
LEMMA MachineMoves ==
  ASSUME NEW labels, NEW events, NEW retry \in Nat \ {0}, events \subseteq labels,
         NEW m \in Machine(labels, events, retry), NEW e \in events
  PROVE  /\ Confirmed(m) \in Machine(labels, events, retry)
         /\ Confirmed(m).state = m.state
         /\ Counted(m, e, retry) \in Machine(labels, events, retry)
         /\ Counted(m, e, retry).state \in {m.state, e}
<1>1. DOMAIN m.count = events /\ m.count \in [events -> 0 .. retry - 1]
      /\ m.state \in labels
  BY DEF Machine
<1>2. NoneOf(events) \in [events -> 0 .. retry - 1]
  BY DEF NoneOf
<1>3. Confirmed(m) = [m EXCEPT !.count = NoneOf(events)]
  BY <1>1 DEF Confirmed, Machine
<1>4. Confirmed(m) \in Machine(labels, events, retry) /\ Confirmed(m).state = m.state
  BY <1>2, <1>3 DEF Machine
<1>5. setCurrentState(m, e) \in Machine(labels, events, retry)
      /\ setCurrentState(m, e).state \in {m.state, e}
  BY <1>1, <1>2 DEF setCurrentState, Machine
<1>6. ASSUME ~(m.count[e] + 1 >= retry)
      PROVE  /\ Counted(m, e, retry) \in Machine(labels, events, retry)
             /\ Counted(m, e, retry).state = m.state
  <2> DEFINE c == [NoneOf(events) EXCEPT ![e] = m.count[e] + 1]
  <2>1. m.count[e] + 1 \in 0 .. retry - 1
    BY <1>1, <1>6
  <2>2. c \in [events -> 0 .. retry - 1]
    BY <1>2, <2>1
  <2>3. Counted(m, e, retry) = [m EXCEPT !.count = c]
    BY <1>1, <1>6 DEF Counted, Machine
  <2> HIDE DEF c
  <2> QED BY <2>2, <2>3 DEF Machine
<1>7. m.count[e] + 1 >= retry => Counted(m, e, retry) = setCurrentState(m, e)
  BY DEF Counted
<1> QED BY <1>4, <1>5, <1>6, <1>7

\* handleEvent of the mux's state classes yields a machine; it moves to the
\* event's state or stays.
LEMMA MuxMovesType ==
  ASSUME NEW m \in MuxMachines, NEW e \in Reported
  PROVE  MuxMoves(m, e) \in MuxMachines /\ MuxMoves(m, e).state \in {m.state, e}
<1>1. e \in MuxEvents /\ MuxEvents \subseteq MuxEvents \cup {"Wait"}
  BY DEF Reported, MuxLabels, MuxEvents
<1>2. /\ Confirmed(m) \in MuxMachines /\ Confirmed(m).state = m.state
      /\ Counted(m, e, MuxStateChangeRetryCount) \in MuxMachines
      /\ Counted(m, e, MuxStateChangeRetryCount).state \in {m.state, e}
  BY <1>1, MachineMoves, RetryCountAssumption DEF MuxMachines
<1>3. m.state \in {"Active", "Standby", "Unknown", "Error", "Wait"}
  BY DEF MuxMachines, Machine, MuxEvents
<1> QED BY <1>2, <1>3 DEF MuxMoves, ActiveState, StandbyState, UnknownState,
           ErrorState, WaitState

\* The same for the link.
LEMMA LinkMovesType ==
  ASSUME NEW m \in LinkMachines, NEW e \in LinkLabels
  PROVE  LinkMoves(m, e) \in LinkMachines /\ LinkMoves(m, e).state \in {m.state, e}
<1>1. e \in LinkEvents
  BY DEF LinkLabels, LinkEvents
<1>2. /\ Confirmed(m) \in LinkMachines /\ Confirmed(m).state = m.state
      /\ Counted(m, e, LinkStateChangeRetryCount) \in LinkMachines
      /\ Counted(m, e, LinkStateChangeRetryCount).state \in {m.state, e}
  BY <1>1, MachineMoves, RetryCountAssumption DEF LinkMachines
<1> QED BY <1>2 DEF LinkMoves, UpState, DownState

-----------------------------------------------------------------------------
(* The relation. *)

\* Both records of Kept are objects of the program, in the same mode and with
\* the same components present.
LEMMA KeptTypes ==
  ASSUME NEW s, NEW t, Kept(s, t)
  PROVE  /\ s \in LinkManager /\ t \in LinkManager
         /\ t.init = s.init /\ t.mode = s.mode
BY DEF Kept

\* A handler that changes nothing keeps.
LEMMA KeptRefl == ASSUME NEW s \in LinkManager PROVE Kept(s, s)
BY DEF Kept, KeptComponents, LinkManager

\* Kept composes, as the methods of the code do when one calls another.
LEMMA KeptTrans ==
  ASSUME NEW s, NEW t, NEW u, Kept(s, t), Kept(t, u)
  PROVE  Kept(s, u)
<1>1. KeptComponents(s, u)
  BY DEF Kept, KeptComponents, LinkManager
<1> QED BY <1>1 DEF Kept

\* What a coherent object keeps to is coherent.
LEMMA KeptCoherent ==
  ASSUME NEW s, NEW t, Kept(s, t), Coherent(s)
  PROVE  Coherent(t)
<1>1. /\ \A l \in Detected : <<"LinkProber", l>> \in Events
      /\ \A l \in Reported : <<"MuxState", l>> \in Events
      /\ \A l \in LinkLabels : <<"LinkState", l>> \in Events
      /\ \A l \in PeerDetected : <<"PeerLinkProber", l>> \in Events
  BY DEF Events
<1>2. /\ s.posted \in [Events -> Nat] /\ t.posted \in [Events -> Nat]
      /\ s.link.state \in LinkLabels
  BY DEF Kept, LinkManager, LinkMachines, Machine, LinkEvents, LinkLabels
<1> QED BY <1>1, <1>2 DEF Kept, KeptComponents, Coherent

-----------------------------------------------------------------------------
(* The building blocks keep. *)

\* Assigning a member that no part of the relation looks at keeps.
LEMMA FieldKept ==
  ASSUME NEW s, NEW t, Kept(s, t)
  PROVE  /\ \A v \in MuxLabels : Kept(s, [t EXCEPT !.peerMs = v])
         /\ \A v \in {"Wait", "Standby"} : Kept(s, [t EXCEPT !.lastSetPeer = v])
         /\ \A v \in Reported : Kept(s, [t EXCEPT !.lastState = v])
         /\ \A v \in Reported : Kept(s, [t EXCEPT !.lastProbe = v])
         /\ \A v \in Notified : Kept(s, [t EXCEPT !.lastType = v])
         /\ \A v \in {"Uninitialized", "Unhealthy", "Healthy"} :
              Kept(s, [t EXCEPT !.label = v])
         /\ \A v \in [Modes -> Nat] : Kept(s, [t EXCEPT !.registered = v])
         /\ Kept(s, [t EXCEPT !.waitMux = FALSE])
<1> USE DEF Kept, KeptComponents, Covered, Resyncs, Matches, Directed, LinkManager
<1>1. \A v \in MuxLabels : Kept(t, [t EXCEPT !.peerMs = v])
  OBVIOUS
<1>2. \A v \in {"Wait", "Standby"} : Kept(t, [t EXCEPT !.lastSetPeer = v])
  OBVIOUS
<1>3. \A v \in Reported : Kept(t, [t EXCEPT !.lastState = v])
  OBVIOUS
<1>4. \A v \in Reported : Kept(t, [t EXCEPT !.lastProbe = v])
  OBVIOUS
<1>5. \A v \in Notified : Kept(t, [t EXCEPT !.lastType = v])
  OBVIOUS
<1>6. \A v \in {"Uninitialized", "Unhealthy", "Healthy"} :
        Kept(t, [t EXCEPT !.label = v])
  OBVIOUS
<1>7. \A v \in [Modes -> Nat] : Kept(t, [t EXCEPT !.registered = v])
  OBVIOUS
<1>8. Kept(t, [t EXCEPT !.waitMux = FALSE])
  <2> DEFINE u == [t EXCEPT !.waitMux = FALSE]
  <2>1. t \in LinkManager /\ u \in LinkManager /\ ~u.waitMux
    OBVIOUS
  <2>2. KeptComponents(t, u) /\ u.init = t.init /\ u.mode = t.mode
    OBVIOUS
  <2>3. (Resyncs(t) => Resyncs(u)) /\ (Matches(t) => Matches(u))
        /\ (Directed(t) => Directed(u))
    OBVIOUS
  <2> HIDE DEF u, KeptComponents, Resyncs, Matches, Directed, LinkManager
  <2>4. Kept(t, u)
    BY <2>1, <2>2, <2>3
  <2> QED BY <2>4 DEF u
<1> HIDE DEF Kept, KeptComponents, Covered, Resyncs, Matches, Directed, LinkManager
<1> QED BY <1>1, <1>2, <1>3, <1>4, <1>5, <1>6, <1>7, <1>8, KeptTrans

\* The completions are handlers of the strand.
LEMMA CompletionEvents ==
  /\ <<"WaitOver", "None">> \in Events
  /\ <<"MuxProbeTimeout", "None">> \in Events
  /\ <<"PeerMuxWaitTimeout", "None">> \in Events
  /\ <<"AdminForwardingStateSyncUp", "None">> \in Events
  /\ <<"SuspendTimerExpiry", "None">> \in Events
BY DEF Events, Completions

\* Posting a handler to the strand keeps: no report is lost.
LEMMA PostKept ==
  ASSUME NEW s, NEW t, Kept(s, t), NEW e \in Events
  PROVE  Kept(s, Post(t, e))
<1> DEFINE u == Post(t, e)
<1>1. t \in LinkManager /\ t.posted \in [Events -> Nat]
  BY KeptTypes DEF LinkManager
<1>2. u = [t EXCEPT !.posted = [t.posted EXCEPT ![e] = t.posted[e] + 1]]
  BY <1>1 DEF Post, LinkManager
<1>3. [t.posted EXCEPT ![e] = t.posted[e] + 1] \in [Events -> Nat]
  BY <1>1
<1>4. u \in LinkManager
  BY <1>1, <1>2, <1>3 DEF LinkManager
<1>5. /\ u.ps = t.ps /\ u.psm = t.psm /\ u.ms = t.ms /\ u.mux = t.mux
      /\ u.ls = t.ls /\ u.link = t.link
      /\ u.peerPs = t.peerPs /\ u.peerPsm = t.peerPsm
      /\ u.init = t.init /\ u.mode = t.mode /\ u.waitMux = t.waitMux
      /\ u.armed = t.armed /\ u.shutdown = t.shutdown /\ u.route = t.route
      /\ u.out = t.out
  BY <1>1, <1>2 DEF LinkManager
<1>6. \A x \in Events : u.posted[x] >= t.posted[x]
  BY <1>1, <1>2, <1>3 DEF LinkManager
<1>7. u.posted \in [Events -> Nat]
  BY <1>4 DEF LinkManager
<1> HIDE DEF u
<1>8. Kept(t, u)
  BY <1>1, <1>4, <1>5, <1>6, <1>7, CompletionEvents
     DEF Kept, KeptComponents, Covered, Resyncs, Matches, Directed
<1> QED BY <1>8, KeptTrans DEF u

\* Setting the timers that run keeps when those that cover a wait, and the
\* one of the periodic probe, are not among those that stop.
LEMMA ArmedKept ==
  ASSUME NEW s, NEW t, Kept(s, t), NEW a \in SUBSET Timers,
         {"wait", "deadline", "resync"} \cap t.armed \subseteq a
  PROVE  Kept(s, [t EXCEPT !.armed = a])
<1> DEFINE u == [t EXCEPT !.armed = a]
<1>1. t \in LinkManager
  BY KeptTypes
<1>2. u \in LinkManager
  BY <1>1 DEF LinkManager
<1>3. /\ u.ps = t.ps /\ u.psm = t.psm /\ u.ms = t.ms /\ u.mux = t.mux
      /\ u.ls = t.ls /\ u.link = t.link
      /\ u.peerPs = t.peerPs /\ u.peerPsm = t.peerPsm
      /\ u.init = t.init /\ u.mode = t.mode /\ u.waitMux = t.waitMux
      /\ u.armed = a /\ u.shutdown = t.shutdown /\ u.route = t.route
      /\ u.out = t.out /\ u.posted = t.posted
  BY <1>1 DEF LinkManager
<1>4. \A e \in Events : u.posted[e] >= t.posted[e]
  BY <1>1, <1>3 DEF LinkManager
<1> HIDE DEF u
<1>5. Kept(t, u)
  BY <1>1, <1>2, <1>3, <1>4
     DEF Kept, KeptComponents, Covered, Resyncs, Matches, Directed
<1> QED BY <1>5, KeptTrans DEF u

\* Starting a timer keeps.
LEMMA ArmKept ==
  ASSUME NEW s, NEW t, Kept(s, t), NEW r \in Timers
  PROVE  Kept(s, Arm(t, r))
<1>1. t.armed \cup {r} \in SUBSET Timers
  BY KeptTypes DEF LinkManager
<1> QED BY <1>1, ArmedKept DEF Arm

\* Cancelling a timer keeps: its aborted completion ends the wait.
LEMMA CancelKept ==
  ASSUME NEW s, NEW t, Kept(s, t), NEW r \in {"deadline", "wait", "peerWait"}
  PROVE  Kept(s, Cancel(t, r))
<1> DEFINE d == Disarm(t, r)
           e == <<Aborted[r], "None">>
           u == Post(d, e)
<1>1. CASE r \notin t.armed
  BY <1>1 DEF Cancel
<1>2. CASE r \in t.armed
  <2>1. t \in LinkManager /\ t.armed \subseteq Timers
        /\ t.posted \in [Events -> Nat]
    BY KeptTypes DEF LinkManager
  <2>2. e \in Events /\ (r # "peerWait" => e = <<"WaitOver", "None">>)
    BY CompletionEvents DEF Aborted
  <2>3. d \in LinkManager
    BY <2>1 DEF Disarm, LinkManager
  <2>4. Kept(d, u)
    BY <2>2, <2>3, KeptRefl, PostKept
  <2>5. u \in LinkManager
    BY <2>4, KeptTypes
  <2>6. /\ u.ps = t.ps /\ u.psm = t.psm /\ u.ms = t.ms /\ u.mux = t.mux
        /\ u.ls = t.ls /\ u.link = t.link
        /\ u.peerPs = t.peerPs /\ u.peerPsm = t.peerPsm
        /\ u.init = t.init /\ u.mode = t.mode /\ u.waitMux = t.waitMux
        /\ u.armed = t.armed \ {r} /\ u.shutdown = t.shutdown
        /\ u.route = t.route /\ u.out = t.out
    BY <2>1 DEF Post, Disarm, LinkManager
  <2>7. u.posted = [t.posted EXCEPT ![e] = t.posted[e] + 1]
    BY <2>1 DEF Post, Disarm, LinkManager
  <2>8. /\ \A x \in Events : u.posted[x] >= t.posted[x]
        /\ r # "peerWait" => u.posted[<<"WaitOver", "None">>] > 0
        /\ u.posted \in [Events -> Nat]
    BY <2>1, <2>2, <2>7
  <2> HIDE DEF u, e
  <2>9. Kept(t, u)
    BY <2>1, <2>5, <2>6, <2>8, CompletionEvents
       DEF Kept, KeptComponents, Covered, Resyncs, Matches, Directed
  <2> QED BY <1>2, <2>9, KeptTrans DEF Cancel, u, e
<1> QED BY <1>1, <1>2

\* enterLinkProberState forces the prober's state machine along with the
\* composite state, so nothing lags behind.
LEMMA enterLinkProberStateKept ==
  ASSUME NEW s, NEW t, Kept(s, t), NEW l \in ProberLabels
  PROVE  Kept(s, enterLinkProberState(t, l))
<1> DEFINE v == enterLinkProberState(t, l)
<1>1. t \in LinkManager
  BY KeptTypes
<1>2. v \in LinkManager
  BY <1>1 DEF enterLinkProberState, LinkManager
<1>3. v.ps = l /\ v.psm = l
  BY <1>1 DEF enterLinkProberState, LinkManager
<1>4. /\ v.ms = t.ms /\ v.mux = t.mux
      /\ v.ls = t.ls /\ v.link = t.link
      /\ v.peerPs = t.peerPs /\ v.peerPsm = t.peerPsm
      /\ v.init = t.init /\ v.mode = t.mode /\ v.waitMux = t.waitMux
      /\ v.armed = t.armed /\ v.shutdown = t.shutdown /\ v.route = t.route
      /\ v.out = t.out /\ v.posted = t.posted /\ t.posted \in [Events -> Nat]
  BY <1>1 DEF enterLinkProberState, LinkManager
<1> HIDE DEF v
<1>5. Kept(t, v)
  BY <1>1, <1>2, <1>3, <1>4
     DEF Kept, KeptComponents, Covered, Resyncs, Matches, Directed
<1> QED BY <1>5, KeptTrans DEF v

\* The same for the mux.
LEMMA enterMuxStateKept ==
  ASSUME NEW s, NEW t, Kept(s, t), NEW l \in MuxLabels
  PROVE  Kept(s, enterMuxState(t, l))
<1> DEFINE v == enterMuxState(t, l)
<1>1. t \in LinkManager
  BY KeptTypes
<1>6. setCurrentState(t.mux, l) \in MuxMachines
      /\ setCurrentState(t.mux, l).state = l
  BY <1>1, MuxForced DEF LinkManager
<1>2. v \in LinkManager
  BY <1>1, <1>6 DEF enterMuxState, LinkManager
<1>3. v.ms = l /\ v.mux.state = l
  BY <1>1, <1>6 DEF enterMuxState, LinkManager
<1>4. /\ v.ps = t.ps /\ v.psm = t.psm
      /\ v.ls = t.ls /\ v.link = t.link
      /\ v.peerPs = t.peerPs /\ v.peerPsm = t.peerPsm
      /\ v.init = t.init /\ v.mode = t.mode /\ v.waitMux = t.waitMux
      /\ v.armed = t.armed /\ v.shutdown = t.shutdown /\ v.route = t.route
      /\ v.out = t.out /\ v.posted = t.posted /\ t.posted \in [Events -> Nat]
  BY <1>1 DEF enterMuxState, LinkManager
<1> HIDE DEF v
<1>5. Kept(t, v)
  BY <1>1, <1>2, <1>3, <1>4
     DEF Kept, KeptComponents, Covered, Resyncs, Matches, Directed
<1> QED BY <1>5, KeptTrans DEF v

\* The same for the link.
LEMMA enterLinkStateKept ==
  ASSUME NEW s, NEW t, Kept(s, t), NEW l \in LinkLabels
  PROVE  Kept(s, enterLinkState(t, l))
<1> DEFINE v == enterLinkState(t, l)
<1>1. t \in LinkManager
  BY KeptTypes
<1>6. setCurrentState(t.link, l) \in LinkMachines
      /\ setCurrentState(t.link, l).state = l
  BY <1>1, LinkForced DEF LinkManager
<1>2. v \in LinkManager
  BY <1>1, <1>6 DEF enterLinkState, LinkManager
<1>3. v.ls = l /\ v.link.state = l
  BY <1>1, <1>6 DEF enterLinkState, LinkManager
<1>4. /\ v.ps = t.ps /\ v.psm = t.psm
      /\ v.ms = t.ms /\ v.mux = t.mux
      /\ v.peerPs = t.peerPs /\ v.peerPsm = t.peerPsm
      /\ v.init = t.init /\ v.mode = t.mode /\ v.waitMux = t.waitMux
      /\ v.armed = t.armed /\ v.shutdown = t.shutdown /\ v.route = t.route
      /\ v.out = t.out /\ v.posted = t.posted /\ t.posted \in [Events -> Nat]
  BY <1>1 DEF enterLinkState, LinkManager
<1> HIDE DEF v
<1>5. Kept(t, v)
  BY <1>1, <1>2, <1>3, <1>4
     DEF Kept, KeptComponents, Covered, Resyncs, Matches, Directed
<1> QED BY <1>5, KeptTrans DEF v

\* The same for what the prober says of the peer.
LEMMA enterPeerLinkProberStateKept ==
  ASSUME NEW s, NEW t, Kept(s, t), NEW l \in PeerLabels
  PROVE  Kept(s, enterPeerLinkProberState(t, l))
<1> DEFINE v == enterPeerLinkProberState(t, l)
<1>1. t \in LinkManager
  BY KeptTypes
<1>2. v \in LinkManager
  BY <1>1 DEF enterPeerLinkProberState, LinkManager
<1>3. v.peerPs = l /\ v.peerPsm = l
  BY <1>1 DEF enterPeerLinkProberState, LinkManager
<1>4. /\ v.ps = t.ps /\ v.psm = t.psm
      /\ v.ms = t.ms /\ v.mux = t.mux
      /\ v.ls = t.ls /\ v.link = t.link
      /\ v.init = t.init /\ v.mode = t.mode /\ v.waitMux = t.waitMux
      /\ v.armed = t.armed /\ v.shutdown = t.shutdown /\ v.route = t.route
      /\ v.out = t.out /\ v.posted = t.posted /\ t.posted \in [Events -> Nat]
  BY <1>1 DEF enterPeerLinkProberState, LinkManager
<1> HIDE DEF v
<1>5. Kept(t, v)
  BY <1>1, <1>2, <1>3, <1>4
     DEF Kept, KeptComponents, Covered, Resyncs, Matches, Directed
<1> QED BY <1>5, KeptTrans DEF v

\* Entering a state of the peer's mux keeps.
LEMMA enterPeerMuxStateKept ==
  ASSUME NEW s, NEW t, Kept(s, t), NEW l \in MuxLabels
  PROVE  Kept(s, enterPeerMuxState(t, l))
BY FieldKept DEF enterPeerMuxState

\* Asking for something keeps when the mode allows the direction asked for.
LEMMA SendKept ==
  ASSUME NEW s, NEW t, Kept(s, t), NEW o \in Outputs,
         o = "SetActive" => t.mode \in {"Auto", "Detached", "Active"},
         o = "SetStandby" => t.mode \in {"Auto", "Detached", "Standby"},
         o = "SetPeerStandby" => t.mode = "Auto"
  PROVE  Kept(s, Send(t, o))
<1> DEFINE v == Send(t, o)
<1>1. t \in LinkManager
  BY KeptTypes
<1>2. v \in LinkManager
  BY <1>1 DEF Send, LinkManager
<1>3. v.out = t.out \cup {o}
  BY <1>1 DEF Send, LinkManager
<1>4. /\ v.ps = t.ps /\ v.psm = t.psm /\ v.ms = t.ms /\ v.mux = t.mux
      /\ v.ls = t.ls /\ v.link = t.link
      /\ v.peerPs = t.peerPs /\ v.peerPsm = t.peerPsm
      /\ v.init = t.init /\ v.mode = t.mode /\ v.waitMux = t.waitMux
      /\ v.armed = t.armed /\ v.shutdown = t.shutdown /\ v.route = t.route
      /\ v.posted = t.posted /\ t.posted \in [Events -> Nat]
  BY <1>1 DEF Send, LinkManager
<1> HIDE DEF v
<1>5. Kept(t, v)
  <2>1. KeptComponents(t, v) /\ (Covered(t) => Covered(v))
        /\ (Resyncs(t) => Resyncs(v)) /\ (Matches(t) => Matches(v))
    BY <1>4 DEF KeptComponents, Covered, Resyncs, Matches
  <2>2. Directed(t) => Directed(v)
    BY <1>3, <1>4 DEF Directed
  <2> QED BY <1>1, <1>2, <1>4, <2>1, <2>2 DEF Kept
<1> QED BY <1>5, KeptTrans DEF v

\* Beginning to wait for the mux keeps when a timer that ends the wait runs.
LEMMA startWaitMuxKept ==
  ASSUME NEW s, NEW t, Kept(s, t), {"wait", "deadline"} \cap t.armed # {}
  PROVE  Kept(s, startWaitMux(t))
<1> DEFINE v == startWaitMux(t)
<1>1. t \in LinkManager
  BY KeptTypes
<1>2. v \in LinkManager
  BY <1>1 DEF startWaitMux, LinkManager
<1>3. /\ v.ps = t.ps /\ v.psm = t.psm /\ v.ms = t.ms /\ v.mux = t.mux
      /\ v.ls = t.ls /\ v.link = t.link
      /\ v.peerPs = t.peerPs /\ v.peerPsm = t.peerPsm
      /\ v.init = t.init /\ v.mode = t.mode /\ v.out = t.out
      /\ v.armed = t.armed /\ v.shutdown = t.shutdown /\ v.route = t.route
      /\ v.posted = t.posted /\ t.posted \in [Events -> Nat]
  BY <1>1 DEF startWaitMux, LinkManager
<1> HIDE DEF v
<1>4. Kept(t, v)
  BY <1>1, <1>2, <1>3
     DEF Kept, KeptComponents, Covered, Resyncs, Matches, Directed
<1> QED BY <1>4, KeptTrans DEF v

-----------------------------------------------------------------------------
(* The methods keep. *)

\* Starting to wait for the mux keeps.
LEMMA startMuxWaitTimerKept ==
  ASSUME NEW s, NEW t, Kept(s, t)
  PROVE  Kept(s, startMuxWaitTimer(t))
<1> DEFINE a == Arm(Cancel(t, "wait"), "wait")
<1>1. Kept(s, a)
  BY CancelKept, ArmKept DEF Timers
<1>2. "wait" \in a.armed
  <2>1. Cancel(t, "wait") \in LinkManager
    BY CancelKept, KeptTypes
  <2> HIDE DEF Cancel
  <2> QED BY <2>1 DEF Arm, LinkManager
<1> HIDE DEF a
<1> QED BY <1>1, <1>2, startWaitMuxKept DEF startMuxWaitTimer, a

\* Probing the mux keeps.
LEMMA probeMuxStateKept ==
  ASSUME NEW s, NEW t, Kept(s, t)
  PROVE  Kept(s, probeMuxState(t))
<1>1. Kept(s, Send(t, "Probe"))
  BY SendKept DEF Outputs
<1> QED BY <1>1, startMuxWaitTimerKept DEF probeMuxState

\* Probing the mux with a deadline keeps.
LEMMA startMuxProbeTimerKept ==
  ASSUME NEW s, NEW t, Kept(s, t)
  PROVE  Kept(s, startMuxProbeTimer(t))
<1> DEFINE p == probeMuxState(t)
           c == Cancel(p, "deadline")
           a == Arm(c, "deadline")
<1>1. Kept(s, p)
  BY probeMuxStateKept
<1> HIDE DEF p
<1>2. Kept(s, c)
  BY <1>1, CancelKept
<1> HIDE DEF c
<1>3. Kept(s, a)
  BY <1>2, ArmKept DEF Timers
<1>4. "deadline" \in a.armed
  BY <1>2, KeptTypes DEF Arm, LinkManager
<1> HIDE DEF a
<1> QED BY <1>3, <1>4, startWaitMuxKept DEF startMuxProbeTimer, a, c, p

\* The periodic probe, and the suspension of heartbeats, keep.
LEMMA OtherTimersKept ==
  ASSUME NEW s, NEW t, Kept(s, t)
  PROVE  /\ Kept(s, startPeerMuxWaitTimer(t))
         /\ Kept(s, startAdminForwardingStateSyncUpTimer(t))
         /\ Kept(s, suspendTxProbes(t))
         /\ Kept(s, resumeTxProbes(t))
<1>1. Kept(s, startPeerMuxWaitTimer(t))
  <2>1. Kept(s, Cancel(t, "peerWait"))
    BY CancelKept
  <2> QED BY <2>1, ArmKept DEF startPeerMuxWaitTimer, Timers
<1>2. Kept(s, Disarm(t, "suspend"))
  <2>1. t.armed \ {"suspend"} \in SUBSET Timers
    BY KeptTypes DEF LinkManager
  <2> QED BY <2>1, ArmedKept DEF Disarm
<1> QED BY <1>1, <1>2, ArmKept
        DEF startAdminForwardingStateSyncUpTimer, suspendTxProbes,
            resumeTxProbes, Timers

\* Asking orchagent for a direction that the mode allows keeps.
LEMMA SwitchedKept ==
  ASSUME NEW s, NEW t, Kept(s, t), NEW l \in {"Active", "Standby"},
         s.mode \in {"Auto", "Detached", l}
  PROVE  Kept(s, Switched(t, l))
<1> DEFINE p == IF l = "Standby" THEN suspendTxProbes(t) ELSE t
           m == enterMuxState(p, l)
           o == IF l = "Active" THEN "SetActive" ELSE "SetStandby"
           n == Send(m, o)
           c == Cancel(n, "deadline")
<1>1. Kept(s, p)
  BY OtherTimersKept
<1> HIDE DEF p
<1>2. Kept(s, m)
  BY <1>1, enterMuxStateKept DEF MuxLabels
<1> HIDE DEF m
<1>3. /\ o \in Outputs
      /\ o = "SetActive" => m.mode \in {"Auto", "Detached", "Active"}
      /\ o = "SetStandby" => m.mode \in {"Auto", "Detached", "Standby"}
      /\ o # "SetPeerStandby"
  BY <1>2, KeptTypes DEF Outputs
<1>4. Kept(s, n)
  BY <1>2, <1>3, SendKept
<1> HIDE DEF n
<1>5. Kept(s, c)
  BY <1>4, CancelKept
<1> HIDE DEF c
<1>6. Kept(s, startMuxWaitTimer(c))
  BY <1>5, startMuxWaitTimerKept
<1> QED BY <1>6 DEF Switched, c, n, m, p

\* switchMuxState keeps when what is forced is what the mode asks for.
LEMMA switchMuxStateKept ==
  ASSUME NEW s, NEW t, Kept(s, t), NEW forceSwitch \in BOOLEAN,
         NEW l \in {"Active", "Standby"},
         forceSwitch => s.mode \in {"Auto", "Detached", l}
  PROVE  Kept(s, switchMuxState(t, l, forceSwitch))
<1>1. t.mode = s.mode
  BY KeptTypes
<1>2. CASE forceSwitch \/ t.mode \in {"Auto", "Detached", l}
  BY <1>1, <1>2, SwitchedKept DEF switchMuxState
<1>3. CASE ~(forceSwitch \/ t.mode \in {"Auto", "Detached", l})
  BY <1>3, probeMuxStateKept DEF switchMuxState
<1> QED BY <1>2, <1>3

\* Asking ycabled to set the peer to standby keeps.
LEMMA switchPeerMuxStateKept ==
  ASSUME NEW s, NEW t, Kept(s, t)
  PROVE  Kept(s, switchPeerMuxState(t, "Standby"))
<1> DEFINE p == enterPeerMuxState(t, "Standby")
           n == Send(p, "SetPeerStandby")
           u == [n EXCEPT !.lastSetPeer = "Standby"]
<1>1. CASE t.mode = "Auto"
  <2>1. Kept(s, p)
    BY enterPeerMuxStateKept DEF MuxLabels
  <2> HIDE DEF p
  <2>2. p.mode = "Auto"
    BY <1>1, <2>1, KeptTypes
  <2>3. Kept(s, n)
    BY <2>1, <2>2, SendKept DEF Outputs
  <2> HIDE DEF n
  <2>4. Kept(s, u)
    BY <2>3, FieldKept
  <2> HIDE DEF u
  <2> QED BY <1>1, <2>4, OtherTimersKept DEF switchPeerMuxState, u, n, p
<1>2. CASE t.mode # "Auto"
  BY <1>2 DEF switchPeerMuxState
<1> QED BY <1>1, <1>2

\* Initializing the prober, or what it says of the peer, from the mux keeps.
LEMMA initLinkProberStateKept ==
  ASSUME NEW s, NEW t, Kept(s, t)
  PROVE  /\ Kept(s, initLinkProberState(t))
         /\ Kept(s, initPeerLinkProberState(t))
<1>1. \A l \in ProberLabels : Kept(s, enterLinkProberState(t, l))
  BY enterLinkProberStateKept
<1>2. \A l \in PeerLabels : Kept(s, enterPeerLinkProberState(t, l))
  BY enterPeerLinkProberStateKept
<1> QED BY <1>1, <1>2
        DEF initLinkProberState, initPeerLinkProberState, ProberLabels, PeerLabels

\* Publishing the label keeps.
LEMMA updateMuxLinkmgrStateKept ==
  ASSUME NEW s, NEW t, Kept(s, t)
  PROVE  Kept(s, updateMuxLinkmgrState(t))
<1> DEFINE l == IF Healthy(t) THEN "Healthy" ELSE "Unhealthy"
<1>1. l \in {"Uninitialized", "Unhealthy", "Healthy"}
  OBVIOUS
<1> HIDE DEF l
<1>2. Kept(s, [t EXCEPT !.label = l])
  BY <1>1, FieldKept
<1> QED BY <1>2 DEF updateMuxLinkmgrState, l

\* Shutting heartbeats down and restarting them keep, and make them what mode
\* and route ask for once the port is activated.
LEMMA shutdownOrRestartKept ==
  ASSUME NEW s, NEW t, Kept(s, t)
  PROVE  /\ Kept(s, shutdownOrRestartLinkProberOnDefaultRoute(t))
         /\ s.init = Components =>
              Matches(shutdownOrRestartLinkProberOnDefaultRoute(t))
<1> DEFINE b == t.mode \in StopsWithoutRoute /\ t.route # "OK"
           v == [t EXCEPT !.shutdown = b]
<1>1. t \in LinkManager /\ t.init = s.init
  BY KeptTypes
<1>2. v \in LinkManager /\ v.shutdown = b
  BY <1>1 DEF LinkManager
<1>3. /\ v.ps = t.ps /\ v.psm = t.psm /\ v.ms = t.ms /\ v.mux = t.mux
      /\ v.ls = t.ls /\ v.link = t.link
      /\ v.peerPs = t.peerPs /\ v.peerPsm = t.peerPsm
      /\ v.init = t.init /\ v.mode = t.mode /\ v.waitMux = t.waitMux
      /\ v.armed = t.armed /\ v.route = t.route /\ v.out = t.out
      /\ v.posted = t.posted /\ t.posted \in [Events -> Nat]
  BY <1>1 DEF LinkManager
<1>4. shutdownOrRestartLinkProberOnDefaultRoute(t)
        = IF s.init = Components THEN v ELSE t
  BY <1>1 DEF shutdownOrRestartLinkProberOnDefaultRoute
<1>5. Matches(v)
  BY <1>2, <1>3 DEF Matches
<1> HIDE DEF v
<1>6. Kept(t, v)
  BY <1>1, <1>2, <1>3, <1>5
     DEF Kept, KeptComponents, Covered, Resyncs, Directed
<1>7. Kept(s, v)
  BY <1>6, KeptTrans
<1> QED BY <1>4, <1>5, <1>7

\* Posting the handlers that waited for the activation keeps.
LEMMA NotifyAllKept ==
  ASSUME NEW s, NEW t, Kept(s, t)
  PROVE  Kept(s, NotifyAll(t))
<1> DEFINE q == [e \in Events |->
                   IF e[1] = "MuxConfig" THEN t.posted[e] + t.registered[e[2]]
                                         ELSE t.posted[e]]
           u == [t EXCEPT !.registered = [m \in Modes |-> 0]]
           v == [u EXCEPT !.posted = q]
<1>1. /\ t \in LinkManager /\ t.posted \in [Events -> Nat]
      /\ t.registered \in [Modes -> Nat]
  BY KeptTypes DEF LinkManager
<1>2. \A e \in Events : e[1] = "MuxConfig" => e[2] \in Modes
  BY DEF Events, Completions
<1>3. q \in [Events -> Nat] /\ \A e \in Events : q[e] >= t.posted[e]
  BY <1>1, <1>2
<1>4. NotifyAll(t) = v
  BY <1>1 DEF NotifyAll, LinkManager
<1> HIDE DEF q
<1>5. [m \in Modes |-> 0] \in [Modes -> Nat]
  OBVIOUS
<1>6. u \in LinkManager
  BY <1>1, <1>5 DEF LinkManager
<1>7. v \in LinkManager /\ v.posted = q
  BY <1>3, <1>6 DEF LinkManager
<1>8. /\ v.ps = t.ps /\ v.psm = t.psm /\ v.ms = t.ms /\ v.mux = t.mux
      /\ v.ls = t.ls /\ v.link = t.link
      /\ v.peerPs = t.peerPs /\ v.peerPsm = t.peerPsm
      /\ v.init = t.init /\ v.mode = t.mode /\ v.waitMux = t.waitMux
      /\ v.armed = t.armed /\ v.route = t.route /\ v.out = t.out
      /\ v.shutdown = t.shutdown
  BY <1>1 DEF LinkManager
<1> HIDE DEF v
<1>9. Kept(t, v)
  BY <1>1, <1>3, <1>7, <1>8, CompletionEvents
     DEF Kept, KeptComponents, Covered, Resyncs, Matches, Directed
<1> QED BY <1>4, <1>9, KeptTrans

\* activateStateMachine keeps.  When every component is there the periodic
\* probe runs and heartbeats follow the route from then on.
LEMMA activateStateMachineKept ==
  ASSUME NEW s, NEW t, Kept(s, t)
  PROVE  LET a == activateStateMachine(t)
         IN  /\ Kept(s, a)
             /\ s.init = Components => Resyncs(a)
             /\ s.init = Components /\ DefaultRouteFeature => Matches(a)
<1> DEFINE i == initLinkProberState(t)
           u == IF DefaultRouteFeature
                THEN shutdownOrRestartLinkProberOnDefaultRoute(i) ELSE i
           l == updateMuxLinkmgrState(u)
           r == startAdminForwardingStateSyncUpTimer(l)
           n == NotifyAll(r)
<1>1. t.init = s.init
  BY KeptTypes
<1>2. activateStateMachine(t) = IF s.init = Components THEN n ELSE t
  BY <1>1 DEF activateStateMachine
<1>3. Kept(s, i)
  BY initLinkProberStateKept
<1> HIDE DEF i
<1>4. Kept(s, u) /\ (s.init = Components /\ DefaultRouteFeature => Matches(u))
  BY <1>3, shutdownOrRestartKept
<1> HIDE DEF u
<1>5. Kept(s, l) /\ Kept(u, l)
  BY <1>4, KeptTypes, KeptRefl, updateMuxLinkmgrStateKept
<1> HIDE DEF l
<1>6. Kept(s, r) /\ Kept(u, r)
  BY <1>5, OtherTimersKept
<1>7. Resyncs(r)
  BY <1>5, KeptTypes
     DEF Resyncs, startAdminForwardingStateSyncUpTimer, Arm, LinkManager
<1> HIDE DEF r
<1>8. Kept(s, n) /\ Kept(u, n) /\ Kept(r, n)
  BY <1>6, KeptTypes, KeptRefl, NotifyAllKept
<1> HIDE DEF n
<1>9. Resyncs(n) /\ (s.init = Components /\ DefaultRouteFeature => Matches(n))
  BY <1>4, <1>7, <1>8 DEF Kept
<1> QED BY <1>2, <1>8, <1>9

\* Every entry of the transition table keeps.  The two that force a switch do
\* so in the direction of the operator's mode.
LEMMA TransitionFunctionKept ==
  ASSUME NEW s, NEW t, Kept(s, t), NEW was
  PROVE  Kept(s, TransitionFunction(t, was))
<1>1. t.mode = s.mode
  BY KeptTypes
<1>2. /\ Kept(s, switchMuxState(t, "Active", FALSE))
      /\ Kept(s, switchMuxState(t, "Standby", FALSE))
      /\ Kept(s, startMuxProbeTimer(t))
  BY switchMuxStateKept, startMuxProbeTimerKept
<1>3. t.mode = "Standby" => Kept(s, switchMuxState(t, "Standby", TRUE))
  BY <1>1, switchMuxStateKept
<1>4. t.mode = "Active" => Kept(s, switchMuxState(t, "Active", TRUE))
  BY <1>1, switchMuxStateKept
<1>5. Kept(s, ActiveActiveUp(t)) /\ Kept(s, ActiveStandbyUp(t))
  BY <1>2, <1>3 DEF ActiveActiveUp, ActiveStandbyUp
<1>6. Kept(s, UnknownActiveUp(t)) /\ Kept(s, UnknownStandbyUp(t))
  BY <1>2, <1>4 DEF UnknownActiveUp, UnknownStandbyUp
<1>7. Kept(s, ActiveUnknownUp(t, was)) /\ Kept(s, UnknownUnknown(t, was))
  BY <1>2 DEF ActiveUnknownUp, UnknownUnknown
<1>8. /\ Kept(s, ActiveErrorUp(t)) /\ Kept(s, ActiveWaitUp(t))
      /\ Kept(s, UnknownWaitUp(t)) /\ Kept(s, UnknownActiveDown(t))
  BY <1>2 DEF ActiveErrorUp, ActiveWaitUp, UnknownWaitUp, UnknownActiveDown
<1> QED BY <1>5, <1>6, <1>7, <1>8 DEF TransitionFunction

\* A mode that has been stored is applied: the direction forced is the mode's.
LEMMA ApplyModeKept ==
  ASSUME NEW s, NEW t, Kept(s, t), NEW mode \in Modes, s.mode = mode
  PROVE  Kept(s, ApplyMode(t, mode))
<1> DEFINE n == CASE mode \in {"Active", "Standby"} /\ t.ms # mode ->
                       switchMuxState(t, mode, TRUE)
                  [] mode = "Auto" /\ t.ms = "Unknown" -> initLinkProberState(t)
                  [] OTHER -> TransitionFunction(t, t.ps)
<1>1. mode \in {"Active", "Standby"} => Kept(s, switchMuxState(t, mode, TRUE))
  BY switchMuxStateKept
<1>2. Kept(s, initLinkProberState(t)) /\ Kept(s, TransitionFunction(t, t.ps))
  BY initLinkProberStateKept, TransitionFunctionKept
<1>3. Kept(s, n)
  BY <1>1, <1>2
<1> HIDE DEF n
<1> QED BY <1>3, updateMuxLinkmgrStateKept DEF ApplyMode, n

-----------------------------------------------------------------------------
(* The label. *)

\* Publishing the label makes it true of the object it is published for.
LEMMA updateMuxLinkmgrStatePublishes ==
  ASSUME NEW t \in LinkManager
  PROVE  Published(updateMuxLinkmgrState(t))
<1> DEFINE l == IF Healthy(t) THEN "Healthy" ELSE "Unhealthy"
           v == [t EXCEPT !.label = l]
<1>1. /\ v.ps = t.ps /\ v.ms = t.ms /\ v.ls = t.ls /\ v.route = t.route
      /\ v.lastState = t.lastState /\ v.label = l
  BY DEF LinkManager
<1>2. /\ Healthy(t) => Connected(t)
      /\ Connected(t) /\ t.ms = t.lastState => Healthy(t)
  BY DEF Healthy, Connected
<1>3. Connected(v) <=> Connected(t)
  BY <1>1 DEF Connected
<1>4. l = "Healthy" <=> Healthy(t)
  OBVIOUS
<1> HIDE DEF v, l
<1>5. Published(v)
  BY <1>1, <1>2, <1>3, <1>4 DEF Published
<1> QED BY <1>5 DEF updateMuxLinkmgrState, v, l

\* A label that is true stays true while nothing it depends on changes.
LEMMA ShownPublished ==
  ASSUME NEW s, NEW t, Shown(s, t), Published(s)
  PROVE  Published(t)
<1>1. Connected(t) <=> Connected(s)
  BY DEF Shown, Connected
<1> QED BY <1>1 DEF Shown, Published

LEMMA ShownRefl == ASSUME NEW s \in LinkManager PROVE Shown(s, s)
BY DEF Shown

LEMMA ShownTrans ==
  ASSUME NEW s, NEW t, NEW u, Shown(s, t), Shown(t, u)
  PROVE  Shown(s, u)
BY DEF Shown

\* Timers, posted handlers and requests do not touch what the label depends on.
LEMMA StrandShown ==
  ASSUME NEW t \in LinkManager
  PROVE  /\ \A e \in Events : Shown(t, Post(t, e))
         /\ \A r \in Timers : Shown(t, Arm(t, r)) /\ Shown(t, Disarm(t, r))
         /\ \A o \in Outputs : Shown(t, Send(t, o))
         /\ Shown(t, startWaitMux(t)) /\ Shown(t, stopWaitMux(t))
<1>1. ASSUME NEW e \in Events PROVE Shown(t, Post(t, e))
  <2>1. Post(t, e) \in LinkManager
    BY KeptRefl, PostKept, KeptTypes
  <2> QED BY <2>1 DEF Shown, Post, LinkManager
<1>2. ASSUME NEW r \in Timers PROVE Shown(t, Arm(t, r)) /\ Shown(t, Disarm(t, r))
  BY DEF Shown, Arm, Disarm, LinkManager
<1>3. ASSUME NEW o \in Outputs PROVE Shown(t, Send(t, o))
  BY DEF Shown, Send, LinkManager
<1>4. Shown(t, startWaitMux(t)) /\ Shown(t, stopWaitMux(t))
  BY DEF Shown, startWaitMux, stopWaitMux, LinkManager
<1> QED BY <1>1, <1>2, <1>3, <1>4

\* Neither does waiting for the mux or probing it.
LEMMA ProbeShown ==
  ASSUME NEW t \in LinkManager
  PROVE  /\ \A r \in {"deadline", "wait", "peerWait"} : Shown(t, Cancel(t, r))
         /\ Shown(t, startMuxWaitTimer(t))
         /\ Shown(t, probeMuxState(t))
         /\ Shown(t, startMuxProbeTimer(t))
         /\ Shown(t, startPeerMuxWaitTimer(t))
<1>1. ASSUME NEW u \in LinkManager, NEW r \in {"deadline", "wait", "peerWait"}
      PROVE  Shown(u, Cancel(u, r)) /\ Shown(u, Arm(Cancel(u, r), r))
  <2>1. r \in Timers /\ <<Aborted[r], "None">> \in Events
    BY CompletionEvents DEF Timers, Aborted
  <2>2. Shown(u, Disarm(u, r))
    BY <2>1, StrandShown
  <2>3. Shown(u, Post(Disarm(u, r), <<Aborted[r], "None">>))
    BY <2>1, <2>2, StrandShown, ShownTrans DEF Shown
  <2>4. Shown(u, Cancel(u, r))
    BY <2>3, ShownRefl DEF Cancel
  <2>5. Shown(Cancel(u, r), Arm(Cancel(u, r), r))
    BY <2>1, <2>4, StrandShown DEF Shown
  <2> QED BY <2>4, <2>5, ShownTrans
<1>2. ASSUME NEW u \in LinkManager
      PROVE  Shown(u, startMuxWaitTimer(u)) /\ Shown(u, probeMuxState(u))
  <2>1. ASSUME NEW x \in LinkManager PROVE Shown(x, startMuxWaitTimer(x))
    <3> DEFINE a == Arm(Cancel(x, "wait"), "wait")
    <3>1. Shown(x, a)
      BY <1>1
    <3>2. Shown(a, startWaitMux(a))
      BY <3>1, StrandShown DEF Shown
    <3> HIDE DEF a
    <3> QED BY <3>1, <3>2, ShownTrans DEF startMuxWaitTimer, a
  <2> DEFINE n == Send(u, "Probe")
  <2>2. Shown(u, n)
    BY StrandShown DEF Outputs
  <2> HIDE DEF n
  <2>3. Shown(n, startMuxWaitTimer(n))
    BY <2>1, <2>2 DEF Shown
  <2> QED BY <2>1, <2>2, <2>3, ShownTrans DEF probeMuxState, n
<1>3. Shown(t, startMuxProbeTimer(t))
  <2> DEFINE p == probeMuxState(t)
             a == Arm(Cancel(p, "deadline"), "deadline")
  <2>1. Shown(t, p)
    BY <1>2
  <2> HIDE DEF p
  <2>2. Shown(p, a)
    BY <1>1, <2>1 DEF Shown
  <2> HIDE DEF a
  <2>3. Shown(a, startWaitMux(a))
    BY <2>2, StrandShown DEF Shown
  <2>4. Shown(t, startWaitMux(a))
    BY <2>1, <2>2, <2>3, ShownTrans
  <2> QED BY <2>4 DEF startMuxProbeTimer, a, p
<1> QED BY <1>1, <1>2, <1>3 DEF startPeerMuxWaitTimer

\* Nor does setting the peer to standby.
LEMMA switchPeerMuxStateShown ==
  ASSUME NEW t \in LinkManager
  PROVE  Shown(t, switchPeerMuxState(t, "Standby"))
<1> DEFINE p == enterPeerMuxState(t, "Standby")
           n == Send(p, "SetPeerStandby")
           u == [n EXCEPT !.lastSetPeer = "Standby"]
<1>1. Shown(t, p)
  BY DEF Shown, enterPeerMuxState, LinkManager, MuxLabels
<1> HIDE DEF p
<1>2. Shown(p, n)
  BY <1>1, StrandShown DEF Shown, Outputs
<1> HIDE DEF n
<1>3. Shown(n, u)
  BY <1>2 DEF Shown, LinkManager
<1> HIDE DEF u
<1>4. Shown(u, startPeerMuxWaitTimer(u))
  BY <1>3, ProbeShown DEF Shown
<1>5. Shown(t, startPeerMuxWaitTimer(u))
  BY <1>1, <1>2, <1>3, <1>4, ShownTrans
<1> QED BY <1>5, ShownRefl DEF switchPeerMuxState, u, n, p

\* Nor does posting the handlers that waited for the activation.
LEMMA NotifyAllShown ==
  ASSUME NEW t \in LinkManager
  PROVE  Shown(t, NotifyAll(t))
<1>1. NotifyAll(t) \in LinkManager
  BY KeptRefl, NotifyAllKept, KeptTypes
<1> QED BY <1>1 DEF Shown, NotifyAll, LinkManager

\* Activation publishes the label.
LEMMA activateStateMachinePublishes ==
  ASSUME NEW t \in LinkManager, t.init = Components
  PROVE  Published(activateStateMachine(t))
<1> DEFINE i == initLinkProberState(t)
           u == IF DefaultRouteFeature
                THEN shutdownOrRestartLinkProberOnDefaultRoute(i) ELSE i
           l == updateMuxLinkmgrState(u)
           r == startAdminForwardingStateSyncUpTimer(l)
           n == NotifyAll(r)
<1>1. activateStateMachine(t) = n
  BY DEF activateStateMachine
<1>2. Kept(t, i)
  BY KeptRefl, initLinkProberStateKept
<1> HIDE DEF i
<1>3. Kept(t, u)
  BY <1>2, shutdownOrRestartKept
<1> HIDE DEF u
<1>4. Kept(t, l) /\ Published(l)
  BY <1>3, KeptTypes, updateMuxLinkmgrStateKept, updateMuxLinkmgrStatePublishes
<1> HIDE DEF l
<1>5. Shown(l, r)
  BY <1>4, KeptTypes, StrandShown DEF startAdminForwardingStateSyncUpTimer, Timers
<1> HIDE DEF r
<1>6. Shown(r, n)
  BY <1>5, NotifyAllShown DEF Shown
<1> QED BY <1>1, <1>4, <1>5, <1>6, ShownTrans, ShownPublished

-----------------------------------------------------------------------------
(* Steps. *)

\* A step to an object that keeps from a coherent one, and of which the rest
\* holds once the port is activated, preserves the invariant.
LEMMA StepEstablishes ==
  ASSUME NEW base, NEW t, Kept(base, t), Step(t),
         Coherent(base), Covered(base), Directed(base),
         base.init = Components => Resyncs(t) /\ Published(t),
         base.init = Components /\ DefaultRouteFeature => Matches(t)
  PROVE  IInv'
<1>1. lm' = t
  BY DEF Step
<1>2. t \in LinkManager /\ t.init = base.init
  BY KeptTypes
<1>3. Coherent(t) /\ Covered(t) /\ Directed(t)
  BY KeptCoherent DEF Kept
<1> QED BY <1>1, <1>2, <1>3 DEF IInv, Solid

\* A step to an object that keeps from a solid one, and whose label is
\* published, preserves the invariant.
LEMMA StepKeeps ==
  ASSUME NEW base, NEW t, Kept(base, t), Solid(base),
         base.init = Components => Published(t), Step(t)
  PROVE  IInv'
BY StepEstablishes DEF Solid, Kept

\* The same when the label, and what it depends on, did not change.
LEMMA StepShows ==
  ASSUME NEW base, NEW t, Kept(base, t), Solid(base),
         base.init = Components => Published(base), Shown(base, t), Step(t)
  PROVE  IInv'
BY ShownPublished, StepKeeps

\* The object as a handler finds it satisfies the invariant.
LEMMA FoundSolid ==
  ASSUME IInv
  PROVE  /\ Found \in LinkManager /\ Solid(Found)
         /\ Found.init = Components => Published(Found)
         /\ Kept(Found, Found) /\ Shown(Found, Found)
         /\ Found.init = lm.init
<1>1. lm \in LinkManager /\ Solid(lm) /\ (lm.init = Components => Published(lm))
  BY DEF IInv
<1> DEFINE f == [lm EXCEPT !.out = {}]
<1>2. f \in LinkManager /\ f.out = {}
  BY <1>1 DEF LinkManager
<1>3. /\ f.ps = lm.ps /\ f.psm = lm.psm /\ f.ms = lm.ms /\ f.mux = lm.mux
      /\ f.ls = lm.ls /\ f.link = lm.link
      /\ f.peerPs = lm.peerPs /\ f.peerPsm = lm.peerPsm
      /\ f.init = lm.init /\ f.mode = lm.mode /\ f.waitMux = lm.waitMux
      /\ f.armed = lm.armed /\ f.route = lm.route /\ f.posted = lm.posted
      /\ f.shutdown = lm.shutdown /\ f.label = lm.label
      /\ f.lastState = lm.lastState
  BY <1>1 DEF LinkManager
<1> HIDE DEF f
<1>4. Solid(f)
  BY <1>1, <1>2, <1>3 DEF Solid, Coherent, Covered, Directed, Resyncs, Matches
<1>5. Shown(lm, f)
  BY <1>1, <1>2, <1>3 DEF Shown
<1>6. f.init = Components => Published(f)
  BY <1>1, <1>3, <1>5, ShownPublished
<1>7. Found = f
  BY DEF Found, f
<1> QED BY <1>2, <1>3, <1>4, <1>6, <1>7, KeptRefl, ShownRefl

\* What a taken handler leaves: one copy less of it, and no request.
LEMMA Taken ==
  ASSUME IInv, NEW e \in Events, lm.posted[e] > 0
  PROVE  LET s == Take(e)
         IN  /\ s \in LinkManager /\ s.out = {}
             /\ s.ps = lm.ps /\ s.psm = lm.psm /\ s.ms = lm.ms /\ s.mux = lm.mux
             /\ s.ls = lm.ls /\ s.link = lm.link
             /\ s.peerPs = lm.peerPs /\ s.peerPsm = lm.peerPsm
             /\ s.init = lm.init /\ s.mode = lm.mode /\ s.waitMux = lm.waitMux
             /\ s.armed = lm.armed /\ s.route = lm.route
             /\ s.shutdown = lm.shutdown /\ s.label = lm.label
             /\ s.lastState = lm.lastState
             /\ \A x \in Events : x # e => s.posted[x] = lm.posted[x]
<1> DEFINE s == Take(e)
           q == [lm.posted EXCEPT ![e] = lm.posted[e] - 1]
<1>1. lm \in LinkManager /\ lm.posted \in [Events -> Nat]
  BY DEF IInv, LinkManager
<1>2. q \in [Events -> Nat] /\ \A x \in Events : x # e => q[x] = lm.posted[x]
  BY <1>1
<1>3. s = [lm EXCEPT !.posted = q, !.out = {}]
  BY <1>1 DEF Take, LinkManager
<1> HIDE DEF q, s
<1>4. s \in LinkManager /\ s.out = {} /\ s.posted = q
  BY <1>1, <1>2, <1>3 DEF LinkManager
<1>5. /\ s.ps = lm.ps /\ s.psm = lm.psm /\ s.ms = lm.ms /\ s.mux = lm.mux
      /\ s.ls = lm.ls /\ s.link = lm.link
      /\ s.peerPs = lm.peerPs /\ s.peerPsm = lm.peerPsm
  BY <1>1, <1>3 DEF LinkManager
<1>6. /\ s.init = lm.init /\ s.mode = lm.mode /\ s.waitMux = lm.waitMux
      /\ s.armed = lm.armed /\ s.route = lm.route
      /\ s.shutdown = lm.shutdown /\ s.label = lm.label
      /\ s.lastState = lm.lastState
  BY <1>1, <1>3 DEF LinkManager
<1> QED BY <1>2, <1>4, <1>5, <1>6 DEF s

\* A handler that is neither a report nor the end of a wait, nor the periodic
\* probe, is taken off the strand without harm.
LEMMA TakenSolid ==
  ASSUME IInv, NEW e \in Events, lm.posted[e] > 0
  PROVE  LET s == Take(e)
         IN  /\ s \in LinkManager /\ Directed(s)
             /\ e[1] \notin {"LinkProber", "MuxState", "LinkState", "PeerLinkProber"}
                  => Coherent(s)
             /\ e[1] \notin {"WaitOver", "MuxProbeTimeout"} => Covered(s)
             /\ e[1] # "AdminForwardingStateSyncUp" =>
                  (s.init = Components => Resyncs(s))
             /\ s.init = Components /\ DefaultRouteFeature => Matches(s)
             /\ s.init = Components => Published(s)
             /\ Kept(s, s) /\ Shown(s, s)
<1> DEFINE s == Take(e)
<1>1. /\ lm \in LinkManager /\ Coherent(lm) /\ Covered(lm)
      /\ lm.init = Components => Resyncs(lm) /\ Published(lm)
      /\ lm.init = Components /\ DefaultRouteFeature => Matches(lm)
  BY DEF IInv, Solid
<1>2. /\ s \in LinkManager /\ s.out = {}
      /\ s.ps = lm.ps /\ s.psm = lm.psm /\ s.ms = lm.ms /\ s.mux = lm.mux
      /\ s.ls = lm.ls /\ s.link = lm.link
      /\ s.peerPs = lm.peerPs /\ s.peerPsm = lm.peerPsm
      /\ s.init = lm.init /\ s.mode = lm.mode /\ s.waitMux = lm.waitMux
      /\ s.armed = lm.armed /\ s.route = lm.route
      /\ s.shutdown = lm.shutdown /\ s.label = lm.label
      /\ s.lastState = lm.lastState
      /\ \A x \in Events : x # e => s.posted[x] = lm.posted[x]
  BY Taken
<1> HIDE DEF s
<1>3. ASSUME e[1] \notin {"LinkProber", "MuxState", "LinkState", "PeerLinkProber"}
      PROVE  Coherent(s)
  <2>1. /\ \A l \in Detected : <<"LinkProber", l>> \in Events \ {e}
        /\ \A l \in Reported : <<"MuxState", l>> \in Events \ {e}
        /\ \A l \in LinkLabels : <<"LinkState", l>> \in Events \ {e}
        /\ \A l \in PeerDetected : <<"PeerLinkProber", l>> \in Events \ {e}
    BY <1>3 DEF Events
  <2>2. lm.link.state \in LinkLabels
    BY <1>1 DEF LinkManager, LinkMachines, Machine, LinkEvents, LinkLabels
  <2> QED BY <1>1, <1>2, <2>1, <2>2 DEF Coherent
<1>4. e[1] \notin {"WaitOver", "MuxProbeTimeout"} => Covered(s)
  BY <1>1, <1>2, CompletionEvents DEF Covered
<1>5. e[1] # "AdminForwardingStateSyncUp" => (s.init = Components => Resyncs(s))
  BY <1>1, <1>2, CompletionEvents DEF Resyncs
<1>6. /\ s.init = Components /\ DefaultRouteFeature => Matches(s)
      /\ Directed(s)
  BY <1>1, <1>2 DEF Matches, Directed
<1>7. s.init = Components => Published(s)
  <2>1. Shown(lm, s)
    BY <1>1, <1>2 DEF Shown
  <2> QED BY <1>1, <1>2, <2>1, ShownPublished
<1> QED BY <1>2, <1>3, <1>4, <1>5, <1>6, <1>7, KeptRefl, ShownRefl DEF s

\* A component that is now there, with the activation that may follow,
\* preserves the invariant.
LEMMA Activated ==
  ASSUME NEW m \in LinkManager, NEW c \in Components,
         Coherent(m), Covered(m), Directed(m),
         Step(activateStateMachine([m EXCEPT !.init = @ \cup {c}]))
  PROVE  IInv'
<1> DEFINE i == [m EXCEPT !.init = @ \cup {c}]
           a == activateStateMachine(i)
<1>1. m.init \cup {c} \in SUBSET Components
  BY DEF LinkManager
<1>2. i \in LinkManager
  BY <1>1 DEF LinkManager
<1>3. /\ i.ps = m.ps /\ i.psm = m.psm /\ i.ms = m.ms /\ i.mux = m.mux
      /\ i.ls = m.ls /\ i.link = m.link
      /\ i.peerPs = m.peerPs /\ i.peerPsm = m.peerPsm
      /\ i.mode = m.mode /\ i.waitMux = m.waitMux
      /\ i.armed = m.armed /\ i.posted = m.posted /\ i.out = m.out
  BY DEF LinkManager
<1>4. Step(a)
  OBVIOUS
<1> HIDE DEF i
<1>5. Coherent(i) /\ Covered(i) /\ Directed(i)
  BY <1>3 DEF Coherent, Covered, Directed
<1>6. /\ Kept(i, a)
      /\ i.init = Components => Resyncs(a)
      /\ i.init = Components /\ DefaultRouteFeature => Matches(a)
  BY <1>2, KeptRefl, activateStateMachineKept
<1>7. i.init = Components => Published(a)
  BY <1>2, activateStateMachinePublishes
<1> HIDE DEF a
<1>8. a \in LinkManager /\ a.init = i.init /\ Coherent(a)
  BY <1>5, <1>6, KeptTypes, KeptCoherent
<1>9. Covered(a) /\ Directed(a)
  BY <1>5, <1>6 DEF Kept
<1>10. lm' = a
  BY <1>4 DEF Step
<1> QED BY <1>6, <1>7, <1>8, <1>9, <1>10 DEF IInv, Solid

-----------------------------------------------------------------------------
(* Reports of the sub state machines. *)

\* Reports are handlers of the strand.
LEMMA ReportEvents ==
  /\ \A l \in Detected : <<"LinkProber", l>> \in Events
  /\ \A l \in Reported : <<"MuxState", l>> \in Events
  /\ \A l \in LinkLabels : <<"LinkState", l>> \in Events
  /\ \A l \in PeerDetected : <<"PeerLinkProber", l>> \in Events
  /\ \A m \in LinkMachines : m.state \in LinkLabels
BY DEF Events, LinkMachines, Machine, LinkEvents, LinkLabels

\* The prober's state machine moves and its report is on its way.
LEMMA ProberReported ==
  ASSUME NEW s \in LinkManager, Solid(s), NEW l \in Detected
  PROVE  LET t == Post([s EXCEPT !.psm = l], <<"LinkProber", l>>)
         IN  t \in LinkManager /\ Solid(t) /\ Shown(s, t) /\ t.init = s.init
<1> DEFINE e == <<"LinkProber", l>>
           u == [s EXCEPT !.psm = l]
           q == [s.posted EXCEPT ![e] = s.posted[e] + 1]
           t == Post(u, e)
<1>1. e \in Events /\ l \in ProberLabels /\ s.posted \in [Events -> Nat]
  BY DEF Events, Detected, LinkManager
<1>2. u \in LinkManager
  BY <1>1 DEF LinkManager
<1>3. t \in LinkManager
  BY <1>1, <1>2, KeptRefl, PostKept, KeptTypes
<1>4. q \in [Events -> Nat] /\ q[e] > 0 /\ \A x \in Events : q[x] >= s.posted[x]
  BY <1>1
<1>5. /\ t.ps = s.ps /\ t.psm = l /\ t.ms = s.ms /\ t.mux = s.mux
      /\ t.ls = s.ls /\ t.link = s.link
      /\ t.peerPs = s.peerPs /\ t.peerPsm = s.peerPsm
      /\ t.init = s.init /\ t.mode = s.mode /\ t.waitMux = s.waitMux
      /\ t.armed = s.armed /\ t.route = s.route /\ t.out = s.out
      /\ t.shutdown = s.shutdown /\ t.label = s.label
      /\ t.lastState = s.lastState /\ t.posted = q
  BY <1>1 DEF Post, LinkManager
<1> HIDE DEF t, q, u
<1>6. Coherent(t)
  <2>1. Coherent(s) /\ s.link.state \in LinkLabels
    BY ReportEvents DEF Solid, LinkManager
  <2> QED BY <1>1, <1>4, <1>5, <2>1, ReportEvents DEF Coherent
<1>7. Solid(t)
  BY <1>1, <1>4, <1>5, <1>6, CompletionEvents
     DEF Solid, Covered, Directed, Resyncs, Matches
<1> QED BY <1>3, <1>5, <1>7 DEF Shown, t, u

\* The same for what the prober says of the peer.
LEMMA PeerProberReported ==
  ASSUME NEW s \in LinkManager, Solid(s), NEW l \in PeerDetected
  PROVE  LET t == Post([s EXCEPT !.peerPsm = l], <<"PeerLinkProber", l>>)
         IN  t \in LinkManager /\ Solid(t) /\ Shown(s, t) /\ t.init = s.init
<1> DEFINE e == <<"PeerLinkProber", l>>
           u == [s EXCEPT !.peerPsm = l]
           q == [s.posted EXCEPT ![e] = s.posted[e] + 1]
           t == Post(u, e)
<1>1. e \in Events /\ l \in PeerLabels /\ s.posted \in [Events -> Nat]
  BY DEF Events, PeerDetected, LinkManager
<1>2. u \in LinkManager
  BY <1>1 DEF LinkManager
<1>3. t \in LinkManager
  BY <1>1, <1>2, KeptRefl, PostKept, KeptTypes
<1>4. q \in [Events -> Nat] /\ q[e] > 0 /\ \A x \in Events : q[x] >= s.posted[x]
  BY <1>1
<1>5. /\ t.ps = s.ps /\ t.psm = s.psm /\ t.ms = s.ms /\ t.mux = s.mux
      /\ t.ls = s.ls /\ t.link = s.link
      /\ t.peerPs = s.peerPs /\ t.peerPsm = l
      /\ t.init = s.init /\ t.mode = s.mode /\ t.waitMux = s.waitMux
      /\ t.armed = s.armed /\ t.route = s.route /\ t.out = s.out
      /\ t.shutdown = s.shutdown /\ t.label = s.label
      /\ t.lastState = s.lastState /\ t.posted = q
  BY <1>1 DEF Post, LinkManager
<1> HIDE DEF t, q, u
<1>6. Coherent(t)
  <2>1. Coherent(s) /\ s.link.state \in LinkLabels
    BY ReportEvents DEF Solid, LinkManager
  <2> QED BY <1>1, <1>4, <1>5, <2>1, ReportEvents DEF Coherent
<1>7. Solid(t)
  BY <1>1, <1>4, <1>5, <1>6, CompletionEvents
     DEF Solid, Covered, Directed, Resyncs, Matches
<1> QED BY <1>3, <1>5, <1>7 DEF Shown, t, u

\* The same for the mux, whose state machine moves by an event.
LEMMA MuxReported ==
  ASSUME NEW s \in LinkManager, Solid(s), NEW m \in MuxMachines, m.state \in Reported
  PROVE  LET t == Post([s EXCEPT !.mux = m], <<"MuxState", m.state>>)
         IN  t \in LinkManager /\ Solid(t) /\ Shown(s, t) /\ t.init = s.init
<1> DEFINE e == <<"MuxState", m.state>>
           u == [s EXCEPT !.mux = m]
           q == [s.posted EXCEPT ![e] = s.posted[e] + 1]
           t == Post(u, e)
<1>1. e \in Events /\ s.posted \in [Events -> Nat]
  BY DEF Events, LinkManager
<1>2. u \in LinkManager
  BY <1>1 DEF LinkManager
<1>3. t \in LinkManager
  BY <1>1, <1>2, KeptRefl, PostKept, KeptTypes
<1>4. q \in [Events -> Nat] /\ q[e] > 0 /\ \A x \in Events : q[x] >= s.posted[x]
  BY <1>1
<1>5. /\ t.ps = s.ps /\ t.psm = s.psm /\ t.ms = s.ms /\ t.mux = m
      /\ t.ls = s.ls /\ t.link = s.link
      /\ t.peerPs = s.peerPs /\ t.peerPsm = s.peerPsm
      /\ t.init = s.init /\ t.mode = s.mode /\ t.waitMux = s.waitMux
      /\ t.armed = s.armed /\ t.route = s.route /\ t.out = s.out
      /\ t.shutdown = s.shutdown /\ t.label = s.label
      /\ t.lastState = s.lastState /\ t.posted = q
  BY <1>1 DEF Post, LinkManager
<1> HIDE DEF t, q, u
<1>6. Coherent(t)
  <2>1. Coherent(s) /\ s.link.state \in LinkLabels
    BY ReportEvents DEF Solid, LinkManager
  <2> QED BY <1>1, <1>4, <1>5, <2>1, ReportEvents DEF Coherent
<1>7. Solid(t)
  BY <1>1, <1>4, <1>5, <1>6, CompletionEvents
     DEF Solid, Covered, Directed, Resyncs, Matches
<1> QED BY <1>3, <1>5, <1>7 DEF Shown, t, u

\* The same for the link.
LEMMA LinkReported ==
  ASSUME NEW s \in LinkManager, Solid(s), NEW m \in LinkMachines, m.state \in LinkLabels
  PROVE  LET t == Post([s EXCEPT !.link = m], <<"LinkState", m.state>>)
         IN  t \in LinkManager /\ Solid(t) /\ Shown(s, t) /\ t.init = s.init
<1> DEFINE e == <<"LinkState", m.state>>
           u == [s EXCEPT !.link = m]
           q == [s.posted EXCEPT ![e] = s.posted[e] + 1]
           t == Post(u, e)
<1>1. e \in Events /\ s.posted \in [Events -> Nat]
  BY DEF Events, LinkManager
<1>2. u \in LinkManager
  BY <1>1 DEF LinkManager
<1>3. t \in LinkManager
  BY <1>1, <1>2, KeptRefl, PostKept, KeptTypes
<1>4. q \in [Events -> Nat] /\ q[e] > 0 /\ \A x \in Events : q[x] >= s.posted[x]
  BY <1>1
<1>5. /\ t.ps = s.ps /\ t.psm = s.psm /\ t.ms = s.ms /\ t.mux = s.mux
      /\ t.ls = s.ls /\ t.link = m
      /\ t.peerPs = s.peerPs /\ t.peerPsm = s.peerPsm
      /\ t.init = s.init /\ t.mode = s.mode /\ t.waitMux = s.waitMux
      /\ t.armed = s.armed /\ t.route = s.route /\ t.out = s.out
      /\ t.shutdown = s.shutdown /\ t.label = s.label
      /\ t.lastState = s.lastState /\ t.posted = q
  BY <1>1 DEF Post, LinkManager
<1> HIDE DEF t, q, u
<1>6. Coherent(t)
  <2>1. Coherent(s) /\ s.link.state \in LinkLabels
    BY ReportEvents DEF Solid, LinkManager
  <2> QED BY <1>1, <1>4, <1>5, <2>1, ReportEvents DEF Coherent
<1>7. Solid(t)
  BY <1>1, <1>4, <1>5, <1>6, CompletionEvents
     DEF Solid, Covered, Directed, Resyncs, Matches
<1> QED BY <1>3, <1>5, <1>7 DEF Shown, t, u

\* A report taken off the strand: while the state machine is still in the
\* reported state the composite state catches up; otherwise a newer report is
\* on its way.
LEMMA ReportTaken ==
  ASSUME IInv
  PROVE  /\ \A l \in Detected :
              LET s == Take(<<"LinkProber", l>>)
                  c == [s EXCEPT !.ps = l]
              IN  lm.posted[<<"LinkProber", l>>] > 0 =>
                    /\ s \in LinkManager
                    /\ IF s.psm = l THEN c \in LinkManager /\ Solid(c) ELSE Solid(s)
         /\ \A l \in Reported :
              LET s == Take(<<"MuxState", l>>)
                  c == [s EXCEPT !.ms = l]
              IN  lm.posted[<<"MuxState", l>>] > 0 =>
                    /\ s \in LinkManager
                    /\ IF s.mux.state = l THEN c \in LinkManager /\ Solid(c) ELSE Solid(s)
         /\ \A l \in LinkLabels :
              LET s == Take(<<"LinkState", l>>)
                  c == [s EXCEPT !.ls = l]
              IN  lm.posted[<<"LinkState", l>>] > 0 =>
                    /\ s \in LinkManager
                    /\ IF s.link.state = l THEN c \in LinkManager /\ Solid(c) ELSE Solid(s)
         /\ \A l \in PeerDetected :
              LET s == Take(<<"PeerLinkProber", l>>)
                  c == enterPeerLinkProberState(s, l)
              IN  lm.posted[<<"PeerLinkProber", l>>] > 0 =>
                    /\ s \in LinkManager
                    /\ s.init = Components => Published(s)
                    /\ IF s.peerPsm = l
                       THEN c \in LinkManager /\ Solid(c) /\ Shown(s, c)
                       ELSE Solid(s)
<1>1. /\ lm \in LinkManager /\ Coherent(lm)
      /\ Detected \subseteq ProberLabels /\ Reported \subseteq MuxLabels
      /\ PeerDetected \subseteq PeerLabels
  BY DEF IInv, Solid, Detected, Reported, PeerDetected
<1>2. ASSUME NEW l \in Detected, lm.posted[<<"LinkProber", l>>] > 0
      PROVE  LET s == Take(<<"LinkProber", l>>)
                 c == [s EXCEPT !.ps = l]
             IN  /\ s \in LinkManager
                 /\ IF s.psm = l THEN c \in LinkManager /\ Solid(c) ELSE Solid(s)
  <2> DEFINE e == <<"LinkProber", l>>
             s == Take(e)
             c == [s EXCEPT !.ps = l]
  <2>1. e \in Events
    BY ReportEvents
  <2>2. /\ s \in LinkManager /\ Covered(s) /\ Directed(s)
        /\ s.init = Components => Resyncs(s) /\ Published(s)
        /\ s.init = Components /\ DefaultRouteFeature => Matches(s)
    BY <1>2, <2>1, TakenSolid
  <2>3. /\ s.ps = lm.ps /\ s.psm = lm.psm /\ s.ms = lm.ms /\ s.mux = lm.mux
        /\ s.ls = lm.ls /\ s.link = lm.link
        /\ s.peerPs = lm.peerPs /\ s.peerPsm = lm.peerPsm
        /\ \A x \in Events : x # e => s.posted[x] = lm.posted[x]
    BY <1>2, <2>1, Taken
  <2> HIDE DEF s
  <2>4. s.psm # l => Coherent(s)
    BY <1>1, <2>3, ReportEvents DEF Coherent, LinkManager
  <2>5. c \in LinkManager
    BY <1>1, <2>2 DEF LinkManager
  <2>6. /\ c.ps = l /\ c.psm = s.psm /\ c.ms = s.ms /\ c.mux = s.mux
        /\ c.ls = s.ls /\ c.link = s.link
        /\ c.peerPs = s.peerPs /\ c.peerPsm = s.peerPsm
        /\ c.init = s.init /\ c.mode = s.mode /\ c.waitMux = s.waitMux
        /\ c.armed = s.armed /\ c.route = s.route /\ c.out = s.out
        /\ c.shutdown = s.shutdown /\ c.posted = s.posted
        /\ c.label = s.label /\ c.lastState = s.lastState
    BY <2>2 DEF LinkManager
  <2> HIDE DEF c
  <2>7. s.psm = l => Coherent(c)
    BY <1>1, <2>3, <2>6, ReportEvents DEF Coherent, LinkManager
  <2>8. /\ Covered(c) /\ Directed(c)
        /\ c.init = Components => Resyncs(c)
        /\ c.init = Components /\ DefaultRouteFeature => Matches(c)
    BY <2>2, <2>6 DEF Covered, Directed, Resyncs, Matches
  <2>9. IF s.psm = l THEN c \in LinkManager /\ Solid(c) ELSE Solid(s)
    BY <2>2, <2>4, <2>5, <2>7, <2>8 DEF Solid
  <2> QED BY <2>2, <2>9 DEF s, c, e
<1>3. ASSUME NEW l \in Reported, lm.posted[<<"MuxState", l>>] > 0
      PROVE  LET s == Take(<<"MuxState", l>>)
                 c == [s EXCEPT !.ms = l]
             IN  /\ s \in LinkManager
                 /\ IF s.mux.state = l THEN c \in LinkManager /\ Solid(c) ELSE Solid(s)
  <2> DEFINE e == <<"MuxState", l>>
             s == Take(e)
             c == [s EXCEPT !.ms = l]
  <2>1. e \in Events
    BY ReportEvents
  <2>2. /\ s \in LinkManager /\ Covered(s) /\ Directed(s)
        /\ s.init = Components => Resyncs(s) /\ Published(s)
        /\ s.init = Components /\ DefaultRouteFeature => Matches(s)
    BY <1>3, <2>1, TakenSolid
  <2>3. /\ s.ps = lm.ps /\ s.psm = lm.psm /\ s.ms = lm.ms /\ s.mux = lm.mux
        /\ s.ls = lm.ls /\ s.link = lm.link
        /\ s.peerPs = lm.peerPs /\ s.peerPsm = lm.peerPsm
        /\ \A x \in Events : x # e => s.posted[x] = lm.posted[x]
    BY <1>3, <2>1, Taken
  <2> HIDE DEF s
  <2>4. s.mux.state # l => Coherent(s)
    BY <1>1, <2>3, ReportEvents DEF Coherent, LinkManager
  <2>5. c \in LinkManager
    BY <1>1, <2>2 DEF LinkManager
  <2>6. /\ c.ps = s.ps /\ c.psm = s.psm /\ c.ms = l /\ c.mux = s.mux
        /\ c.ls = s.ls /\ c.link = s.link
        /\ c.peerPs = s.peerPs /\ c.peerPsm = s.peerPsm
        /\ c.init = s.init /\ c.mode = s.mode /\ c.waitMux = s.waitMux
        /\ c.armed = s.armed /\ c.route = s.route /\ c.out = s.out
        /\ c.shutdown = s.shutdown /\ c.posted = s.posted
        /\ c.label = s.label /\ c.lastState = s.lastState
    BY <2>2 DEF LinkManager
  <2> HIDE DEF c
  <2>7. s.mux.state = l => Coherent(c)
    BY <1>1, <2>3, <2>6, ReportEvents DEF Coherent, LinkManager
  <2>8. /\ Covered(c) /\ Directed(c)
        /\ c.init = Components => Resyncs(c)
        /\ c.init = Components /\ DefaultRouteFeature => Matches(c)
    BY <2>2, <2>6 DEF Covered, Directed, Resyncs, Matches
  <2>9. IF s.mux.state = l THEN c \in LinkManager /\ Solid(c) ELSE Solid(s)
    BY <2>2, <2>4, <2>5, <2>7, <2>8 DEF Solid
  <2> QED BY <2>2, <2>9 DEF s, c, e
<1>4. ASSUME NEW l \in LinkLabels, lm.posted[<<"LinkState", l>>] > 0
      PROVE  LET s == Take(<<"LinkState", l>>)
                 c == [s EXCEPT !.ls = l]
             IN  /\ s \in LinkManager
                 /\ IF s.link.state = l THEN c \in LinkManager /\ Solid(c) ELSE Solid(s)
  <2> DEFINE e == <<"LinkState", l>>
             s == Take(e)
             c == [s EXCEPT !.ls = l]
  <2>1. e \in Events
    BY ReportEvents
  <2>2. /\ s \in LinkManager /\ Covered(s) /\ Directed(s)
        /\ s.init = Components => Resyncs(s) /\ Published(s)
        /\ s.init = Components /\ DefaultRouteFeature => Matches(s)
    BY <1>4, <2>1, TakenSolid
  <2>3. /\ s.ps = lm.ps /\ s.psm = lm.psm /\ s.ms = lm.ms /\ s.mux = lm.mux
        /\ s.ls = lm.ls /\ s.link = lm.link
        /\ s.peerPs = lm.peerPs /\ s.peerPsm = lm.peerPsm
        /\ \A x \in Events : x # e => s.posted[x] = lm.posted[x]
    BY <1>4, <2>1, Taken
  <2> HIDE DEF s
  <2>4. s.link.state # l => Coherent(s)
    BY <1>1, <2>3, ReportEvents DEF Coherent, LinkManager
  <2>5. c \in LinkManager
    BY <1>1, <2>2 DEF LinkManager
  <2>6. /\ c.ps = s.ps /\ c.psm = s.psm /\ c.ms = s.ms /\ c.mux = s.mux
        /\ c.ls = l /\ c.link = s.link
        /\ c.peerPs = s.peerPs /\ c.peerPsm = s.peerPsm
        /\ c.init = s.init /\ c.mode = s.mode /\ c.waitMux = s.waitMux
        /\ c.armed = s.armed /\ c.route = s.route /\ c.out = s.out
        /\ c.shutdown = s.shutdown /\ c.posted = s.posted
        /\ c.label = s.label /\ c.lastState = s.lastState
    BY <2>2 DEF LinkManager
  <2> HIDE DEF c
  <2>7. s.link.state = l => Coherent(c)
    BY <1>1, <2>3, <2>6, ReportEvents DEF Coherent, LinkManager
  <2>8. /\ Covered(c) /\ Directed(c)
        /\ c.init = Components => Resyncs(c)
        /\ c.init = Components /\ DefaultRouteFeature => Matches(c)
    BY <2>2, <2>6 DEF Covered, Directed, Resyncs, Matches
  <2>9. IF s.link.state = l THEN c \in LinkManager /\ Solid(c) ELSE Solid(s)
    BY <2>2, <2>4, <2>5, <2>7, <2>8 DEF Solid
  <2> QED BY <2>2, <2>9 DEF s, c, e
<1>5. ASSUME NEW l \in PeerDetected, lm.posted[<<"PeerLinkProber", l>>] > 0
      PROVE  LET s == Take(<<"PeerLinkProber", l>>)
                 c == enterPeerLinkProberState(s, l)
             IN  /\ s \in LinkManager
                 /\ s.init = Components => Published(s)
                 /\ IF s.peerPsm = l
                    THEN c \in LinkManager /\ Solid(c) /\ Shown(s, c)
                    ELSE Solid(s)
  <2> DEFINE e == <<"PeerLinkProber", l>>
             s == Take(e)
             c == enterPeerLinkProberState(s, l)
  <2>1. e \in Events
    BY ReportEvents
  <2>2. /\ s \in LinkManager /\ Covered(s) /\ Directed(s)
        /\ s.init = Components => Resyncs(s) /\ Published(s)
        /\ s.init = Components /\ DefaultRouteFeature => Matches(s)
    BY <1>5, <2>1, TakenSolid
  <2>3. /\ s.ps = lm.ps /\ s.psm = lm.psm /\ s.ms = lm.ms /\ s.mux = lm.mux
        /\ s.ls = lm.ls /\ s.link = lm.link
        /\ s.peerPs = lm.peerPs /\ s.peerPsm = lm.peerPsm
        /\ \A x \in Events : x # e => s.posted[x] = lm.posted[x]
    BY <1>5, <2>1, Taken
  <2> HIDE DEF s
  <2>4. s.peerPsm # l => Coherent(s)
    BY <1>1, <2>3, ReportEvents DEF Coherent, LinkManager
  <2>5. c \in LinkManager
    BY <1>1, <2>2 DEF enterPeerLinkProberState, LinkManager
  <2>6. /\ c.ps = s.ps /\ c.psm = s.psm /\ c.ms = s.ms /\ c.mux = s.mux
        /\ c.ls = s.ls /\ c.link = s.link
        /\ c.peerPs = l /\ c.peerPsm = l
        /\ c.init = s.init /\ c.mode = s.mode /\ c.waitMux = s.waitMux
        /\ c.armed = s.armed /\ c.route = s.route /\ c.out = s.out
        /\ c.shutdown = s.shutdown /\ c.posted = s.posted
        /\ c.label = s.label /\ c.lastState = s.lastState
    BY <2>2 DEF enterPeerLinkProberState, LinkManager
  <2> HIDE DEF c
  <2>7. s.peerPsm = l => Coherent(c)
    BY <1>1, <2>3, <2>6, ReportEvents DEF Coherent, LinkManager
  <2>8. /\ Covered(c) /\ Directed(c)
        /\ c.init = Components => Resyncs(c)
        /\ c.init = Components /\ DefaultRouteFeature => Matches(c)
    BY <2>2, <2>6 DEF Covered, Directed, Resyncs, Matches
  <2> QED BY <2>2, <2>4, <2>5, <2>6, <2>7, <2>8 DEF Solid, Shown, s, c
<1> QED BY <1>2, <1>3, <1>4, <1>5

-----------------------------------------------------------------------------
(* The handlers preserve the invariant. *)

\* The server's address, the component of the prober.
LEMMA handleSwssSoCIpv4AddressUpdateSolid ==
  ASSUME IInv, handleSwssSoCIpv4AddressUpdate
  PROVE  IInv'
BY FoundSolid, Activated
   DEF handleSwssSoCIpv4AddressUpdate, Solid, Components

\* The first answer about the mux, from whoever gives it.
LEMMA FirstMuxStateSolid ==
  ASSUME NEW s, NEW t, Kept(s, t), Solid(s), NEW l \in Reported,
         Step(FirstMuxState(t, l))
  PROVE  IInv'
<1> DEFINE m == IF l = "Unknown" THEN enterMuxState(probeMuxState(t), "Wait")
                                 ELSE enterMuxState(t, l)
<1>1. Kept(s, probeMuxState(t))
  BY probeMuxStateKept
<1>2. Kept(s, m)
  BY <1>1, enterMuxStateKept DEF MuxLabels, Reported
<1>3. Step(activateStateMachine([m EXCEPT !.init = @ \cup {"MuxState"}]))
  BY DEF FirstMuxState
<1> HIDE DEF m
<1>4. Coherent(m) /\ Covered(m) /\ Directed(m) /\ m \in LinkManager
  BY <1>2, KeptTypes, KeptCoherent DEF Solid, Kept
<1> QED BY <1>3, <1>4, Activated DEF Components

\* A mux state from orchagent, before and after the port is activated.
LEMMA handleMuxStateNotificationSolid ==
  ASSUME IInv, NEW l \in SwssReports, handleMuxStateNotification(l)
  PROVE  IInv'
<1> DEFINE c == Cancel(Found, "wait")
           d == [c EXCEPT !.lastType = "Toggle"]
           s == [d EXCEPT !.lastState = l]
           r == resumeTxProbes(s)
           p == Post(r, <<"MuxStateEvent", l>>)
<1>1. /\ Found \in LinkManager /\ Solid(Found) /\ Kept(Found, Found)
      /\ Found.init = lm.init
  BY FoundSolid
<1>2. l \in Reported /\ <<"MuxStateEvent", l>> \in Events
  BY ConstantsAssumption DEF Events
<1>3. Kept(Found, c)
  BY <1>1, CancelKept
<1>4. s = [c EXCEPT !.lastType = "Toggle", !.lastState = l]
  BY <1>3, KeptTypes DEF LinkManager
<1> HIDE DEF c
<1>5. Kept(Found, d)
  BY <1>3, FieldKept DEF Notified
<1> HIDE DEF d
<1>6. Kept(Found, s)
  BY <1>2, <1>5, FieldKept
<1>7. \/ Initialized /\ Step(updateMuxLinkmgrState(p))
      \/ Step(FirstMuxState(s, l))
  BY <1>4 DEF handleMuxStateNotification, c
<1> HIDE DEF s
<1>8. Kept(Found, p)
  BY <1>2, <1>6, OtherTimersKept, PostKept
<1> HIDE DEF p
<1>9. /\ Kept(Found, updateMuxLinkmgrState(p))
      /\ Published(updateMuxLinkmgrState(p))
  BY <1>8, KeptTypes, updateMuxLinkmgrStateKept, updateMuxLinkmgrStatePublishes
<1>10. CASE Step(updateMuxLinkmgrState(p))
  BY <1>1, <1>9, <1>10, StepKeeps
<1>11. CASE Step(FirstMuxState(s, l))
  BY <1>1, <1>2, <1>6, <1>11, FirstMuxStateSolid
<1> QED BY <1>7, <1>10, <1>11

\* The answer of a probe, before and after the port is activated.
LEMMA handleProbeMuxStateNotificationSolid ==
  ASSUME IInv, NEW l \in ProbeReports, handleProbeMuxStateNotification(l)
  PROVE  IInv'
<1> DEFINE c == Cancel(Found, "wait")
           d == [c EXCEPT !.lastType = "Probe"]
           s == [d EXCEPT !.lastProbe = l]
           t == IF l \in {"Active", "Standby"} THEN Cancel(s, "deadline") ELSE s
           p == Post(t, <<"MuxStateEvent", l>>)
<1>1. /\ Found \in LinkManager /\ Solid(Found) /\ Kept(Found, Found)
      /\ Found.init = Components => Published(Found)
  BY FoundSolid
<1>2. l \in Reported /\ <<"MuxStateEvent", l>> \in Events
  BY ConstantsAssumption DEF Events, Reported, MuxLabels
<1>3. Kept(Found, c) /\ Shown(Found, c)
  BY <1>1, CancelKept, ProbeShown
<1>4. s = [c EXCEPT !.lastType = "Probe", !.lastProbe = l]
  BY <1>3, KeptTypes DEF LinkManager
<1> HIDE DEF c
<1>5. Kept(Found, d) /\ Shown(c, d)
  <2>1. Kept(Found, d)
    BY <1>3, FieldKept DEF Notified
  <2> QED BY <1>3, <2>1, KeptTypes DEF Shown, LinkManager
<1> HIDE DEF d
<1>6. Kept(Found, s) /\ Shown(d, s)
  <2>1. Kept(Found, s)
    BY <1>2, <1>5, FieldKept
  <2> QED BY <1>5, <2>1, KeptTypes DEF Shown, LinkManager
<1>7. Step(p) \/ Step(FirstMuxState(t, l))
  BY <1>4 DEF handleProbeMuxStateNotification, c
<1> HIDE DEF s
<1>8. Kept(Found, t) /\ Shown(s, t)
  BY <1>6, CancelKept, ProbeShown, ShownRefl, KeptTypes
<1> HIDE DEF t
<1>9. Kept(Found, p) /\ Shown(t, p)
  BY <1>2, <1>8, PostKept, StrandShown, KeptTypes
<1> HIDE DEF p
<1>10. Shown(Found, p)
  BY <1>3, <1>5, <1>6, <1>8, <1>9, ShownTrans
<1>11. CASE Step(p)
  BY <1>1, <1>9, <1>10, <1>11, StepShows
<1>12. CASE Step(FirstMuxState(t, l))
  BY <1>1, <1>2, <1>8, <1>12, FirstMuxStateSolid
<1> QED BY <1>7, <1>11, <1>12

\* A lost connection, probe requests and states of the peer.
LEMMA OtherNotificationsSolid ==
  ASSUME IInv
  PROVE  /\ handleProbeMuxFailure => IInv'
         /\ handleMuxProbeRequestEvent => IInv'
         /\ \A l \in PeerReports : handlePeerMuxStateNotification(l) => IInv'
<1>1. /\ Found \in LinkManager /\ Solid(Found) /\ Kept(Found, Found)
      /\ Found.init = Components => Published(Found)
      /\ Shown(Found, Found)
  BY FoundSolid
<1>2. Kept(Found, probeMuxState(Found)) /\ Shown(Found, probeMuxState(Found))
  BY <1>1, probeMuxStateKept, ProbeShown
<1>3. ASSUME NEW l \in PeerReports, handlePeerMuxStateNotification(l)
      PROVE  IInv'
  <2> DEFINE c == Cancel(Found, "peerWait")
             p == enterPeerMuxState(c, l)
  <2>1. l \in MuxLabels
    BY ConstantsAssumption DEF Reported
  <2>2. Kept(Found, c) /\ Shown(Found, c)
    BY <1>1, CancelKept, ProbeShown
  <2>3. Step(p)
    BY <1>3 DEF handlePeerMuxStateNotification
  <2> HIDE DEF c
  <2>4. Kept(Found, p)
    BY <2>1, <2>2, enterPeerMuxStateKept
  <2>5. Shown(c, p)
    BY <2>2, <2>4, KeptTypes DEF Shown, enterPeerMuxState, LinkManager
  <2> HIDE DEF p
  <2> QED BY <1>1, <2>2, <2>3, <2>4, <2>5, ShownTrans, StepShows
<1>4. handleProbeMuxFailure => Step(probeMuxState(Found))
  BY DEF handleProbeMuxFailure
<1>5. handleMuxProbeRequestEvent => Step(Found) \/ Step(probeMuxState(Found))
  BY DEF handleMuxProbeRequestEvent, ProbeUnlessWaiting
<1> QED BY <1>1, <1>2, <1>3, <1>4, <1>5, StepShows

\* A link state, before and after the port is activated.
LEMMA handleSwssLinkStateNotificationSolid ==
  ASSUME IInv, NEW l \in LinkReports, handleSwssLinkStateNotification(l)
  PROVE  IInv'
<1> DEFINE m == enterLinkState(Found, l)
           p == Post(Found, <<"LinkStateEvent", l>>)
<1>1. /\ Found \in LinkManager /\ Solid(Found) /\ Kept(Found, Found)
      /\ Found.init = Components => Published(Found)
  BY FoundSolid
<1>2. l \in LinkLabels /\ <<"LinkStateEvent", l>> \in Events
  BY ConstantsAssumption DEF Events
<1>3. Kept(Found, m)
  BY <1>1, <1>2, enterLinkStateKept
<1>4. \/ Step(p)
      \/ Step(activateStateMachine([m EXCEPT !.init = @ \cup {"LinkState"}]))
  BY DEF handleSwssLinkStateNotification
<1>5. Kept(Found, p) /\ Shown(Found, p)
  BY <1>1, <1>2, PostKept, StrandShown
<1> HIDE DEF m, p
<1>6. Coherent(m) /\ Covered(m) /\ Directed(m) /\ m \in LinkManager
  BY <1>1, <1>3, KeptTypes, KeptCoherent DEF Solid, Kept
<1>7. CASE Step(p)
  BY <1>1, <1>5, <1>7, StepShows
<1>8. CASE Step(activateStateMachine([m EXCEPT !.init = @ \cup {"LinkState"}]))
  BY <1>6, <1>8, Activated DEF Components
<1> QED BY <1>4, <1>7, <1>8

\* Shutting heartbeats down leaves the label alone.
LEMMA shutdownOrRestartShown ==
  ASSUME NEW t \in LinkManager
  PROVE  Shown(t, shutdownOrRestartLinkProberOnDefaultRoute(t))
<1>1. shutdownOrRestartLinkProberOnDefaultRoute(t) \in LinkManager
  BY KeptRefl, shutdownOrRestartKept, KeptTypes
<1> QED BY <1>1
        DEF Shown, shutdownOrRestartLinkProberOnDefaultRoute, LinkManager

\* A mode of the operator, handled before or after the port is activated.
LEMMA ModeSolid ==
  ASSUME NEW s \in LinkManager, s.out = {}, Solid(s),
         s.init = Components => Published(s),
         NEW mode \in Modes, Step(handleMuxConfigNotification(s, mode))
  PROVE  IInv'
<1> DEFINE t == [s EXCEPT !.mode = mode]
           a == ApplyMode(t, mode)
           g == [s.registered EXCEPT ![mode] = s.registered[mode] + 1]
           r == [t EXCEPT !.registered = g]
           n == IF s.init = Components THEN a ELSE r
           z == shutdownOrRestartLinkProberOnDefaultRoute(n)
<1>1. t \in LinkManager /\ t.mode = mode /\ t.init = s.init
  BY DEF LinkManager
<1>2. Coherent(t) /\ Covered(t) /\ Directed(t)
      /\ (t.init = Components => Resyncs(t))
  BY DEF Solid, Coherent, Covered, Directed, Resyncs, LinkManager
<1>3. handleMuxConfigNotification(s, mode) = z
  BY DEF handleMuxConfigNotification, LinkManager
<1>4. g \in [Modes -> Nat]
  BY DEF LinkManager
<1> HIDE DEF t, g
<1>5. Kept(t, a) /\ Kept(t, r)
  BY <1>1, <1>4, KeptRefl, ApplyModeKept, FieldKept
<1>6. Published(a)
  <2> DEFINE x == CASE mode \in {"Active", "Standby"} /\ t.ms # mode ->
                         switchMuxState(t, mode, TRUE)
                    [] mode = "Auto" /\ t.ms = "Unknown" -> initLinkProberState(t)
                    [] OTHER -> TransitionFunction(t, t.ps)
  <2>1. Kept(t, x)
    BY <1>1, KeptRefl, switchMuxStateKept, initLinkProberStateKept,
       TransitionFunctionKept
  <2>2. a = updateMuxLinkmgrState(x)
    BY DEF ApplyMode
  <2> HIDE DEF x
  <2> QED BY <2>1, <2>2, KeptTypes, updateMuxLinkmgrStatePublishes
<1> HIDE DEF a, r
<1>7. Kept(t, n) /\ (t.init = Components => Published(n))
  BY <1>1, <1>5, <1>6
<1> HIDE DEF n
<1>8. Kept(t, z) /\ (t.init = Components => Matches(z)) /\ Shown(n, z)
  BY <1>7, KeptTypes, shutdownOrRestartKept, shutdownOrRestartShown
<1> HIDE DEF z
<1>9. t.init = Components => Published(z) /\ Resyncs(z)
  BY <1>2, <1>7, <1>8, ShownPublished DEF Kept
<1> QED BY <1>2, <1>3, <1>8, <1>9, StepEstablishes

\* A mode from the configuration, and one that waited for the activation.
LEMMA ConfigurationSolid ==
  ASSUME IInv
  PROVE  /\ \A mode \in ConfigModes : handleMuxConfig(mode) => IInv'
         /\ \A mode \in Modes : RegisteredMuxConfig(mode) => IInv'
<1>1. ASSUME NEW mode \in ConfigModes, handleMuxConfig(mode) PROVE IInv'
  <2>1. mode \in Modes
    BY ConstantsAssumption
  <2>2. Found.out = {}
    BY DEF Found, IInv, LinkManager
  <2>3. Step(handleMuxConfigNotification(Found, mode))
    BY <1>1 DEF handleMuxConfig
  <2> QED BY <2>1, <2>2, <2>3, FoundSolid, ModeSolid
<1>2. ASSUME NEW mode \in Modes, RegisteredMuxConfig(mode) PROVE IInv'
  <2> DEFINE e == <<"MuxConfig", mode>>
  <2>1. e \in Events /\ lm.posted[e] > 0
        /\ Step(handleMuxConfigNotification(Take(e), mode))
    BY <1>2 DEF RegisteredMuxConfig, Run, Events
  <2>2. e[1] = "MuxConfig"
    OBVIOUS
  <2> HIDE DEF e
  <2>3. Take(e).out = {} /\ Take(e) \in LinkManager /\ Solid(Take(e))
        /\ (Take(e).init = Components => Published(Take(e)))
    BY <2>1, <2>2, Taken, TakenSolid DEF Solid
  <2> QED BY <2>1, <2>3, ModeSolid
<1> QED BY <1>1, <1>2

\* A default route state.
LEMMA handleDefaultRouteStateNotificationSolid ==
  ASSUME IInv, NEW r \in RouteReports, handleDefaultRouteStateNotification(r)
  PROVE  IInv'
<1> DEFINE s == Found
           b == [s EXCEPT !.route = r]
           t == shutdownOrRestartLinkProberOnDefaultRoute(b)
           u == IF s.mode # "Active" /\ r = "NA"
                THEN switchMuxState(t, "Standby", FALSE) ELSE t
           v == IF s.route = "NA" /\ r = "OK" /\ u.ps = "Active" /\ s.mode = "Auto"
                THEN initLinkProberState(u) ELSE u
           n == IF s.init = Components THEN v ELSE t
           z == updateMuxLinkmgrState(n)
<1>1. s \in LinkManager /\ Solid(s)
  BY FoundSolid
<1>2. r \in Routes
  BY ConstantsAssumption DEF Routes
<1>3. Step(z)
  BY DEF handleDefaultRouteStateNotification, RouteChange
<1> HIDE DEF s
<1>4. b \in LinkManager /\ b.init = s.init
  BY <1>1, <1>2 DEF LinkManager
<1>5. Coherent(b) /\ Covered(b) /\ Directed(b)
      /\ (b.init = Components => Resyncs(b))
  BY <1>1 DEF Solid, Coherent, Covered, Directed, Resyncs, LinkManager
<1> HIDE DEF b
<1>6. Kept(b, t) /\ (b.init = Components => Matches(t))
  BY <1>4, KeptRefl, shutdownOrRestartKept
<1> HIDE DEF t
<1>7. Kept(b, t) /\ Kept(t, t)
  BY <1>6, KeptTypes, KeptRefl
<1>8. Kept(b, u) /\ Kept(t, u)
  BY <1>7, switchMuxStateKept
<1> HIDE DEF u
<1>9. Kept(b, v) /\ Kept(t, v)
  BY <1>8, initLinkProberStateKept
<1> HIDE DEF v
<1>10. Kept(b, n) /\ Kept(t, n)
  BY <1>7, <1>9
<1> HIDE DEF n
<1>11. Kept(b, z) /\ Kept(t, z) /\ Published(z)
  BY <1>10, KeptTypes, updateMuxLinkmgrStateKept, updateMuxLinkmgrStatePublishes
<1> HIDE DEF z
<1>12. /\ b.init = Components => Resyncs(z) /\ Published(z)
       /\ b.init = Components /\ DefaultRouteFeature => Matches(z)
  BY <1>5, <1>6, <1>11 DEF Kept
<1> QED BY <1>3, <1>5, <1>11, <1>12, StepEstablishes

\* A step to a solid object preserves the invariant.
LEMMA StepSolid ==
  ASSUME NEW t \in LinkManager, Solid(t), t.init = Components => Published(t),
         Step(t)
  PROVE  IInv'
BY DEF Step, IInv

\* What the prober detects of the port and of the peer.
LEMMA DetectsSolid ==
  ASSUME IInv
  PROVE  /\ \A l \in Heartbeats : ProberDetects(l) => IInv'
         /\ \A l \in PeerHeartbeats : PeerProberDetects(l) => IInv'
<1>1. /\ Found \in LinkManager /\ Solid(Found)
      /\ Found.init = Components => Published(Found)
  BY FoundSolid
<1>2. ASSUME NEW l \in Heartbeats, ProberDetects(l) PROVE IInv'
  <2> DEFINE t == Post([Found EXCEPT !.psm = l], <<"LinkProber", l>>)
  <2>1. l \in Detected
    BY ConstantsAssumption
  <2>2. Step(t)
    BY <1>2 DEF ProberDetects
  <2>3. t \in LinkManager /\ Solid(t) /\ Shown(Found, t) /\ t.init = Found.init
    BY <1>1, <2>1, ProberReported
  <2> HIDE DEF t
  <2> QED BY <1>1, <2>2, <2>3, ShownPublished, StepSolid
<1>3. ASSUME NEW l \in PeerHeartbeats, PeerProberDetects(l) PROVE IInv'
  <2> DEFINE t == Post([Found EXCEPT !.peerPsm = l], <<"PeerLinkProber", l>>)
  <2>1. l \in PeerDetected
    BY ConstantsAssumption
  <2>2. Step(t)
    BY <1>3 DEF PeerProberDetects
  <2>3. t \in LinkManager /\ Solid(t) /\ Shown(Found, t) /\ t.init = Found.init
    BY <1>1, <2>1, PeerProberReported
  <2> HIDE DEF t
  <2> QED BY <1>1, <2>2, <2>3, ShownPublished, StepSolid
<1> QED BY <1>2, <1>3

\* The expiry of a timer: its completion takes the place of the timer.
LEMMA TimerExpiresSolid ==
  ASSUME IInv, NEW r \in Timers, TimerExpires(r)
  PROVE  IInv'
<1> DEFINE t == Found
           d == Disarm(t, r)
           e == <<Completion[r], "None">>
           u == Post(d, e)
<1>1. /\ t \in LinkManager /\ Solid(t) /\ (t.init = Components => Published(t))
  BY FoundSolid
<1>2. Step(u)
  BY DEF TimerExpires
<1> HIDE DEF t
<1>3. /\ e \in Events
      /\ r = "wait" => e = <<"WaitOver", "None">>
      /\ r = "deadline" => e = <<"MuxProbeTimeout", "None">>
      /\ r = "resync" => e = <<"AdminForwardingStateSyncUp", "None">>
  BY CompletionEvents DEF Completion, Timers
<1>4. Shown(t, u) /\ u \in LinkManager
  <2>1. Shown(t, d)
    BY <1>1, StrandShown
  <2> HIDE DEF d
  <2>2. Shown(d, u)
    BY <1>3, <2>1, StrandShown DEF Shown
  <2> QED BY <2>1, <2>2, ShownTrans DEF Shown
<1>5. /\ u.ps = t.ps /\ u.psm = t.psm /\ u.ms = t.ms /\ u.mux = t.mux
      /\ u.ls = t.ls /\ u.link = t.link
      /\ u.peerPs = t.peerPs /\ u.peerPsm = t.peerPsm
      /\ u.init = t.init /\ u.mode = t.mode /\ u.waitMux = t.waitMux
      /\ u.armed = t.armed \ {r} /\ u.shutdown = t.shutdown
      /\ u.route = t.route /\ u.out = t.out
      /\ u.posted = [t.posted EXCEPT ![e] = t.posted[e] + 1]
  BY <1>1 DEF Post, Disarm, LinkManager
<1>6. /\ t.posted \in [Events -> Nat] /\ u.posted \in [Events -> Nat]
      /\ \A x \in Events : u.posted[x] >= t.posted[x]
      /\ u.posted[e] > 0
  <2>1. t.posted \in [Events -> Nat]
    BY <1>1 DEF LinkManager
  <2> QED BY <1>3, <1>5, <2>1
<1> HIDE DEF u, e
<1>7. KeptComponents(t, u)
  BY <1>5, <1>6 DEF KeptComponents
<1>8. (Covered(t) => Covered(u)) /\ (Resyncs(t) => Resyncs(u))
  BY <1>3, <1>5, <1>6, CompletionEvents DEF Covered, Resyncs
<1>9. (Matches(t) => Matches(u)) /\ (Directed(t) => Directed(u))
  BY <1>5 DEF Matches, Directed
<1>10. Kept(t, u)
  BY <1>1, <1>4, <1>5, <1>7, <1>8, <1>9 DEF Kept
<1> QED BY <1>1, <1>2, <1>4, <1>10, StepShows

\* processEvent of the mux.
LEMMA MuxStateEventSolid ==
  ASSUME IInv, NEW l \in Reported, MuxStateEvent(l)
  PROVE  IInv'
<1> DEFINE e == <<"MuxStateEvent", l>>
           b == Take(e)
           m == MuxMoves(b.mux, l)
           s == [b EXCEPT !.mux = m]
           t == Post(s, <<"MuxState", m.state>>)
<1>1. e \in Events /\ lm.posted[e] > 0
  BY DEF MuxStateEvent, Run, Events
<1>2. /\ b \in LinkManager /\ Solid(b) /\ (b.init = Components => Published(b))
      /\ b.mux = lm.mux
  BY <1>1, Taken, TakenSolid DEF Solid
<1>3. IF s.mux.state = lm.mux.state THEN Step(s)
      ELSE Step(Post(s, <<"MuxState", s.mux.state>>))
  BY DEF MuxStateEvent, Run
<1> HIDE DEF b, e
<1>4. m \in MuxMachines /\ m.state \in {b.mux.state, l}
  BY <1>2, MuxMovesType DEF LinkManager
<1> HIDE DEF m
<1>5. s.mux = m
  BY <1>2 DEF LinkManager
<1>6. CASE m.state = lm.mux.state
  <2>1. Step(s)
    BY <1>3, <1>5, <1>6
  <2>2. s \in LinkManager
    BY <1>2, <1>4 DEF LinkManager
  <2>3. /\ s.ps = b.ps /\ s.psm = b.psm /\ s.ms = b.ms
        /\ s.mux.state = b.mux.state
        /\ s.ls = b.ls /\ s.link = b.link
        /\ s.peerPs = b.peerPs /\ s.peerPsm = b.peerPsm
        /\ s.init = b.init /\ s.mode = b.mode /\ s.waitMux = b.waitMux
        /\ s.armed = b.armed /\ s.route = b.route /\ s.out = b.out
        /\ s.shutdown = b.shutdown /\ s.posted = b.posted
        /\ s.label = b.label /\ s.lastState = b.lastState
    BY <1>2, <1>5, <1>6 DEF LinkManager
  <2> HIDE DEF s
  <2>4. Solid(s)
    BY <1>2, <2>3 DEF Solid, Coherent, Covered, Directed, Resyncs, Matches
  <2>5. Shown(b, s)
    BY <1>2, <2>2, <2>3 DEF Shown
  <2> QED BY <1>2, <2>1, <2>2, <2>3, <2>4, <2>5, ShownPublished, StepSolid
<1>7. CASE m.state # lm.mux.state
  <2>1. Step(t) /\ m.state \in Reported
    BY <1>2, <1>3, <1>4, <1>5, <1>7
  <2>2. t \in LinkManager /\ Solid(t) /\ Shown(b, t) /\ t.init = b.init
    BY <1>2, <1>4, <2>1, MuxReported
  <2> HIDE DEF t
  <2> QED BY <1>2, <2>1, <2>2, ShownPublished, StepSolid
<1> QED BY <1>6, <1>7

\* processEvent of the link.
LEMMA LinkStateEventSolid ==
  ASSUME IInv, NEW l \in LinkLabels, LinkStateEvent(l)
  PROVE  IInv'
<1> DEFINE e == <<"LinkStateEvent", l>>
           b == Take(e)
           m == LinkMoves(b.link, l)
           s == [b EXCEPT !.link = m]
           t == Post(s, <<"LinkState", m.state>>)
<1>1. e \in Events /\ lm.posted[e] > 0
  BY DEF LinkStateEvent, Run, Events
<1>2. /\ b \in LinkManager /\ Solid(b) /\ (b.init = Components => Published(b))
      /\ b.link = lm.link
  BY <1>1, Taken, TakenSolid DEF Solid
<1>3. IF s.link.state = lm.link.state THEN Step(s)
      ELSE Step(Post(s, <<"LinkState", s.link.state>>))
  BY DEF LinkStateEvent, Run
<1> HIDE DEF b, e
<1>4. m \in LinkMachines /\ m.state \in {b.link.state, l}
  BY <1>2, LinkMovesType DEF LinkManager
<1> HIDE DEF m
<1>5. s.link = m
  BY <1>2 DEF LinkManager
<1>6. CASE m.state = lm.link.state
  <2>1. Step(s)
    BY <1>3, <1>5, <1>6
  <2>2. s \in LinkManager
    BY <1>2, <1>4 DEF LinkManager
  <2>3. /\ s.ps = b.ps /\ s.psm = b.psm /\ s.ms = b.ms
        /\ s.link.state = b.link.state
        /\ s.ls = b.ls /\ s.mux = b.mux
        /\ s.peerPs = b.peerPs /\ s.peerPsm = b.peerPsm
        /\ s.init = b.init /\ s.mode = b.mode /\ s.waitMux = b.waitMux
        /\ s.armed = b.armed /\ s.route = b.route /\ s.out = b.out
        /\ s.shutdown = b.shutdown /\ s.posted = b.posted
        /\ s.label = b.label /\ s.lastState = b.lastState
    BY <1>2, <1>5, <1>6 DEF LinkManager
  <2> HIDE DEF s
  <2>4. Solid(s)
    BY <1>2, <2>3 DEF Solid, Coherent, Covered, Directed, Resyncs, Matches
  <2>5. Shown(b, s)
    BY <1>2, <2>2, <2>3 DEF Shown
  <2> QED BY <1>2, <2>1, <2>2, <2>3, <2>4, <2>5, ShownPublished, StepSolid
<1>7. CASE m.state # lm.link.state
  <2>1. Step(t) /\ m.state \in LinkLabels
    BY <1>2, <1>3, <1>4, <1>5, <1>7
  <2>2. t \in LinkManager /\ Solid(t) /\ Shown(b, t) /\ t.init = b.init
    BY <1>2, <1>4, <2>1, LinkReported
  <2> HIDE DEF t
  <2> QED BY <1>2, <2>1, <2>2, ShownPublished, StepSolid
<1> QED BY <1>6, <1>7

\* handleStateChange of the prober: the transition function included.
LEMMA LinkProberChangeSolid ==
  ASSUME IInv, NEW l \in Detected, handleLinkProberStateChange(l)
  PROVE  IInv'
<1> DEFINE s == Take(<<"LinkProber", l>>)
           c == [s EXCEPT !.ps = l]
           base == IF s.psm = l THEN c ELSE s
           n == IF s.psm = l THEN TransitionFunction(c, s.ps) ELSE s
<1>1. lm.posted[<<"LinkProber", l>>] > 0 /\ Step(updateMuxLinkmgrState(n))
  BY DEF handleLinkProberStateChange, LinkProberChange, Run
<1>2. base \in LinkManager /\ Solid(base)
  BY <1>1, ReportTaken
<1>3. Kept(base, n)
  BY <1>2, KeptRefl, TransitionFunctionKept
<1> HIDE DEF base, n
<1>4. /\ Kept(base, updateMuxLinkmgrState(n))
      /\ Published(updateMuxLinkmgrState(n))
  BY <1>3, KeptTypes, updateMuxLinkmgrStateKept, updateMuxLinkmgrStatePublishes
<1> QED BY <1>1, <1>2, <1>4, StepKeeps

\* handleStateChange of the mux.
LEMMA MuxStateChangeSolid ==
  ASSUME IInv, NEW l \in Reported, handleMuxStateChange(l)
  PROVE  IInv'
<1> DEFINE s == Take(<<"MuxState", l>>)
           c == [s EXCEPT !.ms = l]
           base == IF s.mux.state = l THEN c ELSE s
           n == IF s.mux.state = l THEN TransitionFunction(c, s.ps) ELSE s
<1>1. lm.posted[<<"MuxState", l>>] > 0 /\ Step(updateMuxLinkmgrState(n))
  BY DEF handleMuxStateChange, MuxStateChange, Run
<1>2. base \in LinkManager /\ Solid(base)
  BY <1>1, ReportTaken
<1>3. Kept(base, n)
  BY <1>2, KeptRefl, TransitionFunctionKept
<1> HIDE DEF base, n
<1>4. /\ Kept(base, updateMuxLinkmgrState(n))
      /\ Published(updateMuxLinkmgrState(n))
  BY <1>3, KeptTypes, updateMuxLinkmgrStateKept, updateMuxLinkmgrStatePublishes
<1> QED BY <1>1, <1>2, <1>4, StepKeeps

\* handleStateChange of the link, up, down and unchanged.
LEMMA LinkStateChangeSolid ==
  ASSUME IInv, NEW l \in LinkLabels, handleLinkStateChange(l)
  PROVE  IInv'
<1> DEFINE s == Take(<<"LinkState", l>>)
           c == [s EXCEPT !.ls = l]
           base == IF s.link.state = l THEN c ELSE s
           x == CASE s.ls = "Down" /\ l = "Up" -> LinkCameUp(c)
                  [] s.ls = "Up" /\ l = "Down" /\ s.ms # "Standby" ->
                       switchMuxState(c, "Standby", FALSE)
                  [] OTHER -> TransitionFunction(c, s.ps)
           n == IF s.link.state = l THEN x ELSE s
<1>1. lm.posted[<<"LinkState", l>>] > 0 /\ Step(updateMuxLinkmgrState(n))
  BY DEF handleLinkStateChange, LinkStateChange, Run
<1>2. s \in LinkManager
      /\ IF s.link.state = l THEN c \in LinkManager /\ Solid(c) ELSE Solid(s)
  BY <1>1, ReportTaken
<1> HIDE DEF c, s
<1>3. ASSUME s.link.state = l PROVE Kept(c, x)
  <2>1. Kept(c, c)
    BY <1>2, <1>3, KeptRefl
  <2>2. Kept(c, initPeerLinkProberState(c)) /\ Kept(c, initLinkProberState(c))
    BY <2>1, initLinkProberStateKept
  <2>3. Kept(c, LinkCameUp(c))
    BY <2>2, initLinkProberStateKept, TransitionFunctionKept DEF LinkCameUp
  <2>4. Kept(c, switchMuxState(c, "Standby", FALSE))
    BY <2>1, switchMuxStateKept
  <2>5. Kept(c, TransitionFunction(c, s.ps))
    BY <2>1, TransitionFunctionKept
  <2> QED BY <2>3, <2>4, <2>5
<1> HIDE DEF x
<1>4. base \in LinkManager /\ Solid(base) /\ Kept(base, n)
  BY <1>2, <1>3, KeptRefl
<1> HIDE DEF base, n
<1>5. /\ Kept(base, updateMuxLinkmgrState(n))
      /\ Published(updateMuxLinkmgrState(n))
  BY <1>4, KeptTypes, updateMuxLinkmgrStateKept, updateMuxLinkmgrStatePublishes
<1> QED BY <1>1, <1>4, <1>5, StepKeeps

\* handlePeerStateChange: the label decides whether the peer is set to standby.
LEMMA PeerLinkProberChangeSolid ==
  ASSUME IInv, NEW l \in PeerDetected, handlePeerStateChange(l)
  PROVE  IInv'
<1> DEFINE s == Take(<<"PeerLinkProber", l>>)
           c == enterPeerLinkProberState(s, l)
           n == PeerLinkProberChange(s, l)
<1>1. lm.posted[<<"PeerLinkProber", l>>] > 0 /\ Step(n)
  BY DEF handlePeerStateChange, Run
<1>2. /\ s \in LinkManager /\ (s.init = Components => Published(s))
      /\ IF s.peerPsm = l THEN c \in LinkManager /\ Solid(c) /\ Shown(s, c)
                          ELSE Solid(s)
  BY <1>1, ReportTaken
<1> HIDE DEF s
<1>3. CASE s.peerPsm # l
  <2>1. n = s
    BY <1>3 DEF PeerLinkProberChange
  <2> HIDE DEF n
  <2> QED BY <1>1, <1>2, <1>3, <2>1, StepSolid
<1>4. CASE s.peerPsm = l
  <2>1. /\ c \in LinkManager /\ Solid(c) /\ Shown(s, c) /\ c.init = s.init
        /\ Kept(c, c)
    BY <1>2, <1>4, KeptRefl DEF enterPeerLinkProberState, LinkManager
  <2>2. \/ n = enterPeerMuxState(c, "Active")
        \/ n = switchPeerMuxState(c, "Standby")
        \/ n = c
    BY <1>4 DEF PeerLinkProberChange, PeerDetected, PeerLabels
  <2> HIDE DEF c
  <2>3. /\ Kept(c, enterPeerMuxState(c, "Active"))
        /\ Kept(c, switchPeerMuxState(c, "Standby"))
    BY <2>1, enterPeerMuxStateKept, switchPeerMuxStateKept DEF MuxLabels
  <2>4. Shown(c, enterPeerMuxState(c, "Active"))
    BY <2>1, <2>3, KeptTypes DEF Shown, enterPeerMuxState, LinkManager
  <2>5. Shown(c, switchPeerMuxState(c, "Standby")) /\ Shown(c, c)
    BY <2>1, switchPeerMuxStateShown, ShownRefl
  <2>6. Kept(c, n) /\ Shown(c, n)
    BY <2>1, <2>2, <2>3, <2>4, <2>5
  <2>7. c.init = Components => Published(c)
    BY <1>2, <2>1, ShownPublished
  <2> HIDE DEF n
  <2> QED BY <1>1, <2>1, <2>6, <2>7, StepShows
<1> QED BY <1>3, <1>4

\* The end of a wait, and a probe that was not answered.
LEMMA WaitsSolid ==
  ASSUME IInv
  PROVE  (WaitOver => IInv') /\ (handleMuxProbeTimeout => IInv')
<1>1. ASSUME NEW k \in {"WaitOver", "MuxProbeTimeout"}, lm.posted[<<k, "None">>] > 0
      PROVE  LET v == stopWaitMux(Take(<<k, "None">>))
             IN  /\ v \in LinkManager /\ Solid(v)
                 /\ v.init = Components => Published(v)
                 /\ Kept(v, v) /\ Shown(v, v)
  <2> DEFINE e == <<k, "None">>
             s == Take(e)
             v == stopWaitMux(s)
  <2>1. e \in Events /\ e[1] = k
    BY CompletionEvents
  <2>2. /\ s \in LinkManager /\ Coherent(s) /\ Directed(s)
        /\ s.init = Components => Resyncs(s) /\ Published(s)
        /\ s.init = Components /\ DefaultRouteFeature => Matches(s)
    BY <1>1, <2>1, TakenSolid
  <2> HIDE DEF s, e
  <2>3. Shown(s, v)
    BY <2>2, StrandShown
  <2>4. Kept(s, v) /\ ~v.waitMux
    <3>1. Kept(s, [s EXCEPT !.waitMux = FALSE])
      BY <2>2, KeptRefl, FieldKept
    <3>2. v = [s EXCEPT !.waitMux = FALSE]
      BY DEF stopWaitMux
    <3> QED BY <2>2, <3>1, <3>2 DEF LinkManager
  <2> HIDE DEF v
  <2>5. Coherent(v) /\ Covered(v)
    BY <2>2, <2>4, KeptCoherent DEF Covered
  <2>6. Solid(v)
    BY <2>2, <2>4, <2>5 DEF Solid, Kept
  <2> QED
    BY <2>2, <2>3, <2>4, <2>6, KeptTypes, ShownPublished, KeptRefl, ShownRefl
       DEF v, s, e
<1>2. WaitOver => IInv'
  BY <1>1, StepSolid DEF WaitOver, Run
<1>3. ASSUME handleMuxProbeTimeout PROVE IInv'
  <2> DEFINE v == stopWaitMux(Take(<<"MuxProbeTimeout", "None">>))
             p == startMuxProbeTimer(v)
  <2>1. lm.posted[<<"MuxProbeTimeout", "None">>] > 0 /\ (Step(p) \/ Step(v))
    BY <1>3 DEF handleMuxProbeTimeout, Run
  <2>2. /\ v \in LinkManager /\ Solid(v) /\ (v.init = Components => Published(v))
        /\ Kept(v, v) /\ Shown(v, v)
    BY <1>1, <2>1
  <2> HIDE DEF v
  <2>3. Kept(v, p) /\ Shown(v, p)
    BY <2>2, startMuxProbeTimerKept, ProbeShown
  <2> QED BY <2>1, <2>2, <2>3, StepShows
<1> QED BY <1>2, <1>3

\* The periodic probe starts its timer again.
LEMMA handleAdminForwardingStateSyncUpSolid ==
  ASSUME IInv, handleAdminForwardingStateSyncUp
  PROVE  IInv'
<1> DEFINE e == <<"AdminForwardingStateSyncUp", "None">>
           s == Take(e)
           p == ProbeUnlessWaiting(s)
           n == startAdminForwardingStateSyncUpTimer(p)
<1>1. e \in Events /\ lm.posted[e] > 0 /\ Step(n)
  BY CompletionEvents DEF handleAdminForwardingStateSyncUp, Run
<1>2. /\ s \in LinkManager /\ Coherent(s) /\ Covered(s) /\ Directed(s)
      /\ s.init = Components => Published(s)
      /\ s.init = Components /\ DefaultRouteFeature => Matches(s)
      /\ Kept(s, s) /\ Shown(s, s)
  BY <1>1, TakenSolid
<1> HIDE DEF s
<1>3. Kept(s, p) /\ Shown(s, p)
  BY <1>2, probeMuxStateKept, ProbeShown DEF ProbeUnlessWaiting
<1> HIDE DEF p
<1>4. Kept(s, n) /\ Shown(p, n) /\ Resyncs(n)
  <2>1. p \in LinkManager
    BY <1>3, KeptTypes
  <2>2. Shown(p, n)
    BY <2>1, StrandShown DEF startAdminForwardingStateSyncUpTimer, Timers
  <2>3. Resyncs(n)
    BY <2>1 DEF startAdminForwardingStateSyncUpTimer, Arm, Resyncs, LinkManager
  <2> QED BY <1>3, <2>2, <2>3, OtherTimersKept
<1> HIDE DEF n
<1>5. /\ s.init = Components => Published(n)
      /\ s.init = Components /\ DefaultRouteFeature => Matches(n)
  BY <1>2, <1>3, <1>4, ShownTrans, ShownPublished DEF Kept
<1> QED BY <1>1, <1>2, <1>4, <1>5, StepEstablishes

\* The peer that was to become standby, and the end of a suspension.
LEMMA OtherCompletionsSolid ==
  ASSUME IInv
  PROVE  (handlePeerMuxWaitTimeout => IInv') /\ (handleSuspendTimerExpiry => IInv')
<1>1. ASSUME NEW k \in {"PeerMuxWaitTimeout", "SuspendTimerExpiry"},
             lm.posted[<<k, "None">>] > 0
      PROVE  LET s == Take(<<k, "None">>)
             IN  /\ s \in LinkManager /\ Solid(s) /\ Kept(s, s) /\ Shown(s, s)
                 /\ s.init = Components => Published(s)
  <2>1. <<k, "None">> \in Events /\ <<k, "None">>[1] = k
    BY CompletionEvents
  <2> QED BY <1>1, <2>1, TakenSolid DEF Solid
<1>2. ASSUME handlePeerMuxWaitTimeout PROVE IInv'
  <2> DEFINE s == Take(<<"PeerMuxWaitTimeout", "None">>)
             n == Send(s, "PeerProbeCommand")
  <2>1. lm.posted[<<"PeerMuxWaitTimeout", "None">>] > 0 /\ (Step(n) \/ Step(s))
    BY <1>2 DEF handlePeerMuxWaitTimeout, Run
  <2>2. /\ s \in LinkManager /\ Solid(s) /\ Kept(s, s) /\ Shown(s, s)
        /\ s.init = Components => Published(s)
    BY <1>1, <2>1
  <2> HIDE DEF s
  <2>3. Kept(s, n) /\ Shown(s, n)
    BY <2>2, SendKept, StrandShown DEF Outputs
  <2> QED BY <2>1, <2>2, <2>3, StepShows
<1>3. ASSUME handleSuspendTimerExpiry PROVE IInv'
  <2> DEFINE s == Take(<<"SuspendTimerExpiry", "None">>)
             n == resumeTxProbes(s)
  <2>1. lm.posted[<<"SuspendTimerExpiry", "None">>] > 0 /\ Step(n)
    BY <1>3 DEF handleSuspendTimerExpiry, Run
  <2>2. /\ s \in LinkManager /\ Solid(s) /\ Kept(s, s) /\ Shown(s, s)
        /\ s.init = Components => Published(s)
    BY <1>1, <2>1
  <2> HIDE DEF s
  <2>3. Kept(s, n) /\ Shown(s, n)
    BY <2>2, OtherTimersKept, StrandShown DEF resumeTxProbes, Timers
  <2> QED BY <2>1, <2>2, <2>3, StepShows
<1> QED BY <1>2, <1>3

-----------------------------------------------------------------------------
(* The invariant, and what follows from it. *)

\* The invariant holds of a port that has just been created.
LEMMA InitSolid == Init => IInv
<1> SUFFICES ASSUME Init PROVE IInv
  OBVIOUS
<1>1. /\ [e \in Events |-> 0] \in [Events -> Nat]
      /\ [m \in Modes |-> 0] \in [Modes -> Nat]
  OBVIOUS
<1>2. /\ [state |-> "Wait", count |-> NoneOf(MuxEvents)] \in MuxMachines
      /\ [state |-> "Down", count |-> NoneOf(LinkEvents)] \in LinkMachines
  BY RetryCountAssumption
     DEF MuxMachines, LinkMachines, Machine, NoneOf, LinkEvents
<1>3. lm \in LinkManager
  BY <1>1, <1>2 DEF Init, LinkManager, ProberLabels, MuxLabels, LinkLabels,
     PeerLabels, Reported, Notified, Components, Modes, Routes, Timers, Outputs
<1>4. Solid(lm)
  BY DEF Init, Solid, Coherent, Covered, Directed, Components
<1>5. lm.init # Components
  BY DEF Init, Components
<1> QED BY <1>3, <1>4, <1>5 DEF IInv

\* Every step preserves the invariant: one case per action.
LEMMA NextSolid == IInv /\ [Next]_lm => IInv'
<1> SUFFICES ASSUME IInv, [Next]_lm PROVE IInv'
  OBVIOUS
<1>1. CASE Notification
  <2>1. CASE handleSwssSoCIpv4AddressUpdate
    BY <2>1, handleSwssSoCIpv4AddressUpdateSolid
  <2>2. CASE \E l \in SwssReports : handleMuxStateNotification(l)
    BY <2>2, handleMuxStateNotificationSolid
  <2>3. CASE \E l \in ProbeReports : handleProbeMuxStateNotification(l)
    BY <2>3, handleProbeMuxStateNotificationSolid
  <2>4. CASE \/ handleProbeMuxFailure \/ handleMuxProbeRequestEvent
             \/ \E l \in PeerReports : handlePeerMuxStateNotification(l)
    BY <2>4, OtherNotificationsSolid
  <2>5. CASE \E l \in LinkReports : handleSwssLinkStateNotification(l)
    BY <2>5, handleSwssLinkStateNotificationSolid
  <2>6. CASE \E mode \in ConfigModes : handleMuxConfig(mode)
    BY <2>6, ConfigurationSolid
  <2>7. CASE \E r \in RouteReports : handleDefaultRouteStateNotification(r)
    BY <2>7, handleDefaultRouteStateNotificationSolid
  <2>8. CASE \/ \E l \in Heartbeats : ProberDetects(l)
             \/ \E l \in PeerHeartbeats : PeerProberDetects(l)
    BY <2>8, DetectsSolid
  <2>9. CASE \E t \in Timers : TimerExpires(t)
    BY <2>9, TimerExpiresSolid
  <2> QED BY <1>1, <2>1, <2>2, <2>3, <2>4, <2>5, <2>6, <2>7, <2>8, <2>9
          DEF Notification
<1>2. CASE Delivery
  <2>1. CASE \E l \in Reported : MuxStateEvent(l)
    BY <2>1, MuxStateEventSolid
  <2>2. CASE \E l \in LinkLabels : LinkStateEvent(l)
    BY <2>2, LinkStateEventSolid
  <2>3. CASE \E l \in Detected : handleLinkProberStateChange(l)
    BY <2>3, LinkProberChangeSolid
  <2>4. CASE \E l \in Reported : handleMuxStateChange(l)
    BY <2>4, MuxStateChangeSolid
  <2>5. CASE \E l \in LinkLabels : handleLinkStateChange(l)
    BY <2>5, LinkStateChangeSolid
  <2>6. CASE \E l \in PeerDetected : handlePeerStateChange(l)
    BY <2>6, PeerLinkProberChangeSolid
  <2>7. CASE \E mode \in Modes : RegisteredMuxConfig(mode)
    BY <2>7, ConfigurationSolid
  <2>8. CASE WaitOver \/ handleMuxProbeTimeout
    BY <2>8, WaitsSolid
  <2>9. CASE handleAdminForwardingStateSyncUp
    BY <2>9, handleAdminForwardingStateSyncUpSolid
  <2>10. CASE handlePeerMuxWaitTimeout \/ handleSuspendTimerExpiry
    BY <2>10, OtherCompletionsSolid
  <2> QED BY <1>2, <2>1, <2>2, <2>3, <2>4, <2>5, <2>6, <2>7, <2>8, <2>9, <2>10
          DEF Delivery
<1>3. CASE UNCHANGED lm
  BY <1>3 DEF IInv
<1> QED BY <1>1, <1>2, <1>3 DEF Next

(***************************************************************************)
(* The members of the object, the event counters of its sub state machines *)
(* included, stay within the values the code gives them.                   *)
(***************************************************************************)
THEOREM TypeCorrect == Spec => []TypeOK
<1>1. IInv => TypeOK
  BY DEF IInv, TypeOK
<1> QED BY <1>1, InitSolid, NextSolid, PTL DEF Spec

(***************************************************************************)
(* The composite state, and the peer's prober state, lag behind a sub      *)
(* state machine only while the report that makes up the difference waits  *)
(* on the strand, however many handlers wait there and in any order.       *)
(***************************************************************************)
THEOREM Coherence == Spec => []CompositeCoherent
<1>1. IInv => CompositeCoherent
  BY DEF IInv, Solid, Coherent, CompositeCoherent, Waiting
<1> QED BY <1>1, InitSolid, NextSolid, PTL DEF Spec

(***************************************************************************)
(* A port that believes it waits for the mux stops believing it, and an    *)
(* activated port never stops probing the mux periodically.                *)
(***************************************************************************)
THEOREM WaitsEnd == Spec => []WaitEnds
<1>1. IInv => WaitEnds
  BY DEF IInv, Solid, Covered, Resyncs, WaitEnds, Waiting, Initialized
<1> QED BY <1>1, InitSolid, NextSolid, PTL DEF Spec

(***************************************************************************)
(* Whatever handler ran last, the label in STATE_DB is true of heartbeats, *)
(* link and route.                                                         *)
(***************************************************************************)
THEOREM LabelIsAccurate == Spec => []LabelAccurate
<1>1. IInv => LabelAccurate
  BY DEF IInv, Published, LabelAccurate, Initialized
<1> QED BY <1>1, InitSolid, NextSolid, PTL DEF Spec

(***************************************************************************)
(* Heartbeats are shut down exactly while a port whose mode needs a        *)
(* default route has none.                                                 *)
(***************************************************************************)
THEOREM ShutdownFollowsRoute == Spec => []ShutdownMatchesRoute
<1>1. IInv => ShutdownMatchesRoute
  BY DEF IInv, Solid, Matches, ShutdownMatchesRoute, Initialized
<1> QED BY <1>1, InitSolid, NextSolid, PTL DEF Spec

(***************************************************************************)
(* A port the operator fixed, or took over by hand, is not moved, and its  *)
(* peer is not moved on its behalf.                                        *)
(***************************************************************************)
THEOREM DirectionHeld == Spec => []OperatorHoldsDirection
<1>1. IInv => OperatorHoldsDirection
  BY DEF IInv, Solid, Directed, OperatorHoldsDirection
<1> QED BY <1>1, InitSolid, NextSolid, PTL DEF Spec

=============================================================================
