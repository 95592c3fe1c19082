---------------------------- MODULE LinkProberHw ----------------------------
(***************************************************************************)
(* The link prober of an active-active port that leaves heartbeats to the  *)
(* hardware, and the state machine that keeps its verdicts on the server   *)
(* and on the peer: src/src/link_prober/LinkProberHw.cpp, the classes of   *)
(* the states and LinkProberStateMachineActiveActive.cpp.                  *)
(*                                                                         *)
(* The prober creates a session by writing ICMP_ECHO_SESSION_TABLE of      *)
(* APP_DB and learns from that table of STATE_DB whether heartbeats come   *)
(* back.  Its own session sends and receives; the session of a peer that   *)
(* uses the hardware too only receives.  A peer that probes in software is *)
(* followed by the packets that reach the socket and by a deadline timer.  *)
(*                                                                         *)
(* The prober's strand runs completions of timers and receives packets,    *)
(* the port's strand runs the state machine and calls the prober directly. *)
(* What is posted from one to the other waits in collections that nothing  *)
(* orders.  A method is an operator from record to record.                 *)
(*                                                                         *)
(* Orchagent is external: it carries out what is written at once, gives a  *)
(* new session the state Down and deletes the state with the session.      *)
(***************************************************************************)
EXTENDS Naturals, FiniteSets

CONSTANTS
  PositiveRetry,  \* MuxConfig::mPositiveStateChangeRetryCount
  NegativeRetry,  \* MuxConfig::mNegativeStateChangeRetryCount
  Guids,          \* what a peer may call itself
  PeerKinds,      \* how a peer may probe
  FirstWorlds,    \* worlds the prober may start in
  EarlyCommands,  \* whether a command may come before the hardware saw the peer
  Requests,       \* what the link manager may ask for
  MaxPosted,      \* bound: events of one kind waiting on the port's strand
  MaxDone,        \* bound: completions of one kind on the prober's strand
  MaxChanges      \* bound: requests and changes of the world in one run

CONSTANT NoGuid   \* no peer has been heard

NORMAL == "NORMAL"
RX     == "RX"
SessionTypes == {NORMAL, RX}

\* Whether server and peer answer, what the peer calls itself and how it probes.
World == [server : BOOLEAN, alive : BOOLEAN, guid : Guids, kind : PeerKinds]

ASSUME LinkProberHwAssumption ==
  /\ PositiveRetry \in Nat \ {0}
  /\ NegativeRetry \in Nat \ {0}
  /\ NoGuid \notin Guids
  /\ NORMAL \notin Guids
  /\ PeerKinds \subseteq {"Hardware", "Software"}
  /\ FirstWorlds \subseteq World
  /\ EarlyCommands \in BOOLEAN
  /\ Requests \subseteq {"suspend", "resume", "shutdown", "restart", "frame"}
  /\ MaxPosted \in Nat
  /\ MaxDone \in Nat
  /\ MaxChanges \in Nat

\* Entries of ICMP_ECHO_SESSION_TABLE: the own session, and one per peer.
Keys == {NORMAL} \cup Guids
SessionType(k) == IF k = NORMAL THEN NORMAL ELSE RX

States     == {"Active", "Unknown", "Wait"}
PeerStates == {"PeerActive", "PeerUnknown", "PeerWait"}
SelfEvents == {"HwSelf", "HwUnknown"}
PeerEvents == {"PeerActive", "PeerUnknown", "HwPeerActive", "HwPeerUnknown"}
Events     == SelfEvents \cup PeerEvents \cup {"SuspendTimerExpired"}
Timers     == {"suspend", "deadline", NORMAL, RX}
Completions == {"suspended", "aborted", "deadline", NORMAL, RX}

VARIABLES
  lp,       \* the prober, its state machine and its table entries
  world,    \* whether server and peer answer, and who the peer is
  changes   \* requests and changes of the world so far

vars == <<lp, world, changes>>

(***************************************************************************)
(* The members of lp:                                                      *)
(*   suspendTx, cancelSuspend, shutdownTx   as in the code                 *)
(*   peerType, peerGuid        mPeerType and mPeerGuid                     *)
(*   armed     timers with a wait outstanding; the positive probing timers *)
(*             go by their session types                                   *)
(*   done      completions on the prober's strand; those of the positive   *)
(*             probing timers and of the deadline timer do not tell an     *)
(*             expiry from a cancellation                                  *)
(*   session   what the hardware makes of each session, "None" without one *)
(*   notice    states in STATE_DB that nobody has read yet                 *)
(*   state, peerState   current states of the state machine                *)
(*   count     counters of the current peer state                          *)
(*   posted    events on the port's strand                                 *)
(***************************************************************************)
LinkProber ==
  [suspendTx : BOOLEAN, cancelSuspend : BOOLEAN, shutdownTx : BOOLEAN,
   peerType : {"UNKNOWN", "SOFTWARE", "HARDWARE"}, peerGuid : Guids \cup {NoGuid},
   armed : SUBSET Timers,
   done : [Completions -> Nat],
   session : [Keys -> {"None", "Down", "Up"}],
   notice : [Keys -> {"None", "Down", "Up"}],
   state : States, peerState : PeerStates,
   count : [{"PeerActive", "PeerUnknown"} -> Nat],
   posted : [Events -> Nat]]

-----------------------------------------------------------------------------
(* Building blocks. *)

\* postLinkProberStateEvent
Post(s, e) == [s EXCEPT !.posted[e] = @ + 1]
Arm(s, t) == [s EXCEPT !.armed = @ \cup {t}]
Disarm(s, t) == [s EXCEPT !.armed = @ \ {t}]
Complete(s, c) == [s EXCEPT !.done[c] = @ + 1]

Aborted(t) == IF t = "suspend" THEN "aborted" ELSE t

\* Cancelling or restarting a timer that is armed aborts its wait.
Cancel(s, t) ==
  IF t \in s.armed THEN Complete(Disarm(s, t), Aborted(t)) ELSE s

createIcmpEchoSession(s, k) ==
  IF s.session[k] = "None"
  THEN [s EXCEPT !.session[k] = "Down", !.notice[k] = "Down"]
  ELSE s

deleteIcmpEchoSession(s, k) ==
  [s EXCEPT !.session[k] = "None", !.notice[k] = "None"]

\* Mutant: a port without a route probes as well.
startProbing_Always(s) ==
  IF ~s.suspendTx THEN createIcmpEchoSession(s, NORMAL) ELSE s

startProbing(s) ==
  IF ~s.suspendTx /\ ~s.shutdownTx THEN createIcmpEchoSession(s, NORMAL) ELSE s

suspendTxProbes(s) ==
  LET t == [deleteIcmpEchoSession(s, NORMAL)
              EXCEPT !.suspendTx = TRUE, !.cancelSuspend = FALSE]
  IN  Arm(Cancel(t, "suspend"), "suspend")

\* Mutant: the aborted wait does not learn that it was called off.
resumeTxProbes_NotCalledOff(s) == startProbing(Cancel(s, "suspend"))

resumeTxProbes(s) ==
  startProbing([Cancel(s, "suspend") EXCEPT !.cancelSuspend = TRUE])

shutdownTxProbes(s) ==
  [deleteIcmpEchoSession(s, NORMAL) EXCEPT !.shutdownTx = TRUE]

restartTxProbes(s) ==
  startProbing([deleteIcmpEchoSession(s, NORMAL) EXCEPT !.shutdownTx = FALSE])

\* The session is renewed with the new addresses, whatever the flags say.
updateEthernetFrame(s) ==
  createIcmpEchoSession(deleteIcmpEchoSession(s, NORMAL), NORMAL)

startPositiveProbingTimer(s, type) == Arm(Cancel(s, type), type)

startTimer(s) == Arm(Cancel(s, "deadline"), "deadline")

-----------------------------------------------------------------------------
(* Notices of STATE_DB.  The prober looks only at the type of the session. *)

SessionUp(s, type) == startPositiveProbingTimer(s, type)

SessionDown(s, type) ==
  Post(Cancel(s, type), IF type = NORMAL THEN "HwUnknown" ELSE "HwPeerUnknown")

StateDbStateUpdate(s, l, type) ==
  CASE s.suspendTx \/ s.shutdownTx -> s
    [] l = "Up"   -> SessionUp(s, type)
    [] l = "Down" -> SessionDown(s, type)

-----------------------------------------------------------------------------
(* Packets of the peer.  The prober's own come back as well: ignored. *)

ForgetPeer(s, e) ==
  Post(Cancel(deleteIcmpEchoSession(s, s.peerGuid), RX), e)

\* Mutant: the session of the peer before is left behind.
HardwarePacket_KeepsOld(s, guid) ==
  createIcmpEchoSession(
    [s EXCEPT !.peerType = "HARDWARE", !.peerGuid = guid], guid)

HardwarePacket(s, guid) ==
  LET t == IF s.peerType = "HARDWARE" /\ s.peerGuid # NoGuid /\ s.peerGuid # guid
           THEN ForgetPeer(s, "PeerUnknown") ELSE s
  IN  createIcmpEchoSession(
        [t EXCEPT !.peerType = "HARDWARE", !.peerGuid = guid], guid)

NewSoftwarePeer(s, guid) ==
  startTimer(Post(Cancel(Cancel([s EXCEPT !.peerGuid = guid], RX), "deadline"),
                  "PeerUnknown"))

\* A packet with the software cookie: a heartbeat, or a command of a peer that
\* may use the hardware.  What commands ask for is not followed here.
SoftwarePacket(s, guid, command) ==
  LET t == IF ~command /\ s.peerType = "HARDWARE"
           THEN [ForgetPeer(s, "HwPeerUnknown") EXCEPT !.peerType = "SOFTWARE"]
           ELSE s
  IN  IF s.peerGuid # guid THEN NewSoftwarePeer(t, guid)
                           ELSE Post(t, "PeerActive")

-----------------------------------------------------------------------------
(***************************************************************************)
(* The state machine.  Verdicts of the hardware take effect at once, as    *)
(* the hardware has counted already; events of a peer in software are      *)
(* counted, and an event of the other kind starts the count anew.          *)
(***************************************************************************)

OwnVerdict == [HwSelf |-> "Active", HwUnknown |-> "Unknown"]

\* Mutant: no own heartbeat means that the peer forwards, as on an
\* active-standby port.
SelfEvent_Standby(s, e) ==
  [s EXCEPT !.state = IF e = "HwSelf" THEN "Active" ELSE "Standby"]

SelfEvent(s, e) == [s EXCEPT !.state = OwnVerdict[e]]

EnterPeer(s, l) ==
  IF s.peerState = l THEN s
  ELSE [s EXCEPT !.peerState = l, !.count = [e \in DOMAIN s.count |-> 0]]

Verdict == [HwPeerActive |-> "PeerActive", HwPeerUnknown |-> "PeerUnknown"]

\* An event that confirms the state it finds clears the counters of that state.
HwPeerEvent(s, e) ==
  IF s.peerState = Verdict[e]
  THEN [s EXCEPT !.count = [c \in DOMAIN s.count |-> 0]]
  ELSE EnterPeer(s, Verdict[e])

Retry(e) == IF e = "PeerActive" THEN PositiveRetry ELSE NegativeRetry

PeerEvent(s, e) ==
  LET n == [c \in DOMAIN s.count |-> IF c = e THEN s.count[c] + 1 ELSE 0]
  IN  CASE s.peerState = e -> [s EXCEPT !.count = [c \in DOMAIN s.count |-> 0]]
        [] s.peerState # e /\ n[e] >= Retry(e) -> EnterPeer(s, e)
        [] OTHER -> [s EXCEPT !.count = n]

-----------------------------------------------------------------------------
(* Actions. *)

Bounded(s) ==
  /\ \A e \in Events : s.posted[e] <= MaxPosted
  /\ \A c \in Completions : s.done[c] <= MaxDone

Step(s) == lp' = s /\ Bounded(lp')

\* The prober after initialize, before the first packet and the first notice.
Init ==
  /\ lp = [suspendTx |-> FALSE, cancelSuspend |-> FALSE, shutdownTx |-> FALSE,
           peerType |-> "UNKNOWN", peerGuid |-> NoGuid, armed |-> {},
           done |-> [c \in Completions |-> 0],
           session |-> [k \in Keys |-> IF k = NORMAL THEN "Down" ELSE "None"],
           notice |-> [k \in Keys |-> IF k = NORMAL THEN "Down" ELSE "None"],
           state |-> "Wait", peerState |-> "PeerWait",
           count |-> [e \in {"PeerActive", "PeerUnknown"} |-> 0],
           posted |-> [e \in Events |-> 0]]
  /\ world \in FirstWorlds
  /\ changes = 0

Change == changes < MaxChanges /\ changes' = changes + 1

\* The link manager suspends, resumes, shuts down or restarts heartbeats, or an
\* address in them changes.
Request(r) ==
  /\ r \in Requests
  /\ Change
  /\ Step(CASE r = "suspend"  -> suspendTxProbes(lp)
            [] r = "resume"   -> resumeTxProbes(lp)
            [] r = "shutdown" -> shutdownTxProbes(lp)
            [] r = "restart"  -> restartTxProbes(lp)
            [] r = "frame"    -> updateEthernetFrame(lp))
  /\ UNCHANGED world

\* A notice that is read while heartbeats are forbidden is dropped.
handleStateDbStateUpdate(k) ==
  /\ lp.notice[k] # "None"
  /\ Step(StateDbStateUpdate([lp EXCEPT !.notice[k] = "None"], lp.notice[k],
                             SessionType(k)))
  /\ UNCHANGED <<world, changes>>

Taken(e) == [lp EXCEPT !.posted[e] = @ - 1]
Handle(e, s) == lp.posted[e] > 0 /\ Step(s) /\ UNCHANGED <<world, changes>>

\* processEvent, on the port's strand.  The expiry of a suspension goes through
\* the link manager, whose handleSuspendTimerExpiry resumes heartbeats.
processEvent(e) ==
  Handle(e, CASE e \in SelfEvents -> SelfEvent(Taken(e), e)
              [] e \in DOMAIN Verdict -> HwPeerEvent(Taken(e), e)
              [] e \in {"PeerActive", "PeerUnknown"} -> PeerEvent(Taken(e), e)
              [] e = "SuspendTimerExpired" -> resumeTxProbes(Taken(e)))

Completed(c) == [lp EXCEPT !.done[c] = @ - 1]
Run(c, s) == lp.done[c] > 0 /\ Step(s) /\ UNCHANGED <<world, changes>>

\* However the wait ended.
handlePositiveProbingTimeout(type) ==
  Run(type, Post(Completed(type), IF type = NORMAL THEN "HwSelf" ELSE "HwPeerActive"))

handleSuspendTimeout(c) ==
  LET s == [Completed(c) EXCEPT !.suspendTx = FALSE, !.cancelSuspend = FALSE]
  IN  Run(c, IF c = "suspended" \/ lp.cancelSuspend
             THEN Post(s, "SuspendTimerExpired") ELSE s)

\* Mutant: it is left to the next packet to start the timer again.
handleTimeout_Once ==
  LET s == Completed("deadline")
  IN  Run("deadline", IF s.peerType = "SOFTWARE" THEN Post(s, "PeerUnknown") ELSE s)

\* However the wait ended.
handleTimeout ==
  LET s == Completed("deadline")
  IN  Run("deadline",
          startTimer(IF s.peerType = "SOFTWARE" THEN Post(s, "PeerUnknown") ELSE s))

TimerExpires(t) ==
  /\ t \in lp.armed
  /\ Step(Complete(Disarm(lp, t), IF t = "suspend" THEN "suspended" ELSE t))
  /\ UNCHANGED <<world, changes>>

PeerSpeaks(s) == world.server /\ world.alive /\ Step(s) /\ UNCHANGED <<world, changes>>

HardwareHeartbeat ==
  /\ world.kind = "Hardware"
  /\ PeerSpeaks(HardwarePacket(lp, world.guid))

SoftwareHeartbeat ==
  /\ world.kind = "Software"
  /\ PeerSpeaks(SoftwarePacket(lp, world.guid, FALSE))

\* A peer that uses the hardware sends commands from its socket.
PeerCommand ==
  /\ world.kind = "Hardware"
  /\ lp.session[world.guid] # "Up" => EarlyCommands
  /\ PeerSpeaks(SoftwarePacket(lp, world.guid, TRUE))

Answered(k) ==
  world.server /\ (k # NORMAL => world.alive /\ world.kind = "Hardware"
                                   /\ k = world.guid)

\* The hardware sees enough heartbeats of a session, or none.
Detects(k) ==
  LET l == IF Answered(k) THEN "Up" ELSE "Down"
  IN  /\ lp.session[k] \notin {"None", l}
      /\ Step([lp EXCEPT !.session[k] = l, !.notice[k] = l])
      /\ UNCHANGED <<world, changes>>

WorldChanges(w) == Change /\ world' = w /\ UNCHANGED lp

ServerChanges == WorldChanges([world EXCEPT !.server = ~@])
PeerChanges   == WorldChanges([world EXCEPT !.alive = ~@])

\* The peer's linkmgrd starts again, under another name or with the other kind of
\* prober.  A name is made of addresses: it stays unless one of them is changed.
PeerRestarts(g, k) ==
  /\ g # world.guid \/ k # world.kind
  /\ WorldChanges([world EXCEPT !.guid = g, !.kind = k])

Next ==
  \/ \E r \in Requests : Request(r)
  \/ \E k \in Keys : handleStateDbStateUpdate(k)
  \/ \E e \in Events : processEvent(e)
  \/ \E type \in SessionTypes : handlePositiveProbingTimeout(type)
  \/ \E c \in {"suspended", "aborted"} : handleSuspendTimeout(c)
  \/ handleTimeout
  \/ \E t \in Timers : TimerExpires(t)
  \/ HardwareHeartbeat
  \/ SoftwareHeartbeat
  \/ PeerCommand
  \/ \E k \in Keys : Detects(k)
  \/ ServerChanges
  \/ PeerChanges
  \/ \E g \in Guids, k \in PeerKinds : PeerRestarts(g, k)

Spec == Init /\ [][Next]_vars

\* Strands run what is posted, timers expire, heartbeats and notices go on.
Fairness ==
  /\ \A k \in Keys : WF_vars(handleStateDbStateUpdate(k)) /\ WF_vars(Detects(k))
  /\ \A e \in Events : WF_vars(processEvent(e))
  /\ \A type \in SessionTypes : WF_vars(handlePositiveProbingTimeout(type))
  /\ \A c \in {"suspended", "aborted"} : WF_vars(handleSuspendTimeout(c))
  /\ WF_vars(handleTimeout)
  /\ \A t \in Timers : WF_vars(TimerExpires(t))
  /\ WF_vars(HardwareHeartbeat)
  /\ WF_vars(SoftwareHeartbeat)

FairSpec == Spec /\ Fairness

-----------------------------------------------------------------------------
(* Properties. *)

TypeOK ==
  /\ lp \in LinkProber
  /\ world \in World
  /\ changes \in 0 .. MaxChanges

Silent == lp.suspendTx \/ lp.shutdownTx
SendsInSilence == Silent /\ lp.session[NORMAL] # "None"

(***************************************************************************)
(* A session that sends while the port is shut down or suspended comes     *)
(* from one place only: updateEthernetFrame, which renews the session for  *)
(* a new address and looks at neither flag.  Suspensions end and start,    *)
(* heartbeats are restarted and resumed in any order, and a suspension     *)
(* ends in three steps on two strands; none of them starts heartbeats      *)
(* that are forbidden, nor forbids them and leaves a session that sends.   *)
(***************************************************************************)
OnlyNewAddressBreaksSilence ==
  [][~SendsInSilence /\ SendsInSilence' => Request("frame")]_vars

(***************************************************************************)
(* The sessions that receive are the one of the peer as it is known now:   *)
(* a session left behind would report a peer that no longer exists, and    *)
(* the prober could not tell, as it looks only at the type of the session. *)
(***************************************************************************)
PeerSessionMatches ==
  \A g \in Guids :
    lp.session[g] # "None" <=> lp.peerType = "HARDWARE" /\ lp.peerGuid = g

\* What is still on its way to the state machine and calls a session up, or down.
LifeUnderWay(type) ==
  \/ type \in lp.armed
  \/ lp.done[type] > 0
  \/ \E e \in IF type = NORMAL THEN {"HwSelf"} ELSE {"HwPeerActive", "PeerActive"} :
       lp.posted[e] > 0
FallUnderWay(type) ==
  \E e \in IF type = NORMAL THEN {"HwUnknown"} ELSE {"HwPeerUnknown", "PeerUnknown"} :
    lp.posted[e] > 0

\* No notice meets what one that said the opposite has left under way.
NoticesApart(type) ==
  \A k \in {l \in Keys : SessionType(l) = type} :
    /\ lp.notice[k] = "Down" => ~LifeUnderWay(type)
    /\ lp.notice[k] = "Up"   => ~FallUnderWay(type)

(***************************************************************************)
(* The verdict on the server is right in the end, whatever was suspended   *)
(* and resumed in between.  What breaks it is said in the premises: a      *)
(* notice of Down that meets the sign of life it should cancel (see        *)
(* CancelledTimerIsSilent), and a session renewed while heartbeats are     *)
(* forbidden, whose notices are dropped and do not come again.             *)
(***************************************************************************)
VerdictFollowsServer ==
  [](NoticesApart(NORMAL) /\ ~SendsInSilence) =>
    /\ <>[](~lp.shutdownTx /\ world.server) => <>[](lp.state = "Active")
    /\ <>[](~lp.shutdownTx /\ ~world.server) => <>[](lp.state = "Unknown")

(***************************************************************************)
(* A positive probing timer that the fall of its session has cancelled     *)
(* does not bring the state machine to Active: once Down has been read, no *)
(* sign of life is posted while the session stays down.  The comment on    *)
(* handlePositiveProbingTimeout says that it acts when the timer expires.  *)
(***************************************************************************)
CancelledTimerIsSilent ==
  [][lp.session[NORMAL] = "Down" /\ lp.notice[NORMAL] = "None"
       => lp'.posted["HwSelf"] <= lp.posted["HwSelf"]]_vars

PeerAnswers == world.server /\ world.alive

\* The deadline timer is started for a peer whose name is new, and counts for one that
\* has been in hardware: a peer in software is such a one.
DeadlineStarts ==
  world.kind = "Software" =>
    \/ lp.peerType = "SOFTWARE"
    \/ lp.peerType = "HARDWARE" /\ lp.peerGuid # world.guid

\* No notice about a peer is read, and so dropped, while heartbeats are forbidden.
PeerNoticesRead == Silent => \A g \in Guids : lp.notice[g] = "None"

(***************************************************************************)
(* A peer that falls silent is noticed, in hardware, in software and       *)
(* across restarts and changes between both.  The premises say what breaks *)
(* it: a peer in software that keeps the name it had in hardware, or was   *)
(* never heard in hardware, has no deadline (LinkProberHw.cpp:548 and      *)
(* :107), a fall during a suspension is dropped (:234), and a fall may     *)
(* meet the sign of life it should cancel (:195).                          *)
(***************************************************************************)
SilentPeerIsNoticed ==
  [](NoticesApart(RX) /\ PeerNoticesRead /\ DeadlineStarts) =>
    (<>[](~lp.shutdownTx /\ ~PeerAnswers) => <>[](lp.peerState # "PeerActive"))
=============================================================================
