-------------------------- MODULE LinkProberHw_proofs --------------------------
(***************************************************************************)
(* Proofs about the link prober that leaves heartbeats to the hardware,    *)
(* for every set of peer names, every retry count and any number of events *)
(* and completions on the two strands.                                     *)
(*                                                                         *)
(* Kept(s, t) says that t is an object of the program and that what held   *)
(* of the sessions in s holds in t.  Every method of the code keeps, but   *)
(* for two: updateEthernetFrame, which creates the own session whatever    *)
(* the flags say, and a command of another peer while the sessions are     *)
(* those of the hardware.  The theorem about the own session names the     *)
(* first as the only exception; the one about the peer's assumes that a    *)
(* command does not come before the hardware has seen its peer.            *)
(***************************************************************************)
EXTENDS LinkProberHw, TLAPS

\* ~SendsInSilence of any object.
Quiet(s) == s.suspendTx \/ s.shutdownTx => s.session[NORMAL] = "None"

\* PeerSessionMatches of any object.
OnePeer(s) ==
  \A g \in Guids :
    s.session[g] # "None" <=> s.peerType = "HARDWARE" /\ s.peerGuid = g

Kept(s, t) ==
  /\ s \in LinkProber /\ t \in LinkProber
  /\ Quiet(s) => Quiet(t)
  /\ OnePeer(s) => OnePeer(t)

\* The inductive invariant.
IInv ==
  /\ TypeOK
  /\ ~EarlyCommands => OnePeer(lp)

\* A step of which the silence is not broken.
StaysQuiet == Quiet(lp) => Quiet(lp')

-----------------------------------------------------------------------------
(* The relation. *)

LEMMA KeptTypes ==
  ASSUME NEW s, NEW t, Kept(s, t)
  PROVE  s \in LinkProber /\ t \in LinkProber
BY DEF Kept

\* A method that changes nothing keeps.
LEMMA KeptRefl == ASSUME NEW s \in LinkProber PROVE Kept(s, s)
BY DEF Kept

\* Kept composes, as the methods of the code do when one calls another.
LEMMA KeptTrans ==
  ASSUME NEW s, NEW t, NEW u, Kept(s, t), Kept(t, u)
  PROVE  Kept(s, u)
BY DEF Kept

\* What does not touch the flags, the sessions or the peer keeps.
LEMMA SameKept ==
  ASSUME NEW s, NEW t, Kept(s, t), NEW u \in LinkProber,
         u.suspendTx = t.suspendTx, u.shutdownTx = t.shutdownTx,
         u.session = t.session, u.peerType = t.peerType, u.peerGuid = t.peerGuid
  PROVE  Kept(s, u)
<1>1. Kept(t, u)
  BY KeptTypes DEF Kept, Quiet, OnePeer
<1> QED BY <1>1, KeptTrans

-----------------------------------------------------------------------------
(* The building blocks keep. *)

\* Posted events and completions, and timers that start and stop, keep.
LEMMA StrandKept ==
  ASSUME NEW s, NEW t, Kept(s, t)
  PROVE  /\ \A e \in Events : Kept(s, Post(t, e))
         /\ \A c \in Completions : Kept(s, Complete(t, c))
         /\ \A r \in Timers : Kept(s, Arm(t, r)) /\ Kept(s, Disarm(t, r))
<1>1. t \in LinkProber
  BY KeptTypes
<1>2. ASSUME NEW e \in Events PROVE Kept(s, Post(t, e))
  <2> DEFINE q == [t.posted EXCEPT ![e] = t.posted[e] + 1]
             u == [t EXCEPT !.posted = q]
  <2>1. q \in [Events -> Nat]
    BY <1>1 DEF LinkProber
  <2>2. Post(t, e) = u
    BY <1>1 DEF Post, LinkProber
  <2> HIDE DEF q
  <2>3. Kept(s, u)
    BY <1>1, <2>1, SameKept DEF LinkProber
  <2> QED BY <2>2, <2>3
<1>3. ASSUME NEW c \in Completions PROVE Kept(s, Complete(t, c))
  <2> DEFINE q == [t.done EXCEPT ![c] = t.done[c] + 1]
             u == [t EXCEPT !.done = q]
  <2>1. q \in [Completions -> Nat]
    BY <1>1 DEF LinkProber
  <2>2. Complete(t, c) = u
    BY <1>1 DEF Complete, LinkProber
  <2> HIDE DEF q
  <2>3. Kept(s, u)
    BY <1>1, <2>1, SameKept DEF LinkProber
  <2> QED BY <2>2, <2>3
<1>4. ASSUME NEW r \in Timers PROVE Kept(s, Arm(t, r)) /\ Kept(s, Disarm(t, r))
  BY <1>1, SameKept DEF Arm, Disarm, LinkProber
<1> QED BY <1>2, <1>3, <1>4

\* Cancelling a timer keeps, and so does starting it again.
LEMMA CancelKept ==
  ASSUME NEW s, NEW t, Kept(s, t), NEW r \in Timers
  PROVE  Kept(s, Cancel(t, r)) /\ Kept(s, Arm(Cancel(t, r), r))
<1>1. Aborted(r) \in Completions
  BY DEF Aborted, Timers, Completions, NORMAL, RX
<1>2. Kept(s, Cancel(t, r))
  BY <1>1, StrandKept DEF Cancel
<1> QED BY <1>2, StrandKept

\* The members that the sessions do not depend on.
LEMMA FieldKept ==
  ASSUME NEW s, NEW t, Kept(s, t)
  PROVE  /\ \A v \in BOOLEAN : Kept(s, [t EXCEPT !.cancelSuspend = v])
         /\ \A v \in States : Kept(s, [t EXCEPT !.state = v])
         /\ \A v \in PeerStates : Kept(s, [t EXCEPT !.peerState = v])
         /\ \A v \in [{"PeerActive", "PeerUnknown"} -> Nat] :
              Kept(s, [t EXCEPT !.count = v])
         /\ \A v \in [Keys -> {"None", "Down", "Up"}] :
              Kept(s, [t EXCEPT !.notice = v])
         /\ \A v \in [Events -> Nat] : Kept(s, [t EXCEPT !.posted = v])
         /\ \A v \in [Completions -> Nat] : Kept(s, [t EXCEPT !.done = v])
<1>1. t \in LinkProber
  BY KeptTypes
<1> QED BY <1>1, SameKept DEF LinkProber

\* The table entries after the own session is created or deleted.
LEMMA OwnSession ==
  ASSUME NEW t \in LinkProber
  PROVE  /\ createIcmpEchoSession(t, NORMAL) \in LinkProber
         /\ deleteIcmpEchoSession(t, NORMAL) \in LinkProber
         /\ deleteIcmpEchoSession(t, NORMAL).session[NORMAL] = "None"
         /\ deleteIcmpEchoSession(t, NORMAL).suspendTx = t.suspendTx
         /\ deleteIcmpEchoSession(t, NORMAL).shutdownTx = t.shutdownTx
         /\ OnePeer(t) => /\ OnePeer(createIcmpEchoSession(t, NORMAL))
                          /\ OnePeer(deleteIcmpEchoSession(t, NORMAL))
<1>1. NORMAL \in Keys /\ NORMAL \notin Guids /\ Guids \subseteq Keys
  BY LinkProberHwAssumption DEF Keys
<1> DEFINE c == createIcmpEchoSession(t, NORMAL)
           d == deleteIcmpEchoSession(t, NORMAL)
<1>2. c \in LinkProber /\ d \in LinkProber
  BY <1>1 DEF createIcmpEchoSession, deleteIcmpEchoSession, LinkProber
<1>3. /\ d.session = [t.session EXCEPT ![NORMAL] = "None"]
      /\ d.peerType = t.peerType /\ d.peerGuid = t.peerGuid
      /\ d.suspendTx = t.suspendTx /\ d.shutdownTx = t.shutdownTx
  BY DEF deleteIcmpEchoSession, LinkProber
<1>4. /\ c.session \in {t.session, [t.session EXCEPT ![NORMAL] = "Down"]}
      /\ c.peerType = t.peerType /\ c.peerGuid = t.peerGuid
  BY DEF createIcmpEchoSession, LinkProber
<1>5. t.session \in [Keys -> {"None", "Down", "Up"}]
  BY DEF LinkProber
<1> HIDE DEF c, d
<1>6. d.session[NORMAL] = "None"
  BY <1>1, <1>3, <1>5
<1>7. OnePeer(t) => OnePeer(c) /\ OnePeer(d)
  BY <1>1, <1>3, <1>4, <1>5 DEF OnePeer
<1> QED BY <1>2, <1>3, <1>6, <1>7 DEF c, d

\* Deleting the own session keeps.
LEMMA deleteKept ==
  ASSUME NEW s, NEW t, Kept(s, t)
  PROVE  Kept(s, deleteIcmpEchoSession(t, NORMAL))
<1>1. Kept(t, deleteIcmpEchoSession(t, NORMAL))
  BY KeptTypes, OwnSession DEF Kept, Quiet
<1> QED BY <1>1, KeptTrans

-----------------------------------------------------------------------------
(* The methods keep. *)

\* Probing starts only while nothing forbids it.
LEMMA startProbingKept ==
  ASSUME NEW s, NEW t, Kept(s, t)
  PROVE  Kept(s, startProbing(t))
<1> DEFINE c == createIcmpEchoSession(t, NORMAL)
<1>1. t \in LinkProber
  BY KeptTypes
<1>2. CASE ~t.suspendTx /\ ~t.shutdownTx
  <2>1. c.suspendTx = t.suspendTx /\ c.shutdownTx = t.shutdownTx
    BY <1>1 DEF createIcmpEchoSession, LinkProber
  <2>2. startProbing(t) = c
    BY <1>2 DEF startProbing
  <2>3. c \in LinkProber /\ (OnePeer(t) => OnePeer(c))
    BY <1>1, OwnSession
  <2> HIDE DEF c
  <2>4. Kept(t, c)
    BY <1>1, <1>2, <2>1, <2>3 DEF Kept, Quiet
  <2> QED BY <2>2, <2>4, KeptTrans
<1>3. CASE ~(~t.suspendTx /\ ~t.shutdownTx)
  BY <1>3 DEF startProbing
<1> QED BY <1>2, <1>3

\* Suspending heartbeats keeps: the session that sends is deleted first.
LEMMA suspendTxProbesKept ==
  ASSUME NEW s, NEW t, Kept(s, t)
  PROVE  Kept(s, suspendTxProbes(t))
<1> DEFINE d == deleteIcmpEchoSession(t, NORMAL)
           a == [d EXCEPT !.suspendTx = TRUE]
           b == [a EXCEPT !.cancelSuspend = FALSE]
<1>1. Kept(s, d) /\ d.session[NORMAL] = "None"
  BY deleteKept, KeptTypes, OwnSession
<1>2. b = [d EXCEPT !.suspendTx = TRUE, !.cancelSuspend = FALSE]
  OBVIOUS
<1> HIDE DEF d
<1>3. Kept(s, a)
  <2>1. d \in LinkProber
    BY <1>1, KeptTypes
  <2>2. /\ a \in LinkProber /\ a.session = d.session /\ a.peerType = d.peerType
        /\ a.peerGuid = d.peerGuid
    BY <2>1 DEF LinkProber
  <2>3. Kept(d, a)
    BY <1>1, <2>1, <2>2 DEF Kept, Quiet, OnePeer
  <2> QED BY <1>1, <2>3, KeptTrans
<1> HIDE DEF a
<1>4. Kept(s, b)
  BY <1>3, FieldKept
<1> HIDE DEF b
<1>5. Kept(s, Arm(Cancel(b, "suspend"), "suspend"))
  BY <1>4, CancelKept DEF Timers
<1> QED BY <1>2, <1>5 DEF suspendTxProbes, d

\* Resuming heartbeats keeps: a suspension that has not ended still forbids them.
LEMMA resumeTxProbesKept ==
  ASSUME NEW s, NEW t, Kept(s, t)
  PROVE  Kept(s, resumeTxProbes(t))
<1> DEFINE c == Cancel(t, "suspend")
           b == [c EXCEPT !.cancelSuspend = TRUE]
<1>1. Kept(s, c)
  BY CancelKept DEF Timers
<1> HIDE DEF c
<1>2. Kept(s, b)
  BY <1>1, FieldKept
<1> QED BY <1>2, startProbingKept DEF resumeTxProbes, c

\* Shutting heartbeats down keeps.
LEMMA shutdownTxProbesKept ==
  ASSUME NEW s, NEW t, Kept(s, t)
  PROVE  Kept(s, shutdownTxProbes(t))
<1> DEFINE d == deleteIcmpEchoSession(t, NORMAL)
           a == [d EXCEPT !.shutdownTx = TRUE]
<1>1. Kept(s, d) /\ d.session[NORMAL] = "None"
  BY deleteKept, KeptTypes, OwnSession
<1> HIDE DEF d
<1>2. d \in LinkProber
  BY <1>1, KeptTypes
<1>3. /\ a \in LinkProber /\ a.session = d.session /\ a.peerType = d.peerType
      /\ a.peerGuid = d.peerGuid
  BY <1>2 DEF LinkProber
<1>4. Kept(d, a)
  BY <1>1, <1>2, <1>3 DEF Kept, Quiet, OnePeer
<1> QED BY <1>1, <1>4, KeptTrans DEF shutdownTxProbes, d

\* Restarting heartbeats keeps.
LEMMA restartTxProbesKept ==
  ASSUME NEW s, NEW t, Kept(s, t)
  PROVE  Kept(s, restartTxProbes(t))
<1> DEFINE d == deleteIcmpEchoSession(t, NORMAL)
           a == [d EXCEPT !.shutdownTx = FALSE]
<1>1. Kept(s, d) /\ d.session[NORMAL] = "None"
  BY deleteKept, KeptTypes, OwnSession
<1> HIDE DEF d
<1>2. d \in LinkProber
  BY <1>1, KeptTypes
<1>3. /\ a \in LinkProber /\ a.session = d.session /\ a.peerType = d.peerType
      /\ a.peerGuid = d.peerGuid
  BY <1>2 DEF LinkProber
<1>4. Kept(d, a)
  BY <1>1, <1>2, <1>3 DEF Kept, Quiet, OnePeer
<1>5. Kept(s, a)
  BY <1>1, <1>4, KeptTrans
<1> HIDE DEF a
<1> QED BY <1>5, startProbingKept DEF restartTxProbes, a, d

\* Renewing the own session leaves the sessions of the peers alone.
LEMMA updateEthernetFrameType ==
  ASSUME NEW t \in LinkProber
  PROVE  LET u == updateEthernetFrame(t)
         IN  /\ u \in LinkProber
             /\ OnePeer(t) => OnePeer(u)
<1> DEFINE d == deleteIcmpEchoSession(t, NORMAL)
           u == createIcmpEchoSession(d, NORMAL)
<1>1. d \in LinkProber /\ (OnePeer(t) => OnePeer(d))
  BY OwnSession
<1> HIDE DEF d
<1>2. u \in LinkProber /\ (OnePeer(d) => OnePeer(u))
  BY <1>1, OwnSession
<1> HIDE DEF u
<1> QED BY <1>1, <1>2 DEF updateEthernetFrame, u, d

\* Starting the deadline and the positive probing timers keeps.
LEMMA TimerKept ==
  ASSUME NEW s, NEW t, Kept(s, t)
  PROVE  /\ Kept(s, startTimer(t))
         /\ \A type \in SessionTypes : Kept(s, startPositiveProbingTimer(t, type))
BY CancelKept DEF startTimer, startPositiveProbingTimer, Timers, SessionTypes, NORMAL, RX

\* Reading a notice keeps.
LEMMA StateDbStateUpdateKept ==
  ASSUME NEW s, NEW t, Kept(s, t), NEW l \in {"Up", "Down"}, NEW type \in SessionTypes
  PROVE  Kept(s, StateDbStateUpdate(t, l, type))
<1> DEFINE e == IF type = NORMAL THEN "HwUnknown" ELSE "HwPeerUnknown"
           c == Cancel(t, type)
<1>1. type \in Timers /\ e \in Events
  BY DEF SessionTypes, Timers, Events, SelfEvents, PeerEvents, NORMAL, RX
<1>2. Kept(s, c)
  BY <1>1, CancelKept
<1> HIDE DEF c, e
<1>3. Kept(s, Post(c, e))
  BY <1>1, <1>2, StrandKept
<1>4. Kept(s, startPositiveProbingTimer(t, type))
  BY TimerKept
<1> QED BY <1>3, <1>4 DEF StateDbStateUpdate, SessionUp, SessionDown, c, e

-----------------------------------------------------------------------------
(* The peer's session. *)

\* What the sessions depend on is the same in u and in t.
SameSessions(u, t) ==
  /\ u.suspendTx = t.suspendTx /\ u.shutdownTx = t.shutdownTx
  /\ u.session = t.session
  /\ u.peerType = t.peerType /\ u.peerGuid = t.peerGuid

\* Posting an event and cancelling a timer leave the sessions alone.
LEMMA PostSame ==
  ASSUME NEW t \in LinkProber, NEW e \in Events
  PROVE  Post(t, e) \in LinkProber /\ SameSessions(Post(t, e), t)
<1>1. Post(t, e) \in LinkProber
  BY KeptRefl, StrandKept, KeptTypes
<1> QED BY <1>1 DEF Post, SameSessions, LinkProber

LEMMA CancelSame ==
  ASSUME NEW t \in LinkProber, NEW r \in Timers
  PROVE  Cancel(t, r) \in LinkProber /\ SameSessions(Cancel(t, r), t)
<1>1. Cancel(t, r) \in LinkProber
  BY KeptRefl, CancelKept, KeptTypes
<1>2. SameSessions(Cancel(t, r), t)
  BY DEF Cancel, Complete, Disarm, SameSessions, LinkProber
<1> QED BY <1>1, <1>2

\* A peer does not call itself what the own session is called.
LEMMA PeerNames ==
  ASSUME NEW g \in Guids
  PROVE  g \in Keys /\ g # NORMAL /\ g # NoGuid
BY LinkProberHwAssumption DEF Keys

\* The session of a peer that is no longer the peer is deleted: afterwards no
\* session receives.
LEMMA ForgetPeerKept ==
  ASSUME NEW s \in LinkProber, NEW e \in Events
  PROVE  LET f == ForgetPeer(s, e)
         IN  /\ f \in LinkProber
             /\ Quiet(s) => Quiet(f)
             /\ f.peerType = s.peerType /\ f.peerGuid = s.peerGuid
             /\ OnePeer(s) => \A g \in Guids : f.session[g] = "None"
<1> DEFINE d == deleteIcmpEchoSession(s, s.peerGuid)
           q == [s.session EXCEPT ![s.peerGuid] = "None"]
           n == [s.notice EXCEPT ![s.peerGuid] = "None"]
           c == Cancel(d, RX)
<1>1. /\ q \in [Keys -> {"None", "Down", "Up"}]
      /\ n \in [Keys -> {"None", "Down", "Up"}]
      /\ s.peerGuid \in Guids \cup {NoGuid}
  BY DEF LinkProber
<1>2. NORMAL \in Keys /\ s.session \in [Keys -> {"None", "Down", "Up"}]
  BY DEF Keys, LinkProber
<1>3. q[NORMAL] \in {"None", s.session[NORMAL]}
  BY <1>1, <1>2
<1>4. OnePeer(s) => \A g \in Guids : q[g] = "None"
  BY <1>2, PeerNames DEF OnePeer
<1>5. d = [s EXCEPT !.session = q, !.notice = n]
  BY DEF deleteIcmpEchoSession, LinkProber
<1> HIDE DEF q, n
<1>6. /\ d \in LinkProber /\ d.session = q
      /\ d.peerType = s.peerType /\ d.peerGuid = s.peerGuid
      /\ d.suspendTx = s.suspendTx /\ d.shutdownTx = s.shutdownTx
  BY <1>1, <1>5 DEF LinkProber
<1> HIDE DEF d
<1>7. c \in LinkProber /\ SameSessions(c, d)
  BY <1>6, CancelSame DEF Timers
<1> HIDE DEF c
<1>8. Post(c, e) \in LinkProber /\ SameSessions(Post(c, e), d)
  BY <1>6, <1>7, PostSame DEF SameSessions
<1> DEFINE f == Post(c, e)
<1>9. ForgetPeer(s, e) = f
  BY DEF ForgetPeer, c, d
<1> HIDE DEF f
<1>10. f \in LinkProber /\ SameSessions(f, d)
  BY <1>8 DEF f
<1> QED BY <1>3, <1>4, <1>6, <1>9, <1>10 DEF SameSessions, Quiet
\* The session of the peer as it is known now is the only one that receives.
LEMMA CreatePeerKept ==
  ASSUME NEW s \in LinkProber, NEW g \in Guids,
         s.peerType = "HARDWARE", s.peerGuid = g
  PROVE  LET c == createIcmpEchoSession(s, g)
         IN  /\ c \in LinkProber
             /\ Quiet(s) => Quiet(c)
             /\ (\A h \in Guids : h # g => s.session[h] = "None") => OnePeer(c)
<1> DEFINE c == createIcmpEchoSession(s, g)
<1>1. g \in Keys /\ g # NORMAL /\ Guids \subseteq Keys
  BY PeerNames
<1>2. c \in LinkProber
  BY <1>1 DEF createIcmpEchoSession, LinkProber
<1>3. /\ c.suspendTx = s.suspendTx /\ c.shutdownTx = s.shutdownTx
      /\ c.peerType = s.peerType /\ c.peerGuid = s.peerGuid
      /\ \A k \in Keys : k # g => c.session[k] = s.session[k]
      /\ c.session[g] # "None"
  BY <1>1 DEF createIcmpEchoSession, LinkProber
<1>4. NORMAL \in Keys
  BY DEF Keys
<1> HIDE DEF c
<1>5. Quiet(s) => Quiet(c)
  BY <1>1, <1>3, <1>4 DEF Quiet
<1>6. (\A h \in Guids : h # g => s.session[h] = "None") => OnePeer(c)
  BY <1>1, <1>3 DEF OnePeer
<1> QED BY <1>2, <1>5, <1>6 DEF c

\* A packet of a peer that uses the hardware keeps.
LEMMA HardwarePacketKept ==
  ASSUME NEW s \in LinkProber, NEW g \in Guids
  PROVE  Kept(s, HardwarePacket(s, g))
<1> DEFINE replaced == s.peerType = "HARDWARE" /\ s.peerGuid # NoGuid /\ s.peerGuid # g
           t == IF replaced THEN ForgetPeer(s, "PeerUnknown") ELSE s
           u == [t EXCEPT !.peerType = "HARDWARE", !.peerGuid = g]
<1>1. /\ t \in LinkProber
      /\ Quiet(s) => Quiet(t)
      /\ OnePeer(s) => \A h \in Guids : h # g => t.session[h] = "None"
  <2>1. CASE replaced
    <3>1. "PeerUnknown" \in Events
      BY DEF Events, PeerEvents
    <3> QED BY <2>1, <3>1, ForgetPeerKept
  <2>2. CASE ~replaced
    <3>1. OnePeer(s) => \A h \in Guids : h # g => s.session[h] = "None"
      BY <2>2, PeerNames DEF OnePeer
    <3> QED BY <2>2, <3>1
  <2> QED BY <2>1, <2>2
<1>2. HardwarePacket(s, g) = createIcmpEchoSession(u, g)
  BY DEF HardwarePacket
<1> HIDE DEF t
<1>3. /\ u \in LinkProber /\ u.peerType = "HARDWARE" /\ u.peerGuid = g
      /\ u.session = t.session
      /\ u.suspendTx = t.suspendTx /\ u.shutdownTx = t.shutdownTx
  BY <1>1 DEF LinkProber
<1> HIDE DEF u
<1>4. Quiet(t) => Quiet(u)
  BY <1>3 DEF Quiet
<1>5. LET c == createIcmpEchoSession(u, g)
      IN  /\ c \in LinkProber
          /\ Quiet(u) => Quiet(c)
          /\ (\A h \in Guids : h # g => u.session[h] = "None") => OnePeer(c)
  BY <1>3, CreatePeerKept
<1> QED BY <1>1, <1>2, <1>3, <1>4, <1>5 DEF Kept

\* A new peer in software is followed by its packets: nothing receives for it.
LEMMA NewSoftwarePeerKept ==
  ASSUME NEW t \in LinkProber, NEW g \in Guids
  PROVE  LET n == NewSoftwarePeer(t, g)
         IN  /\ n \in LinkProber
             /\ Quiet(t) => Quiet(n)
             /\ t.peerType # "HARDWARE" /\ OnePeer(t) => OnePeer(n)
<1> DEFINE u == [t EXCEPT !.peerGuid = g]
           c == Cancel(u, RX)
           d == Cancel(c, "deadline")
           e == Post(d, "PeerUnknown")
           n == startTimer(e)
<1>1. /\ u \in LinkProber /\ u.peerType = t.peerType /\ u.session = t.session
      /\ u.suspendTx = t.suspendTx /\ u.shutdownTx = t.shutdownTx
  BY DEF LinkProber
<1>2. NewSoftwarePeer(t, g) = n
  BY DEF NewSoftwarePeer
<1> HIDE DEF u
<1>3. Kept(u, c)
  BY <1>1, KeptRefl, CancelKept DEF Timers
<1> HIDE DEF c
<1>4. Kept(u, d)
  BY <1>3, CancelKept DEF Timers
<1> HIDE DEF d
<1>5. Kept(u, e)
  BY <1>4, StrandKept DEF Events, PeerEvents
<1> HIDE DEF e
<1>6. Kept(u, n)
  BY <1>5, TimerKept
<1> HIDE DEF n
<1>7. Quiet(t) => Quiet(u)
  BY <1>1 DEF Quiet
<1>8. t.peerType # "HARDWARE" /\ OnePeer(t) => OnePeer(u)
  BY <1>1 DEF OnePeer
<1> QED BY <1>2, <1>6, <1>7, <1>8 DEF Kept

\* A packet with the software cookie: a heartbeat keeps, a command does when its
\* peer has a session.
LEMMA SoftwarePacketKept ==
  ASSUME NEW s \in LinkProber, NEW g \in Guids, NEW command \in BOOLEAN
  PROVE  LET r == SoftwarePacket(s, g, command)
         IN  /\ r \in LinkProber
             /\ Quiet(s) => Quiet(r)
             /\ (command => s.session[g] # "None") /\ OnePeer(s) => OnePeer(r)
<1> DEFINE moved == ~command /\ s.peerType = "HARDWARE"
           f == ForgetPeer(s, "HwPeerUnknown")
           t == IF moved THEN [f EXCEPT !.peerType = "SOFTWARE"] ELSE s
           r == SoftwarePacket(s, g, command)
<1>1. /\ t \in LinkProber /\ (Quiet(s) => Quiet(t)) /\ (OnePeer(s) => OnePeer(t))
      /\ ~command => t.peerType # "HARDWARE"
  <2>1. CASE moved
    <3>1. "HwPeerUnknown" \in Events
      BY DEF Events, PeerEvents
    <3>2. /\ f \in LinkProber /\ (Quiet(s) => Quiet(f))
          /\ OnePeer(s) => \A h \in Guids : f.session[h] = "None"
      BY <3>1, ForgetPeerKept
    <3> HIDE DEF f
    <3>3. /\ t \in LinkProber /\ t.peerType = "SOFTWARE" /\ t.session = f.session
          /\ t.suspendTx = f.suspendTx /\ t.shutdownTx = f.shutdownTx
      BY <2>1, <3>2 DEF LinkProber
    <3> HIDE DEF t
    <3> QED BY <3>2, <3>3 DEF Quiet, OnePeer
  <2>2. CASE ~moved
    BY <2>2
  <2> QED BY <2>1, <2>2
<1>2. r = IF s.peerGuid # g THEN NewSoftwarePeer(t, g) ELSE Post(t, "PeerActive")
  BY DEF SoftwarePacket
<1> HIDE DEF t, f, r
<1>3. CASE s.peerGuid # g
  <2>1. /\ r \in LinkProber /\ (Quiet(t) => Quiet(r))
        /\ t.peerType # "HARDWARE" /\ OnePeer(t) => OnePeer(r)
    BY <1>1, <1>2, <1>3, NewSoftwarePeerKept
  <2>2. OnePeer(s) => s.session[g] = "None"
    BY <1>3 DEF OnePeer
  <2> QED BY <1>1, <2>1, <2>2 DEF r
<1>4. CASE s.peerGuid = g
  <2>1. Kept(t, r)
    BY <1>1, <1>2, <1>4, KeptRefl, StrandKept DEF Events, PeerEvents
  <2> QED BY <1>1, <2>1 DEF r, Kept
<1> QED BY <1>3, <1>4

-----------------------------------------------------------------------------
(* The state machine keeps: it does not touch the prober. *)

LEMMA SelfEventKept ==
  ASSUME NEW s, NEW t, Kept(s, t), NEW e \in SelfEvents
  PROVE  Kept(s, SelfEvent(t, e))
<1>1. OwnVerdict[e] \in States
  BY DEF OwnVerdict, SelfEvents, States
<1> QED BY <1>1, FieldKept DEF SelfEvent

LEMMA EnterPeerKept ==
  ASSUME NEW s, NEW t, Kept(s, t), NEW l \in PeerStates
  PROVE  Kept(s, EnterPeer(t, l))
<1> DEFINE q == [e \in DOMAIN t.count |-> 0]
           u == [t EXCEPT !.peerState = l]
<1>1. q \in [{"PeerActive", "PeerUnknown"} -> Nat]
  BY KeptTypes DEF LinkProber
<1>2. [t EXCEPT !.peerState = l, !.count = q] = [u EXCEPT !.count = q]
  OBVIOUS
<1>3. Kept(s, u)
  BY FieldKept
<1> HIDE DEF q, u
<1>4. Kept(s, [u EXCEPT !.count = q])
  BY <1>1, <1>3, FieldKept
<1> QED BY <1>2, <1>4 DEF EnterPeer, q

LEMMA HwPeerEventKept ==
  ASSUME NEW s, NEW t, Kept(s, t), NEW e \in {"HwPeerActive", "HwPeerUnknown"}
  PROVE  Kept(s, HwPeerEvent(t, e))
<1> DEFINE q == [c \in DOMAIN t.count |-> 0]
<1>1. q \in [{"PeerActive", "PeerUnknown"} -> Nat] /\ Verdict[e] \in PeerStates
  BY KeptTypes DEF LinkProber, Verdict, PeerStates
<1> HIDE DEF q
<1>2. Kept(s, [t EXCEPT !.count = q]) /\ Kept(s, EnterPeer(t, Verdict[e]))
  BY <1>1, FieldKept, EnterPeerKept
<1> QED BY <1>2 DEF HwPeerEvent, q

LEMMA PeerEventKept ==
  ASSUME NEW s, NEW t, Kept(s, t), NEW e \in {"PeerActive", "PeerUnknown"}
  PROVE  Kept(s, PeerEvent(t, e))
<1> DEFINE q == [c \in DOMAIN t.count |-> 0]
           n == [c \in DOMAIN t.count |-> IF c = e THEN t.count[c] + 1 ELSE 0]
<1>1. /\ q \in [{"PeerActive", "PeerUnknown"} -> Nat]
      /\ n \in [{"PeerActive", "PeerUnknown"} -> Nat]
      /\ e \in PeerStates
  BY KeptTypes DEF LinkProber, PeerStates
<1>2. PeerEvent(t, e) \in
        {[t EXCEPT !.count = q], EnterPeer(t, e), [t EXCEPT !.count = n]}
  BY DEF PeerEvent
<1> HIDE DEF q, n
<1>3. /\ Kept(s, [t EXCEPT !.count = q]) /\ Kept(s, [t EXCEPT !.count = n])
      /\ Kept(s, EnterPeer(t, e))
  BY <1>1, FieldKept, EnterPeerKept
<1> QED BY <1>2, <1>3

-----------------------------------------------------------------------------
(* The actions. *)

\* A step that keeps the prober keeps the invariant and the silence.
LEMMA KeptInv ==
  ASSUME IInv, Kept(lp, lp'), world' \in World, changes' \in 0 .. MaxChanges
  PROVE  IInv' /\ StaysQuiet
BY KeptTypes DEF IInv, TypeOK, Kept, Quiet, OnePeer, StaysQuiet

LEMMA RequestInv ==
  ASSUME IInv, NEW r \in Requests, Request(r)
  PROVE  IInv' /\ (r # "frame" => StaysQuiet)
<1>1. lp \in LinkProber /\ Kept(lp, lp)
  BY KeptRefl DEF IInv, TypeOK
<1>2. world' \in World /\ changes' \in 0 .. MaxChanges
  BY LinkProberHwAssumption DEF IInv, TypeOK, Request, Change
<1>3. r \in {"suspend", "resume", "shutdown", "restart", "frame"}
  BY LinkProberHwAssumption
<1>4. CASE r = "frame"
  <2>1. lp' = updateEthernetFrame(lp)
    BY <1>4 DEF Request, Step
  <2>2. lp' \in LinkProber /\ (OnePeer(lp) => OnePeer(lp'))
    BY <1>1, <2>1, updateEthernetFrameType
  <2> QED BY <1>2, <1>4, <2>2 DEF IInv, TypeOK, OnePeer
<1>5. CASE r # "frame"
  <2>1. lp' \in {suspendTxProbes(lp), resumeTxProbes(lp), shutdownTxProbes(lp),
                 restartTxProbes(lp)}
    BY <1>3, <1>5 DEF Request, Step
  <2>2. Kept(lp, lp')
    BY <1>1, <2>1, suspendTxProbesKept, resumeTxProbesKept, shutdownTxProbesKept,
       restartTxProbesKept
  <2> QED BY <1>2, <2>2, KeptInv
<1> QED BY <1>4, <1>5

LEMMA handleStateDbStateUpdateInv ==
  ASSUME IInv, NEW k \in Keys, handleStateDbStateUpdate(k)
  PROVE  IInv' /\ StaysQuiet
<1> DEFINE q == [lp.notice EXCEPT ![k] = "None"]
           t == [lp EXCEPT !.notice = q]
<1>1. lp \in LinkProber /\ Kept(lp, lp)
  BY KeptRefl DEF IInv, TypeOK
<1>2. /\ q \in [Keys -> {"None", "Down", "Up"}]
      /\ lp.notice[k] \in {"Up", "Down"} /\ SessionType(k) \in SessionTypes
      /\ [lp EXCEPT !.notice[k] = "None"] = t
  BY <1>1 DEF handleStateDbStateUpdate, LinkProber, SessionType, SessionTypes
<1> HIDE DEF q
<1>3. Kept(lp, t)
  BY <1>1, <1>2, FieldKept
<1> HIDE DEF t
<1>4. lp' = StateDbStateUpdate(t, lp.notice[k], SessionType(k))
  BY <1>2 DEF handleStateDbStateUpdate, Step
<1>5. Kept(lp, lp')
  BY <1>2, <1>3, <1>4, StateDbStateUpdateKept
<1> QED BY <1>5, KeptInv DEF handleStateDbStateUpdate, IInv, TypeOK

\* What is taken off a strand leaves the rest as it was.
LEMMA TakenKept ==
  ASSUME lp \in LinkProber
  PROVE  /\ \A e \in Events : lp.posted[e] > 0 => Kept(lp, Taken(e))
         /\ \A c \in Completions : lp.done[c] > 0 => Kept(lp, Completed(c))
<1>1. ASSUME NEW e \in Events, lp.posted[e] > 0 PROVE Kept(lp, Taken(e))
  <2> DEFINE q == [lp.posted EXCEPT ![e] = lp.posted[e] - 1]
  <2>1. q \in [Events -> Nat] /\ Taken(e) = [lp EXCEPT !.posted = q]
    BY <1>1 DEF Taken, LinkProber
  <2> HIDE DEF q
  <2> QED BY <2>1, KeptRefl, FieldKept
<1>2. ASSUME NEW c \in Completions, lp.done[c] > 0 PROVE Kept(lp, Completed(c))
  <2> DEFINE q == [lp.done EXCEPT ![c] = lp.done[c] - 1]
  <2>1. q \in [Completions -> Nat] /\ Completed(c) = [lp EXCEPT !.done = q]
    BY <1>2 DEF Completed, LinkProber
  <2> HIDE DEF q
  <2> QED BY <2>1, KeptRefl, FieldKept
<1> QED BY <1>1, <1>2

LEMMA processEventInv ==
  ASSUME IInv, NEW e \in Events, processEvent(e)
  PROVE  IInv' /\ StaysQuiet
<1> DEFINE t == Taken(e)
<1>1. Kept(lp, t)
  BY TakenKept DEF processEvent, Handle, IInv, TypeOK
<1>2. Kept(lp, lp')
  <2>1. CASE e \in SelfEvents
    <3>1. lp' = SelfEvent(t, e)
      BY <2>1 DEF processEvent, Handle, Step, SelfEvents, Verdict
    <3> QED BY <1>1, <2>1, <3>1, SelfEventKept
  <2>2. CASE e \in {"HwPeerActive", "HwPeerUnknown"}
    <3>1. lp' = HwPeerEvent(t, e)
      BY <2>2 DEF processEvent, Handle, Step, SelfEvents, Verdict
    <3> QED BY <1>1, <2>2, <3>1, HwPeerEventKept
  <2>3. CASE e \in {"PeerActive", "PeerUnknown"}
    <3>1. lp' = PeerEvent(t, e)
      BY <2>3 DEF processEvent, Handle, Step, SelfEvents, Verdict
    <3> QED BY <1>1, <2>3, <3>1, PeerEventKept
  <2>4. CASE e = "SuspendTimerExpired"
    <3>1. lp' = resumeTxProbes(t)
      BY <2>4 DEF processEvent, Handle, Step, SelfEvents, Verdict
    <3> QED BY <1>1, <3>1, resumeTxProbesKept
  <2> QED BY <2>1, <2>2, <2>3, <2>4 DEF Events, PeerEvents
<1> QED BY <1>2, KeptInv DEF processEvent, Handle, IInv, TypeOK

LEMMA handlePositiveProbingTimeoutInv ==
  ASSUME IInv, NEW type \in SessionTypes, handlePositiveProbingTimeout(type)
  PROVE  IInv' /\ StaysQuiet
<1> DEFINE e == IF type = NORMAL THEN "HwSelf" ELSE "HwPeerActive"
           t == Completed(type)
<1>1. type \in Completions /\ e \in Events
  BY DEF SessionTypes, Completions, Events, SelfEvents, PeerEvents
<1>2. Kept(lp, t)
  BY <1>1, TakenKept DEF handlePositiveProbingTimeout, Run, IInv, TypeOK
<1>3. lp' = Post(t, e)
  BY DEF handlePositiveProbingTimeout, Run, Step
<1> HIDE DEF t, e
<1>4. Kept(lp, lp')
  BY <1>1, <1>2, <1>3, StrandKept
<1> QED BY <1>4, KeptInv DEF handlePositiveProbingTimeout, Run, IInv, TypeOK

\* A suspension that ends keeps: it forbids less, and starts nothing itself.
LEMMA handleSuspendTimeoutInv ==
  ASSUME IInv, NEW c \in {"suspended", "aborted"}, handleSuspendTimeout(c)
  PROVE  IInv' /\ StaysQuiet
<1> DEFINE d == Completed(c)
           a == [d EXCEPT !.suspendTx = FALSE]
           s == [a EXCEPT !.cancelSuspend = FALSE]
<1>1. c \in Completions /\ "SuspendTimerExpired" \in Events
  BY DEF Completions, Events
<1>2. Kept(lp, d)
  BY <1>1, TakenKept DEF handleSuspendTimeout, Run, IInv, TypeOK
<1>3. lp' \in {s, Post(s, "SuspendTimerExpired")}
  BY DEF handleSuspendTimeout, Run, Step
<1> HIDE DEF d
<1>4. d \in LinkProber
  BY <1>2, KeptTypes
<1>5. /\ a \in LinkProber /\ a.session = d.session /\ a.peerType = d.peerType
      /\ a.peerGuid = d.peerGuid /\ a.suspendTx = FALSE
      /\ a.shutdownTx = d.shutdownTx
  BY <1>4 DEF LinkProber
<1>6. Kept(d, a)
  BY <1>4, <1>5 DEF Kept, Quiet, OnePeer
<1>7. Kept(lp, a)
  BY <1>2, <1>6, KeptTrans
<1> HIDE DEF a
<1>8. Kept(lp, s)
  BY <1>7, FieldKept
<1> HIDE DEF s
<1>9. Kept(lp, lp')
  BY <1>1, <1>3, <1>8, StrandKept
<1> QED BY <1>9, KeptInv DEF handleSuspendTimeout, Run, IInv, TypeOK

LEMMA handleTimeoutInv ==
  ASSUME IInv, handleTimeout
  PROVE  IInv' /\ StaysQuiet
<1> DEFINE d == Completed("deadline")
           s == IF d.peerType = "SOFTWARE" THEN Post(d, "PeerUnknown") ELSE d
<1>1. Kept(lp, d)
  BY TakenKept DEF handleTimeout, Run, IInv, TypeOK, Completions
<1>2. lp' = startTimer(s)
  BY DEF handleTimeout, Run, Step
<1> HIDE DEF d
<1>3. Kept(lp, s)
  BY <1>1, StrandKept DEF Events, PeerEvents
<1> HIDE DEF s
<1>4. Kept(lp, lp')
  BY <1>2, <1>3, TimerKept
<1> QED BY <1>4, KeptInv DEF handleTimeout, Run, IInv, TypeOK

LEMMA TimerExpiresInv ==
  ASSUME IInv, NEW r \in Timers, TimerExpires(r)
  PROVE  IInv' /\ StaysQuiet
<1> DEFINE c == IF r = "suspend" THEN "suspended" ELSE r
           t == Disarm(lp, r)
<1>1. c \in Completions
  BY DEF Timers, Completions
<1>2. Kept(lp, t)
  BY KeptRefl, StrandKept DEF IInv, TypeOK
<1>3. lp' = Complete(t, c)
  BY DEF TimerExpires, Step
<1> HIDE DEF t, c
<1>4. Kept(lp, lp')
  BY <1>1, <1>2, <1>3, StrandKept
<1> QED BY <1>4, KeptInv DEF TimerExpires, IInv, TypeOK

LEMMA HardwareHeartbeatInv ==
  ASSUME IInv, HardwareHeartbeat
  PROVE  IInv' /\ StaysQuiet
<1>1. Kept(lp, lp')
  BY HardwarePacketKept DEF HardwareHeartbeat, PeerSpeaks, Step, IInv, TypeOK, World
<1> QED BY <1>1, KeptInv DEF HardwareHeartbeat, PeerSpeaks, IInv, TypeOK

\* A heartbeat in software is never a command.
LEMMA SoftwareHeartbeatInv ==
  ASSUME IInv, SoftwareHeartbeat
  PROVE  IInv' /\ StaysQuiet
<1>1. Kept(lp, lp')
  BY SoftwarePacketKept
  DEF SoftwareHeartbeat, PeerSpeaks, Step, IInv, TypeOK, World, Kept
<1> QED BY <1>1, KeptInv DEF SoftwareHeartbeat, PeerSpeaks, IInv, TypeOK

\* A command comes from a peer with a session, or may come from any.
LEMMA PeerCommandInv ==
  ASSUME IInv, PeerCommand
  PROVE  IInv' /\ StaysQuiet
<1> DEFINE g == world.guid
           r == SoftwarePacket(lp, g, TRUE)
<1>1. /\ lp \in LinkProber /\ g \in Guids /\ lp' = r
      /\ lp.session[g] # "Up" => EarlyCommands
  BY DEF PeerCommand, PeerSpeaks, Step, IInv, TypeOK, World
<1>2. /\ r \in LinkProber /\ (Quiet(lp) => Quiet(r))
      /\ lp.session[g] # "None" /\ OnePeer(lp) => OnePeer(r)
  BY <1>1, SoftwarePacketKept
<1>3. UNCHANGED <<world, changes>>
  BY DEF PeerCommand, PeerSpeaks
<1> HIDE DEF g, r
<1>4. lp' \in LinkProber /\ (Quiet(lp) => Quiet(lp'))
  BY <1>1, <1>2
<1>5. ~EarlyCommands /\ OnePeer(lp) => OnePeer(lp')
  BY <1>1, <1>2
<1> QED BY <1>3, <1>4, <1>5 DEF IInv, TypeOK, OnePeer, StaysQuiet

\* What the hardware sees changes sessions that exist.
LEMMA DetectsInv ==
  ASSUME IInv, NEW k \in Keys, Detects(k)
  PROVE  IInv' /\ StaysQuiet
<1> DEFINE l == IF Answered(k) THEN "Up" ELSE "Down"
           q == [lp.session EXCEPT ![k] = l]
           n == [lp.notice EXCEPT ![k] = l]
           t == [lp EXCEPT !.session = q]
           u == [t EXCEPT !.notice = n]
<1>1. /\ lp \in LinkProber /\ lp.session[k] # "None"
      /\ lp.session \in [Keys -> {"None", "Down", "Up"}]
      /\ lp.notice \in [Keys -> {"None", "Down", "Up"}]
  BY DEF Detects, IInv, TypeOK, LinkProber
<1>2. lp' = u
  BY <1>1 DEF Detects, Step
<1>3. l \in {"Up", "Down"}
  OBVIOUS
<1> HIDE DEF l
<1>4. /\ q \in [Keys -> {"None", "Down", "Up"}]
      /\ n \in [Keys -> {"None", "Down", "Up"}]
      /\ \A j \in Keys : q[j] = "None" <=> lp.session[j] = "None"
  BY <1>1, <1>3
<1> HIDE DEF q, n
<1>5. /\ t \in LinkProber /\ t.session = q
      /\ t.suspendTx = lp.suspendTx /\ t.shutdownTx = lp.shutdownTx
      /\ t.peerType = lp.peerType /\ t.peerGuid = lp.peerGuid
  BY <1>1, <1>4 DEF LinkProber
<1>6. NORMAL \in Keys /\ Guids \subseteq Keys
  BY DEF Keys
<1> HIDE DEF t
<1>7. Kept(lp, t)
  BY <1>1, <1>4, <1>5, <1>6 DEF Kept, Quiet, OnePeer
<1>8. Kept(lp, u)
  BY <1>4, <1>7, FieldKept
<1> QED BY <1>2, <1>8, KeptInv DEF Detects, IInv, TypeOK, u

LEMMA WorldInv ==
  ASSUME IInv,
         \/ ServerChanges
         \/ PeerChanges
         \/ \E g \in Guids, k \in PeerKinds : PeerRestarts(g, k)
  PROVE  IInv' /\ StaysQuiet
<1>1. lp' = lp /\ changes < MaxChanges /\ changes' = changes + 1
  BY DEF ServerChanges, PeerChanges, PeerRestarts, WorldChanges, Change
<1>2. changes' \in 0 .. MaxChanges
  BY <1>1, LinkProberHwAssumption DEF IInv, TypeOK
<1>3. world' \in World
  <2>1. CASE ServerChanges
    BY <2>1 DEF IInv, TypeOK, ServerChanges, WorldChanges, World
  <2>2. CASE PeerChanges
    BY <2>2 DEF IInv, TypeOK, PeerChanges, WorldChanges, World
  <2>3. CASE \E g \in Guids, k \in PeerKinds : PeerRestarts(g, k)
    <3>1. PICK g \in Guids, k \in PeerKinds : PeerRestarts(g, k)
      BY <2>3
    <3>2. world' = [world EXCEPT !.guid = g, !.kind = k]
      BY <3>1 DEF PeerRestarts, WorldChanges
    <3> QED BY <3>2 DEF IInv, TypeOK, World
  <2> QED BY <2>1, <2>2, <2>3
<1>4. Kept(lp, lp')
  BY <1>1, KeptRefl DEF IInv, TypeOK
<1> QED BY <1>2, <1>3, <1>4, KeptInv

-----------------------------------------------------------------------------
(* The invariant. *)

LEMMA InitIInv == ASSUME Init PROVE IInv
<1>1. lp \in LinkProber
  BY DEF Init, LinkProber, States, PeerStates, Keys
<1>2. world \in World /\ changes \in 0 .. MaxChanges
  BY LinkProberHwAssumption DEF Init
<1>3. OnePeer(lp)
  <2>1. /\ lp.peerType = "UNKNOWN"
        /\ lp.session = [k \in Keys |-> IF k = NORMAL THEN "Down" ELSE "None"]
    BY DEF Init
  <2> QED BY <2>1, PeerNames DEF OnePeer
<1> QED BY <1>1, <1>2, <1>3 DEF IInv, TypeOK

LEMMA NextIInv ==
  ASSUME IInv, [Next]_vars
  PROVE  IInv' /\ (Request("frame") \/ StaysQuiet)
<1>1. CASE UNCHANGED vars
  BY <1>1 DEF vars, IInv, TypeOK, Quiet, OnePeer, StaysQuiet
<1>2. CASE Next
  BY <1>2, RequestInv, handleStateDbStateUpdateInv, processEventInv,
     handlePositiveProbingTimeoutInv, handleSuspendTimeoutInv, handleTimeoutInv,
     TimerExpiresInv, HardwareHeartbeatInv, SoftwareHeartbeatInv, PeerCommandInv,
     DetectsInv, WorldInv
  DEF Next
<1> QED BY <1>1, <1>2

LEMMA Inductive == Spec => []IInv
BY InitIInv, NextIInv, PTL DEF Spec

-----------------------------------------------------------------------------
(* Theorems. *)

(***************************************************************************)
(* The prober, its table entries and the world stay in their types,        *)
(* whatever the two strands interleave.                                    *)
(***************************************************************************)
THEOREM TypeCorrect == Spec => []TypeOK
<1>1. IInv => TypeOK
  BY DEF IInv
<1> QED BY <1>1, Inductive, PTL

(***************************************************************************)
(* The renewal of a session for a new address is the only step that starts *)
(* heartbeats while the port is suspended or shut down, however            *)
(* suspensions, their expiries and the link manager's requests overlap.    *)
(***************************************************************************)
THEOREM SilenceBrokenByAddressOnly == Spec => OnlyNewAddressBreaksSilence
<1>1. ASSUME IInv, [Next]_vars
      PROVE  [~SendsInSilence /\ SendsInSilence' => Request("frame")]_vars
  BY <1>1, NextIInv DEF StaysQuiet, Quiet, SendsInSilence, Silent
<1> QED BY <1>1, Inductive, PTL DEF Spec, OnlyNewAddressBreaksSilence

(***************************************************************************)
(* Unless a command overtakes the first heartbeat of the peer that sends   *)
(* it, the sessions that receive are those of the peer as it is known now, *)
(* however often peers restart and change between hardware and software.   *)
(***************************************************************************)
THEOREM PeerSessionKept ==
  ASSUME ~EarlyCommands
  PROVE  Spec => []PeerSessionMatches
<1>1. IInv => PeerSessionMatches
  BY DEF IInv, OnePeer, PeerSessionMatches
<1> QED BY <1>1, Inductive, PTL

=============================================================================
