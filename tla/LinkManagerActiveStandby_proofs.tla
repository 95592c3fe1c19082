------------------- MODULE LinkManagerActiveStandby_proofs -------------------
(***************************************************************************)
(* Proofs about the link manager of an active-standby port, for every      *)
(* value of the constants and any number of handlers waiting on the        *)
(* strand.                                                                 *)
(*                                                                         *)
(* The invariant IInv says that the object has its type and is Coherent:   *)
(* CompositeCoherent with the reported state named as one a sub state      *)
(* machine can report, without which posted[..] would be applied outside   *)
(* its domain. The handlers are compositions of the same few methods, so   *)
(* the proof is about a relation between objects: Kept(s, t) says that t   *)
(* is an object in which each component is as in s or equal in both        *)
(* copies, and that no handler has left the strand.  Every method keeps;   *)
(* a handler is covered by composing the lemmas of the methods it calls.   *)
(* Only the steps that move a sub state machine or take its report off     *)
(* the strand need an argument of their own.                               *)
(***************************************************************************)
EXTENDS LinkManagerActiveStandby, TLAPS

\* CompositeCoherent of any object, with the reports named.
Coherent(s) ==
  /\ s.ps # s.psm =>
       s.psm \in Detected /\ s.posted[<<"LinkProber", s.psm>>] > 0
  /\ s.ms # s.msm =>
       s.msm \in Reported /\ s.posted[<<"MuxState", s.msm>>] > 0
  /\ s.ls # s.lsm => s.posted[<<"LinkState", s.lsm>>] > 0

\* From s to t no component fell behind and no handler left the strand.
Kept(s, t) ==
  /\ s \in LinkManager /\ t \in LinkManager
  /\ t.ps = t.psm \/ (t.ps = s.ps /\ t.psm = s.psm)
  /\ t.ms = t.msm \/ (t.ms = s.ms /\ t.msm = s.msm)
  /\ t.ls = t.lsm \/ (t.ls = s.ls /\ t.lsm = s.lsm)
  /\ \A e \in Events : t.posted[e] >= s.posted[e]

\* Both records of Kept are objects of the program.
LEMMA KeptTypes ==
  ASSUME NEW s, NEW t, Kept(s, t)
  PROVE  s \in LinkManager /\ t \in LinkManager
BY DEF Kept

\* A handler that changes nothing keeps.
LEMMA KeptRefl == ASSUME NEW s \in LinkManager PROVE Kept(s, s)
BY DEF Kept, LinkManager

\* Kept composes, as the methods of the code do when one calls another.
LEMMA KeptTrans ==
  ASSUME NEW s, NEW t, NEW u, Kept(s, t), Kept(t, u)
  PROVE  Kept(s, u)
BY DEF Kept, LinkManager

\* Assigning a member that is neither a component of the composite state nor
\* a sub state machine keeps, whatever value of its type is assigned.
LEMMA FieldKept ==
  ASSUME NEW s, NEW t, Kept(s, t)
  PROVE  /\ \A v \in SUBSET Timers : Kept(s, [t EXCEPT !.armed = v])
         /\ \A v \in MuxLabels : Kept(s, [t EXCEPT !.lastSet = v])
         /\ \A v \in {"SwssUpdate", "DriverUpdate"} :
              Kept(s, [t EXCEPT !.cause = v])
         /\ \A v \in Requests : Kept(s, [t EXCEPT !.request = v])
         /\ \A v \in BOOLEAN : Kept(s, [t EXCEPT !.waitActiveOdd = v])
         /\ \A v \in BOOLEAN : Kept(s, [t EXCEPT !.alive = v])
         /\ \A v \in SUBSET Components : Kept(s, [t EXCEPT !.init = v])
         /\ \A v \in BOOLEAN : Kept(s, [t EXCEPT !.shutdown = v])
         /\ \A v \in {"Uninitialized", "Unhealthy", "Healthy"} :
              Kept(s, [t EXCEPT !.label = v])
         /\ \A v \in Modes : Kept(s, [t EXCEPT !.mode = v])
         /\ \A v \in {"None", "Active", "Standby"} :
              Kept(s, [t EXCEPT !.pending = v])
         /\ \A v \in Routes : Kept(s, [t EXCEPT !.route = v])
         /\ \A v \in 0 .. NegativeRetry + 1 :
              Kept(s, [t EXCEPT !.activeUnknown = v])
         /\ \A v \in 0 .. NegativeRetry + 1 :
              Kept(s, [t EXCEPT !.standbyUnknown = v])
<1>1. \A v \in SUBSET Timers : Kept(t, [t EXCEPT !.armed = v])
  BY DEF Kept, LinkManager
<1>2. \A v \in MuxLabels : Kept(t, [t EXCEPT !.lastSet = v])
  BY DEF Kept, LinkManager
<1>3. \A v \in {"SwssUpdate", "DriverUpdate"} :
        Kept(t, [t EXCEPT !.cause = v])
  BY DEF Kept, LinkManager
<1>4. \A v \in Requests : Kept(t, [t EXCEPT !.request = v])
  BY DEF Kept, LinkManager
<1>5. \A v \in BOOLEAN : Kept(t, [t EXCEPT !.waitActiveOdd = v])
  BY DEF Kept, LinkManager
<1>6. \A v \in BOOLEAN : Kept(t, [t EXCEPT !.alive = v])
  BY DEF Kept, LinkManager
<1>7. \A v \in SUBSET Components : Kept(t, [t EXCEPT !.init = v])
  BY DEF Kept, LinkManager
<1>8. \A v \in BOOLEAN : Kept(t, [t EXCEPT !.shutdown = v])
  BY DEF Kept, LinkManager
<1>9. \A v \in {"Uninitialized", "Unhealthy", "Healthy"} :
        Kept(t, [t EXCEPT !.label = v])
  BY DEF Kept, LinkManager
<1>10. \A v \in Modes : Kept(t, [t EXCEPT !.mode = v])
  BY DEF Kept, LinkManager
<1>11. \A v \in {"None", "Active", "Standby"} :
        Kept(t, [t EXCEPT !.pending = v])
  BY DEF Kept, LinkManager
<1>12. \A v \in Routes : Kept(t, [t EXCEPT !.route = v])
  BY DEF Kept, LinkManager
<1>13. \A v \in 0 .. NegativeRetry + 1 :
         Kept(t, [t EXCEPT !.activeUnknown = v])
  BY DEF Kept, LinkManager
<1>14. \A v \in 0 .. NegativeRetry + 1 :
         Kept(t, [t EXCEPT !.standbyUnknown = v])
  BY DEF Kept, LinkManager
<1> QED
  BY <1>1, <1>2, <1>3, <1>4, <1>5, <1>6, <1>7,
     <1>8, <1>9, <1>10, <1>11, <1>12, <1>13, <1>14, KeptTrans

\* Posting a handler to the strand keeps: no report is lost.
LEMMA PostKept ==
  ASSUME NEW s, NEW t, Kept(s, t), NEW e \in Events
  PROVE  Kept(s, Post(t, e))
<1>1. Kept(t, Post(t, e))
  BY DEF Kept, LinkManager, Post
<1> QED BY <1>1, KeptTrans

\* Starting and cancelling a timer keep.
LEMMA ArmKept ==
  ASSUME NEW s, NEW t, Kept(s, t), NEW r \in Timers
  PROVE  Kept(s, Arm(t, r)) /\ Kept(s, Disarm(t, r))
<1>1. /\ t.armed \cup {r} \in SUBSET Timers
      /\ t.armed \ {r} \in SUBSET Timers
  BY DEF Kept, LinkManager
<1> QED BY <1>1, FieldKept DEF Arm, Disarm

\* enterLinkProberState forces the link prober state machine along with the
\* composite state, so nothing lags behind.
LEMMA enterLinkProberStateKept ==
  ASSUME NEW s, NEW t, Kept(s, t), NEW l \in ProberLabels
  PROVE  Kept(s, enterLinkProberState(t, l))
<1> DEFINE u == [t EXCEPT !.psm = l]
           v == [u EXCEPT !.ps = l]
<1>1. t \in LinkManager
  BY KeptTypes
<1>2. u \in LinkManager
  BY <1>1 DEF LinkManager
<1>3. v \in LinkManager
  BY <1>2 DEF LinkManager
<1>4. v.psm = l /\ v.ps = l
  BY <1>1 DEF LinkManager
<1>5. v.ms = t.ms /\ v.msm = t.msm /\ v.ls = t.ls /\ v.lsm = t.lsm
  BY <1>1 DEF LinkManager
<1>6. v.posted = t.posted /\ t.posted \in [Events -> Nat]
  BY <1>1 DEF LinkManager
<1>7. Kept(t, v)
  BY <1>1, <1>3, <1>4, <1>5, <1>6 DEF Kept
<1>8. enterLinkProberState(t, l) = v
  BY <1>1 DEF enterLinkProberState, LinkManager
<1> QED BY <1>7, <1>8, KeptTrans

\* The same for the mux.
LEMMA enterMuxStateKept ==
  ASSUME NEW s, NEW t, Kept(s, t), NEW l \in MuxLabels
  PROVE  Kept(s, enterMuxState(t, l))
<1> DEFINE u == [t EXCEPT !.msm = l]
           v == [u EXCEPT !.ms = l]
<1>1. t \in LinkManager
  BY KeptTypes
<1>2. u \in LinkManager
  BY <1>1 DEF LinkManager
<1>3. v \in LinkManager
  BY <1>2 DEF LinkManager
<1>4. v.msm = l /\ v.ms = l
  BY <1>1 DEF LinkManager
<1>5. v.ps = t.ps /\ v.psm = t.psm /\ v.ls = t.ls /\ v.lsm = t.lsm
  BY <1>1 DEF LinkManager
<1>6. v.posted = t.posted /\ t.posted \in [Events -> Nat]
  BY <1>1 DEF LinkManager
<1>7. Kept(t, v)
  BY <1>1, <1>3, <1>4, <1>5, <1>6 DEF Kept
<1>8. enterMuxState(t, l) = v
  BY <1>1 DEF enterMuxState, LinkManager
<1> QED BY <1>7, <1>8, KeptTrans

\* The same for the link.
LEMMA enterLinkStateKept ==
  ASSUME NEW s, NEW t, Kept(s, t), NEW l \in LinkLabels
  PROVE  Kept(s, enterLinkState(t, l))
<1> DEFINE u == [t EXCEPT !.lsm = l]
           v == [u EXCEPT !.ls = l]
<1>1. t \in LinkManager
  BY KeptTypes
<1>2. u \in LinkManager
  BY <1>1 DEF LinkManager
<1>3. v \in LinkManager
  BY <1>2 DEF LinkManager
<1>4. v.lsm = l /\ v.ls = l
  BY <1>1 DEF LinkManager
<1>5. v.ps = t.ps /\ v.psm = t.psm /\ v.ms = t.ms /\ v.msm = t.msm
  BY <1>1 DEF LinkManager
<1>6. v.posted = t.posted /\ t.posted \in [Events -> Nat]
  BY <1>1 DEF LinkManager
<1>7. Kept(t, v)
  BY <1>1, <1>3, <1>4, <1>5, <1>6 DEF Kept
<1>8. enterLinkState(t, l) = v
  BY <1>1 DEF enterLinkState, LinkManager
<1> QED BY <1>7, <1>8, KeptTrans

\* Probing the mux keeps.
LEMMA enterMuxWaitStateKept ==
  ASSUME NEW s, NEW t, Kept(s, t)
  PROVE  Kept(s, enterMuxWaitState(t))
<1> DEFINE m == enterMuxState(t, "Wait")
<1>1. Kept(s, m)
  BY enterMuxStateKept DEF MuxLabels
<1> HIDE DEF m
<1>2. Kept(s, [m EXCEPT !.cause = "DriverUpdate"])
  BY <1>1, FieldKept
<1>3. Kept(s, Arm([m EXCEPT !.cause = "DriverUpdate"], "wait"))
  BY <1>2, ArmKept DEF Timers
<1> QED BY <1>3 DEF enterMuxWaitState, startMuxWaitTimer, m

\* Asking orchagent for a direction keeps.
LEMMA SwitchedKept ==
  ASSUME NEW s, NEW t, Kept(s, t),
         NEW c \in SwitchCauses, NEW l \in {"Active", "Standby"}
  PROVE  Kept(s, Switched(t, c, l))
<1> DEFINE m == enterMuxState(t, "Wait")
<1>1. Kept(s, m)
  BY enterMuxStateKept DEF MuxLabels
<1> HIDE DEF m
<1> DEFINE odd == (l # "Active") /\ m.waitActiveOdd
           asked == [label |-> l, cause |-> c]
           m1 == [m EXCEPT !.waitActiveOdd = odd]
           m2 == [m1 EXCEPT !.lastSet = l]
           m3 == [m2 EXCEPT !.cause = "SwssUpdate"]
           m4 == [m3 EXCEPT !.request = asked]
<1>2. m \in LinkManager
  BY <1>1, KeptTypes
<1>3. odd \in BOOLEAN
  OBVIOUS
<1>4. asked \in Requests
  BY DEF Requests
<1>5. l \in MuxLabels
  BY DEF MuxLabels
<1>6. m4 = [m EXCEPT !.waitActiveOdd = (l # "Active") /\ @,
                     !.lastSet = l,
                     !.cause = "SwssUpdate",
                     !.request = [label |-> l, cause |-> c]]
  BY <1>2 DEF LinkManager
<1> HIDE DEF odd, asked
<1>7. Kept(s, m1)
  BY <1>1, <1>3, FieldKept
<1> HIDE DEF m1
<1>8. Kept(s, m2)
  BY <1>7, <1>5, FieldKept
<1> HIDE DEF m2
<1>9. Kept(s, m3)
  BY <1>8, FieldKept
<1> HIDE DEF m3
<1>10. Kept(s, m4)
  BY <1>9, <1>4, FieldKept
<1> HIDE DEF m4
<1>11. Kept(s, Arm(Disarm(m4, "deadline"), "wait"))
  BY <1>10, ArmKept DEF Timers
<1> QED BY <1>6, <1>11 DEF Switched, startMuxWaitTimer, m

\* switchMuxState keeps, in auto mode and in the others.
LEMMA switchMuxStateKept ==
  ASSUME NEW s, NEW t, Kept(s, t), NEW forceSwitch \in BOOLEAN,
         NEW c \in SwitchCauses, NEW l \in {"Active", "Standby"}
  PROVE  Kept(s, switchMuxState(t, c, l, forceSwitch))
BY SwitchedKept, enterMuxWaitStateKept DEF switchMuxState

\* Sending the switch command to the peer keeps.
LEMMA sendPeerSwitchCommandKept ==
  ASSUME NEW s, NEW t, Kept(s, t)
  PROVE  Kept(s, sendPeerSwitchCommand(t))
<1>1. <<"SwitchActiveCommandCompletion", "None">> \in Events
  BY DEF Events, Completions
<1> QED BY <1>1, PostKept DEF sendPeerSwitchCommand

\* Starting and cancelling the oscillation timer keep.
LEMMA OscillationKept ==
  ASSUME NEW s, NEW t, Kept(s, t)
  PROVE  /\ Kept(s, startOscillationTimer(t))
         /\ Kept(s, tryCancelOscillationTimerIfAlive(t))
<1>1. <<"OscillationAborted", "None">> \in Events /\ "oscillation" \in Timers
  BY DEF Events, Completions, Timers
<1> DEFINE d == Disarm(t, "oscillation")
           a == AbortOscillation(t)
           o == Arm(a, "oscillation")
<1>2. Kept(s, d)
  BY <1>1, ArmKept
<1> HIDE DEF d
<1>3. Kept(s, Post(d, <<"OscillationAborted", "None">>))
  BY <1>1, <1>2, PostKept
<1>4. Kept(s, a)
  BY <1>3 DEF AbortOscillation, d
<1> HIDE DEF a
<1>5. Kept(s, o)
  BY <1>1, <1>4, ArmKept
<1> HIDE DEF o
<1>6. Kept(s, [a EXCEPT !.alive = FALSE]) /\ Kept(s, [o EXCEPT !.alive = TRUE])
  BY <1>4, <1>5, FieldKept
<1> QED
  BY <1>6 DEF startOscillationTimer, tryCancelOscillationTimerIfAlive, a, o

\* Initializing the prober from the mux state yields a state of the prober
\* for every state of the mux, Error included.
LEMMA initLinkProberStateKept ==
  ASSUME NEW s, NEW t, Kept(s, t)
  PROVE  Kept(s, initLinkProberState(t))
<1> DEFINE l == IF t.ms = "Error" THEN "Wait" ELSE t.ms
<1>1. t.ms \in MuxLabels
  BY KeptTypes DEF LinkManager
<1>2. l \in ProberLabels
  BY <1>1 DEF MuxLabels, ProberLabels
<1> HIDE DEF l
<1>3. Kept(s, enterLinkProberState(t, l))
  BY <1>2, enterLinkProberStateKept
<1> QED BY <1>3 DEF initLinkProberState, l

\* Publishing the label keeps.
LEMMA updateMuxLinkmgrStateKept ==
  ASSUME NEW s, NEW t, Kept(s, t)
  PROVE  Kept(s, updateMuxLinkmgrState(t))
<1> DEFINE l == IF Healthy(t) THEN "Healthy" ELSE "Unhealthy"
<1>1. l \in {"Uninitialized", "Unhealthy", "Healthy"}
  OBVIOUS
<1> HIDE DEF l
<1>2. Kept(s, [t EXCEPT !.label = l])
  BY <1>1, FieldKept
<1> QED BY <1>2 DEF updateMuxLinkmgrState, l

\* Shutting heartbeats down and restarting them keep.
LEMMA shutdownOrRestartKept ==
  ASSUME NEW s, NEW t, Kept(s, t)
  PROVE  Kept(s, shutdownOrRestartLinkProberOnDefaultRoute(t))
<1> DEFINE b == t.mode \in {"Auto", "Standby"} /\ t.route = "NA"
<1>1. b \in BOOLEAN
  OBVIOUS
<1> HIDE DEF b
<1>2. Kept(s, [t EXCEPT !.shutdown = b])
  BY <1>1, FieldKept
<1> QED BY <1>2 DEF shutdownOrRestartLinkProberOnDefaultRoute, b

\* activateStateMachine keeps, whether or not all components are there.
LEMMA activateStateMachineKept ==
  ASSUME NEW s, NEW t, Kept(s, t)
  PROVE  Kept(s, activateStateMachine(t))
<1> DEFINE i == initLinkProberState(t)
           r == IF DefaultRouteFeature
                THEN shutdownOrRestartLinkProberOnDefaultRoute(i) ELSE i
<1>1. Kept(s, i)
  BY initLinkProberStateKept
<1> HIDE DEF i
<1>2. Kept(s, r)
  BY <1>1, shutdownOrRestartKept
<1> HIDE DEF r
<1>3. Kept(s, updateMuxLinkmgrState(r))
  BY <1>2, updateMuxLinkmgrStateKept
<1> QED BY <1>3 DEF activateStateMachine, i, r

\* The probe timer and the suspension of heartbeats keep.
LEMMA SuspensionKept ==
  ASSUME NEW s, NEW t, Kept(s, t)
  PROVE  /\ Kept(s, startMuxProbeTimer(t))
         /\ Kept(s, suspendTxProbes(t))
         /\ Kept(s, resumeTxProbes(t))
         /\ Kept(s, Disarm(t, "deadline"))
BY ArmKept DEF startMuxProbeTimer, suspendTxProbes, resumeTxProbes, Timers

\* The entries for {Standby, Active, Up}, {Active, Standby, Up} and for a mux
\* in Error keep.
LEMMA InconsistentUpKept ==
  ASSUME NEW s, NEW t, Kept(s, t), NEW byProber \in BOOLEAN
  PROVE  Kept(s, InconsistentUp(t, byProber)) /\ Kept(s, ErrorUp(t, byProber))
BY enterMuxWaitStateKept, SuspensionKept DEF InconsistentUp, ErrorUp

\* The entry for {Unknown, Active, Up} keeps.
LEMMA UnknownActiveUpKept ==
  ASSUME NEW s, NEW t, Kept(s, t)
  PROVE  Kept(s, UnknownActiveUp(t))
<1>1. Kept(s, suspendTxProbes(t))
  BY SuspensionKept
<1> QED BY <1>1, FieldKept DEF UnknownActiveUp

\* The entry for {Unknown, Standby, Up} keeps, with a route and without.
LEMMA UnknownStandbyUpKept ==
  ASSUME NEW s, NEW t, Kept(s, t)
  PROVE  Kept(s, UnknownStandbyUp(t))
<1> DEFINE p == enterLinkProberState(t, "Wait")
           w == [p EXCEPT !.waitActiveOdd = FALSE]
<1>1. Kept(s, p)
  BY enterLinkProberStateKept DEF ProberLabels
<1> HIDE DEF p
<1>2. Kept(s, w)
  BY <1>1, FieldKept
<1> HIDE DEF w
<1>3. Kept(s, switchMuxState(w, "PeerHeartbeatMissing", "Active", FALSE))
  BY <1>2, switchMuxStateKept DEF SwitchCauses
<1>4. Kept(s, enterMuxWaitState(w))
  BY <1>2, enterMuxWaitStateKept
<1> QED BY <1>3, <1>4, SuspensionKept DEF UnknownStandbyUp, p, w

\* The counters of unanswered probes stay within their bound.
LEMMA CountType ==
  ASSUME NEW n \in 0 .. NegativeRetry + 1
  PROVE  Count(n) \in 0 .. NegativeRetry + 1
BY ConstantsAssumption DEF Count

\* The entries for {Active, Unknown, Up} and {Standby, Unknown, Up} keep.
LEMMA UnknownUpKept ==
  ASSUME NEW s, NEW t, Kept(s, t), NEW byProber \in BOOLEAN
  PROVE  Kept(s, ActiveUnknownUp(t)) /\ Kept(s, StandbyUnknownUp(t, byProber))
<1> DEFINE n == Count(t.activeUnknown)
           m == Count(t.standbyUnknown)
           a == [t EXCEPT !.activeUnknown = n]
           b == [t EXCEPT !.standbyUnknown = m]
<1>1. /\ t.activeUnknown \in 0 .. NegativeRetry + 1
      /\ t.standbyUnknown \in 0 .. NegativeRetry + 1
  BY KeptTypes DEF LinkManager
<1>2. n \in 0 .. NegativeRetry + 1 /\ m \in 0 .. NegativeRetry + 1
  BY <1>1, CountType
<1> HIDE DEF n, m
<1>3. Kept(s, a) /\ Kept(s, b)
  BY <1>2, FieldKept
<1> HIDE DEF a, b
<1>4. /\ Kept(s, switchMuxState(a, "HarewareStateUnknown", "Active", FALSE))
      /\ Kept(s, switchMuxState(b, "HarewareStateUnknown", "Standby", FALSE))
  BY <1>3, switchMuxStateKept DEF SwitchCauses
<1>5. /\ Kept(s, enterMuxWaitState(a)) /\ Kept(s, enterMuxWaitState(b))
      /\ Kept(s, startMuxProbeTimer(b))
  BY <1>3, enterMuxWaitStateKept, SuspensionKept
<1> QED BY <1>4, <1>5 DEF ActiveUnknownUp, StandbyUnknownUp, a, b, n, m

\* The entry for {Wait, Active, Up} keeps.
LEMMA WaitActiveUpKept ==
  ASSUME NEW s, NEW t, Kept(s, t)
  PROVE  Kept(s, WaitActiveUp(t))
<1> DEFINE p == startMuxProbeTimer(t)
           q == IF t.waitActiveOdd THEN suspendTxProbes(p) ELSE p
           odd == ~q.waitActiveOdd
           u == [q EXCEPT !.waitActiveOdd = odd]
<1>1. Kept(s, p)
  BY SuspensionKept
<1> HIDE DEF p
<1>2. Kept(s, q)
  BY <1>1, SuspensionKept
<1> HIDE DEF q
<1>3. odd \in BOOLEAN
  OBVIOUS
<1> HIDE DEF odd
<1>4. Kept(s, u)
  BY <1>2, <1>3, FieldKept
<1> HIDE DEF u
<1>5. Kept(s, startOscillationTimer(u))
  BY <1>4, OscillationKept
<1> QED BY <1>4, <1>5 DEF WaitActiveUp, p, q, odd, u

\* Every entry of mStateTransitionHandler keeps.
LEMMA TransitionFunctionKept ==
  ASSUME NEW s, NEW t, Kept(s, t), NEW byProber \in BOOLEAN
  PROVE  Kept(s, TransitionFunction(t, byProber))
<1>1. /\ Kept(s, InconsistentUp(t, byProber))
      /\ Kept(s, ErrorUp(t, byProber))
  BY InconsistentUpKept
<1>2. Kept(s, UnknownActiveUp(t)) /\ Kept(s, UnknownStandbyUp(t))
  BY UnknownActiveUpKept, UnknownStandbyUpKept
<1>3. Kept(s, ActiveUnknownUp(t)) /\ Kept(s, StandbyUnknownUp(t, byProber))
  BY UnknownUpKept
<1>4. Kept(s, WaitActiveUp(t)) /\ Kept(s, ProbeLater(t))
  BY WaitActiveUpKept, SuspensionKept DEF ProbeLater
<1> QED BY <1>1, <1>2, <1>3, <1>4 DEF TransitionFunction

\* Every branch of a mode change keeps.
LEMMA ApplyModeKept ==
  ASSUME NEW s, NEW t, Kept(s, t), NEW mode \in Modes
  PROVE  Kept(s, ApplyMode(t, mode))
<1> DEFINE p == enterLinkProberState(t, "Wait")
           a == switchMuxState(p, "ConfigMuxMode", "Active", FALSE)
           b == sendPeerSwitchCommand(t)
           c == switchMuxState(t, "LinkDown", "Standby", TRUE)
           d == startMuxProbeTimer(t)
<1>1. Kept(s, p)
  BY enterLinkProberStateKept DEF ProberLabels
<1> HIDE DEF p
<1>2. Kept(s, a)
  BY <1>1, switchMuxStateKept DEF SwitchCauses
<1>3. Kept(s, b) /\ Kept(s, d)
  BY sendPeerSwitchCommandKept, SuspensionKept
<1>4. Kept(s, c)
  BY switchMuxStateKept DEF SwitchCauses
<1> HIDE DEF a, b, c, d
<1>5. /\ Kept(s, updateMuxLinkmgrState(a)) /\ Kept(s, updateMuxLinkmgrState(b))
      /\ Kept(s, updateMuxLinkmgrState(c)) /\ Kept(s, updateMuxLinkmgrState(d))
  BY <1>2, <1>3, <1>4, updateMuxLinkmgrStateKept
<1>6. ApplyMode(t, mode) \in
        {t, updateMuxLinkmgrState(a), updateMuxLinkmgrState(b),
         updateMuxLinkmgrState(c), updateMuxLinkmgrState(d)}
  BY DEF ApplyMode, p, a, b, c, d
<1> QED BY <1>5, <1>6

\* handleMuxConfigNotification keeps, whether it postpones the mode or not.
LEMMA handleMuxConfigNotificationKept ==
  ASSUME NEW s, NEW t, Kept(s, t), NEW mode \in Modes
  PROVE  Kept(s, handleMuxConfigNotification(t, mode))
<1> DEFINE a == ApplyMode(t, mode)
           m == [a EXCEPT !.mode = mode]
<1>1. Kept(s, a)
  BY ApplyModeKept
<1> HIDE DEF a
<1>2. Kept(s, m)
  BY <1>1, FieldKept
<1> HIDE DEF m
<1>3. Kept(s, shutdownOrRestartLinkProberOnDefaultRoute(m))
  BY <1>2, shutdownOrRestartKept
<1>4. ASSUME mode \notin {"Auto", "Manual"}
      PROVE  Kept(s, [t EXCEPT !.pending = mode])
  <2>1. mode \in {"None", "Active", "Standby"}
    BY <1>4 DEF Modes
  <2> QED BY <2>1, FieldKept
<1> QED BY <1>3, <1>4 DEF handleMuxConfigNotification, a, m

\* The reports of the sub state machines are handlers of the strand.
LEMMA Reports ==
  /\ \A l \in Detected : <<"LinkProber", l>> \in Events
  /\ \A l \in Reported : /\ <<"MuxStateEvent", l>> \in Events
                         /\ <<"MuxState", l>> \in Events
  /\ \A l \in LinkLabels : /\ <<"LinkStateEvent", l>> \in Events
                           /\ <<"LinkState", l>> \in Events
BY DEF Events

\* A component neither copy of which changed is still covered by its report
\* when no handler left the strand.
LEMMA MoreIsCoherent ==
  ASSUME NEW s, NEW t, Coherent(s), s \in LinkManager, t \in LinkManager,
         \A e \in Events : t.posted[e] >= s.posted[e]
  PROVE  /\ t.ps = s.ps /\ t.psm = s.psm =>
              (t.ps # t.psm =>
                 t.psm \in Detected /\ t.posted[<<"LinkProber", t.psm>>] > 0)
         /\ t.ms = s.ms /\ t.msm = s.msm =>
              (t.ms # t.msm =>
                 t.msm \in Reported /\ t.posted[<<"MuxState", t.msm>>] > 0)
         /\ t.ls = s.ls /\ t.lsm = s.lsm =>
              (t.ls # t.lsm => t.posted[<<"LinkState", t.lsm>>] > 0)
<1>1. s.posted \in [Events -> Nat] /\ t.posted \in [Events -> Nat]
  BY DEF LinkManager
<1>2. \A e \in Events : s.posted[e] > 0 => t.posted[e] > 0
  BY <1>1
<1>3. s.lsm \in LinkLabels
  BY DEF LinkManager
<1> QED BY <1>2, <1>3, Reports DEF Coherent

\* What keeps is coherent when what it starts from is.
LEMMA KeptCoherent ==
  ASSUME NEW s, NEW t, Coherent(s), Kept(s, t)
  PROVE  t \in LinkManager /\ Coherent(t)
<1>1. s \in LinkManager /\ t \in LinkManager
  BY KeptTypes
<1> QED BY <1>1, MoreIsCoherent DEF Kept, Coherent

\* The inductive invariant.
IInv == lm \in LinkManager /\ Coherent(lm)

\* The object as a handler finds it satisfies the invariant.
LEMMA FoundCoherent ==
  ASSUME IInv
  PROVE  Found \in LinkManager /\ Coherent(Found)
<1>1. lm \in LinkManager /\ Coherent(lm)
  BY DEF IInv
<1>2. NoRequest \in Requests
  BY DEF Requests
<1>3. Kept(lm, Found)
  BY <1>1, <1>2, KeptRefl, FieldKept DEF Found
<1> QED BY <1>1, <1>3, KeptCoherent

\* Taking handler e off the strand changes nothing but the count of e.
LEMMA TakeIsCoherent ==
  ASSUME IInv, NEW e \in Events, lm.posted[e] > 0
  PROVE  /\ Take(e) \in LinkManager
         /\ \A x \in Events \ {e} : Take(e).posted[x] = lm.posted[x]
         /\ /\ Take(e).ps = lm.ps /\ Take(e).psm = lm.psm
            /\ Take(e).ms = lm.ms /\ Take(e).msm = lm.msm
            /\ Take(e).ls = lm.ls /\ Take(e).lsm = lm.lsm
<1>1. lm \in LinkManager
  BY DEF IInv
<1>2. NoRequest \in Requests
  BY DEF Requests
<1> DEFINE p == [lm.posted EXCEPT ![e] = @ - 1]
           t == [lm EXCEPT !.posted = p]
<1>3. lm.posted \in [Events -> Nat]
  BY <1>1 DEF LinkManager
<1>4. p \in [Events -> Nat] /\ \A x \in Events \ {e} : p[x] = lm.posted[x]
  BY <1>3
<1> HIDE DEF p
<1>5. t \in LinkManager
  BY <1>1, <1>4 DEF LinkManager
<1>6. Take(e) = [t EXCEPT !.request = NoRequest]
  BY <1>1 DEF Take, LinkManager, p
<1>7. [t EXCEPT !.request = NoRequest] \in LinkManager
  BY <1>2, <1>5 DEF LinkManager
<1>8. [t EXCEPT !.request = NoRequest].posted = p
  BY <1>1 DEF LinkManager
<1>9. LET u == [t EXCEPT !.request = NoRequest]
      IN  /\ u.ps = lm.ps /\ u.psm = lm.psm
          /\ u.ms = lm.ms /\ u.msm = lm.msm
          /\ u.ls = lm.ls /\ u.lsm = lm.lsm
  BY <1>1 DEF LinkManager
<1> QED BY <1>4, <1>6, <1>7, <1>8, <1>9

\* Taking a handler that is no report off the strand leaves the object coherent.
LEMMA TakeOther ==
  ASSUME IInv, NEW e \in Events, lm.posted[e] > 0,
         e[1] \notin {"LinkProber", "MuxState", "LinkState"}
  PROVE  Take(e) \in LinkManager /\ Coherent(Take(e))
<1>1. lm \in LinkManager /\ Coherent(lm)
  BY DEF IInv
<1>2. lm.lsm \in LinkLabels
  BY <1>1 DEF LinkManager
<1>3. \A k, l : <<k, l>>[1] = k
  OBVIOUS
<1>4. /\ \A l \in Detected : <<"LinkProber", l>> \in Events \ {e}
      /\ \A l \in Reported : <<"MuxState", l>> \in Events \ {e}
      /\ \A l \in LinkLabels : <<"LinkState", l>> \in Events \ {e}
  BY <1>3, Reports
<1> QED BY <1>1, <1>2, <1>4, TakeIsCoherent DEF Coherent

\* A prober state machine that moves and posts its report is covered by it.
LEMMA ProberReported ==
  ASSUME NEW s \in LinkManager, Coherent(s), NEW l \in Detected
  PROVE  LET t == Post([s EXCEPT !.psm = l], <<"LinkProber", l>>)
         IN  t \in LinkManager /\ Coherent(t)
<1> DEFINE d == [s EXCEPT !.psm = l]
           e == <<"LinkProber", l>>
           t == Post(d, e)
<1>1. l \in ProberLabels /\ e \in Events
  BY Reports DEF Detected, ProberLabels
<1>2. d \in LinkManager /\ d.posted = s.posted /\ d.psm = l
  BY <1>1 DEF LinkManager
<1>3. /\ d.ps = s.ps /\ d.ms = s.ms /\ d.msm = s.msm
      /\ d.ls = s.ls /\ d.lsm = s.lsm
  BY <1>1 DEF LinkManager
<1> HIDE DEF d
<1>4. Kept(d, t)
  BY <1>1, <1>2, KeptRefl, PostKept
<1>5. t \in LinkManager /\ \A x \in Events : t.posted[x] >= s.posted[x]
  BY <1>2, <1>4 DEF Kept
<1>6. /\ t.ps = d.ps /\ t.psm = d.psm /\ t.ms = d.ms /\ t.msm = d.msm
      /\ t.ls = d.ls /\ t.lsm = d.lsm
  BY <1>2 DEF Post, LinkManager
<1>7. t.posted[e] > 0
  BY <1>1, <1>2 DEF Post, LinkManager
<1> HIDE DEF t
<1>8. Coherent(t)
  BY <1>2, <1>3, <1>5, <1>6, <1>7, MoreIsCoherent DEF Coherent
<1> QED BY <1>5, <1>8 DEF t, d, e

\* The same for the mux state machine.
LEMMA MuxReported ==
  ASSUME NEW s \in LinkManager, Coherent(s), NEW l \in Reported
  PROVE  LET t == Post([s EXCEPT !.msm = l], <<"MuxState", l>>)
         IN  t \in LinkManager /\ Coherent(t)
<1> DEFINE d == [s EXCEPT !.msm = l]
           e == <<"MuxState", l>>
           t == Post(d, e)
<1>1. l \in MuxLabels /\ e \in Events
  BY Reports DEF Reported, MuxLabels
<1>2. d \in LinkManager /\ d.posted = s.posted /\ d.msm = l
  BY <1>1 DEF LinkManager
<1>3. /\ d.ps = s.ps /\ d.psm = s.psm /\ d.ms = s.ms
      /\ d.ls = s.ls /\ d.lsm = s.lsm
  BY <1>1 DEF LinkManager
<1> HIDE DEF d
<1>4. Kept(d, t)
  BY <1>1, <1>2, KeptRefl, PostKept
<1>5. t \in LinkManager /\ \A x \in Events : t.posted[x] >= s.posted[x]
  BY <1>2, <1>4 DEF Kept
<1>6. /\ t.ps = d.ps /\ t.psm = d.psm /\ t.ms = d.ms /\ t.msm = d.msm
      /\ t.ls = d.ls /\ t.lsm = d.lsm
  BY <1>2 DEF Post, LinkManager
<1>7. t.posted[e] > 0
  BY <1>1, <1>2 DEF Post, LinkManager
<1> HIDE DEF t
<1>8. Coherent(t)
  BY <1>2, <1>3, <1>5, <1>6, <1>7, MoreIsCoherent DEF Coherent
<1> QED BY <1>5, <1>8 DEF t, d, e

\* The same for the link state machine.
LEMMA LinkReported ==
  ASSUME NEW s \in LinkManager, Coherent(s), NEW l \in LinkLabels
  PROVE  LET t == Post([s EXCEPT !.lsm = l], <<"LinkState", l>>)
         IN  t \in LinkManager /\ Coherent(t)
<1> DEFINE d == [s EXCEPT !.lsm = l]
           e == <<"LinkState", l>>
           t == Post(d, e)
<1>1. l \in LinkLabels /\ e \in Events
  BY Reports DEF LinkLabels, LinkLabels
<1>2. d \in LinkManager /\ d.posted = s.posted /\ d.lsm = l
  BY <1>1 DEF LinkManager
<1>3. /\ d.ps = s.ps /\ d.psm = s.psm /\ d.ms = s.ms
      /\ d.msm = s.msm /\ d.ls = s.ls
  BY <1>1 DEF LinkManager
<1> HIDE DEF d
<1>4. Kept(d, t)
  BY <1>1, <1>2, KeptRefl, PostKept
<1>5. t \in LinkManager /\ \A x \in Events : t.posted[x] >= s.posted[x]
  BY <1>2, <1>4 DEF Kept
<1>6. /\ t.ps = d.ps /\ t.psm = d.psm /\ t.ms = d.ms /\ t.msm = d.msm
      /\ t.ls = d.ls /\ t.lsm = d.lsm
  BY <1>2 DEF Post, LinkManager
<1>7. t.posted[e] > 0
  BY <1>1, <1>2 DEF Post, LinkManager
<1> HIDE DEF t
<1>8. Coherent(t)
  BY <1>2, <1>3, <1>5, <1>6, <1>7, MoreIsCoherent DEF Coherent
<1> QED BY <1>5, <1>8 DEF t, d, e

\* A step that keeps preserves the invariant.
LEMMA StepKeeps ==
  ASSUME NEW s, NEW t, s \in LinkManager, Coherent(s), Kept(s, t), Step(t)
  PROVE  IInv'
BY KeptCoherent DEF Step, IInv

\* Taking a report of the prober off the strand: when the state machine is no
\* longer in the reported state another report covers the difference, and when
\* it is, storing the reported state removes it.
LEMMA ProberReportTaken ==
  ASSUME IInv, NEW l \in Detected, lm.posted[<<"LinkProber", l>>] > 0
  PROVE  LET s == Take(<<"LinkProber", l>>)
             c == [s EXCEPT !.ps = l]
         IN  /\ s \in LinkManager
             /\ s.psm # l => Coherent(s)
             /\ s.psm = l => c \in LinkManager /\ Coherent(c)
<1> DEFINE e == <<"LinkProber", l>>
           s == Take(e)
           c == [s EXCEPT !.ps = l]
<1>1. lm \in LinkManager /\ Coherent(lm)
  BY DEF IInv
<1>2. e \in Events /\ l \in ProberLabels
  BY Reports DEF Detected, ProberLabels
<1>3. /\ s \in LinkManager
      /\ \A x \in Events \ {e} : s.posted[x] = lm.posted[x]
      /\ s.ps = lm.ps /\ s.psm = lm.psm /\ s.ms = lm.ms /\ s.msm = lm.msm
      /\ s.ls = lm.ls /\ s.lsm = lm.lsm
  BY <1>2, TakeIsCoherent
<1> HIDE DEF s
<1>4. /\ \A x \in Reported : <<"MuxState", x>> \in Events \ {e}
      /\ \A x \in LinkLabels : <<"LinkState", x>> \in Events \ {e}
      /\ \A x \in Detected \ {l} : <<"LinkProber", x>> \in Events \ {e}
  BY Reports
<1> HIDE DEF e
<1>5. s.lsm \in LinkLabels
  BY <1>3 DEF LinkManager
<1>6. s.psm # l => Coherent(s)
  BY <1>1, <1>3, <1>4, <1>5 DEF Coherent
<1>7. c \in LinkManager /\ c.ps = l /\ c.psm = s.psm /\ c.posted = s.posted
  BY <1>2, <1>3 DEF LinkManager
<1>8. /\ c.ms = s.ms /\ c.msm = s.msm
      /\ c.ls = s.ls /\ c.lsm = s.lsm
  BY <1>3 DEF LinkManager
<1> HIDE DEF c
<1>9. s.psm = l => Coherent(c)
  BY <1>1, <1>3, <1>4, <1>5, <1>7, <1>8 DEF Coherent
<1> QED BY <1>3, <1>6, <1>7, <1>9 DEF c, s, e

\* The same for a report of the mux.
LEMMA MuxReportTaken ==
  ASSUME IInv, NEW l \in Reported, lm.posted[<<"MuxState", l>>] > 0
  PROVE  LET s == Take(<<"MuxState", l>>)
             c == [s EXCEPT !.ms = l]
         IN  /\ s \in LinkManager
             /\ s.msm # l => Coherent(s)
             /\ s.msm = l => c \in LinkManager /\ Coherent(c)
<1> DEFINE e == <<"MuxState", l>>
           s == Take(e)
           c == [s EXCEPT !.ms = l]
<1>1. lm \in LinkManager /\ Coherent(lm)
  BY DEF IInv
<1>2. e \in Events /\ l \in MuxLabels
  BY Reports DEF Reported, MuxLabels
<1>3. /\ s \in LinkManager
      /\ \A x \in Events \ {e} : s.posted[x] = lm.posted[x]
      /\ s.ps = lm.ps /\ s.psm = lm.psm /\ s.ms = lm.ms /\ s.msm = lm.msm
      /\ s.ls = lm.ls /\ s.lsm = lm.lsm
  BY <1>2, TakeIsCoherent
<1> HIDE DEF s
<1>4. /\ \A x \in Detected : <<"LinkProber", x>> \in Events \ {e}
      /\ \A x \in LinkLabels : <<"LinkState", x>> \in Events \ {e}
      /\ \A x \in Reported \ {l} : <<"MuxState", x>> \in Events \ {e}
  BY Reports
<1> HIDE DEF e
<1>5. s.lsm \in LinkLabels
  BY <1>3 DEF LinkManager
<1>6. s.msm # l => Coherent(s)
  BY <1>1, <1>3, <1>4, <1>5 DEF Coherent
<1>7. c \in LinkManager /\ c.ms = l /\ c.msm = s.msm /\ c.posted = s.posted
  BY <1>2, <1>3 DEF LinkManager
<1>8. /\ c.ps = s.ps /\ c.psm = s.psm
      /\ c.ls = s.ls /\ c.lsm = s.lsm
  BY <1>3 DEF LinkManager
<1> HIDE DEF c
<1>9. s.msm = l => Coherent(c)
  BY <1>1, <1>3, <1>4, <1>5, <1>7, <1>8 DEF Coherent
<1> QED BY <1>3, <1>6, <1>7, <1>9 DEF c, s, e

\* The same for a report of the link.
LEMMA LinkReportTaken ==
  ASSUME IInv, NEW l \in LinkLabels, lm.posted[<<"LinkState", l>>] > 0
  PROVE  LET s == Take(<<"LinkState", l>>)
             c == [s EXCEPT !.ls = l]
         IN  /\ s \in LinkManager
             /\ s.lsm # l => Coherent(s)
             /\ s.lsm = l => c \in LinkManager /\ Coherent(c)
<1> DEFINE e == <<"LinkState", l>>
           s == Take(e)
           c == [s EXCEPT !.ls = l]
<1>1. lm \in LinkManager /\ Coherent(lm)
  BY DEF IInv
<1>2. e \in Events /\ l \in LinkLabels
  BY Reports DEF LinkLabels, LinkLabels
<1>3. /\ s \in LinkManager
      /\ \A x \in Events \ {e} : s.posted[x] = lm.posted[x]
      /\ s.ps = lm.ps /\ s.psm = lm.psm /\ s.ms = lm.ms /\ s.msm = lm.msm
      /\ s.ls = lm.ls /\ s.lsm = lm.lsm
  BY <1>2, TakeIsCoherent
<1> HIDE DEF s
<1>4. /\ \A x \in Detected : <<"LinkProber", x>> \in Events \ {e}
      /\ \A x \in Reported : <<"MuxState", x>> \in Events \ {e}
      /\ \A x \in LinkLabels \ {l} : <<"LinkState", x>> \in Events \ {e}
  BY Reports
<1> HIDE DEF e
<1>5. s.lsm \in LinkLabels
  BY <1>3 DEF LinkManager
<1>6. s.lsm # l => Coherent(s)
  BY <1>1, <1>3, <1>4, <1>5 DEF Coherent
<1>7. c \in LinkManager /\ c.ls = l /\ c.lsm = s.lsm /\ c.posted = s.posted
  BY <1>2, <1>3 DEF LinkManager
<1>8. /\ c.ps = s.ps /\ c.psm = s.psm
      /\ c.ms = s.ms /\ c.msm = s.msm
  BY <1>3 DEF LinkManager
<1> HIDE DEF c
<1>9. s.lsm = l => Coherent(c)
  BY <1>1, <1>3, <1>4, <1>5, <1>7, <1>8 DEF Coherent
<1> QED BY <1>3, <1>6, <1>7, <1>9 DEF c, s, e

\* A reset counter is within its bound.
LEMMA ZeroCount == 0 \in 0 .. NegativeRetry + 1
BY ConstantsAssumption

\* Setting both counters of unanswered probes keeps.
LEMMA UnknownCountsKept ==
  ASSUME NEW s, NEW t, Kept(s, t),
         NEW n \in 0 .. NegativeRetry + 1, NEW m \in 0 .. NegativeRetry + 1
  PROVE  Kept(s, [t EXCEPT !.standbyUnknown = n, !.activeUnknown = m])
<1> DEFINE u == [t EXCEPT !.standbyUnknown = n]
<1>1. Kept(s, u)
  BY FieldKept
<1>2. [t EXCEPT !.standbyUnknown = n, !.activeUnknown = m]
        = [u EXCEPT !.activeUnknown = m]
  BY KeptTypes DEF LinkManager
<1> HIDE DEF u
<1>3. Kept(s, [u EXCEPT !.activeUnknown = m])
  BY <1>1, FieldKept
<1> QED BY <1>2, <1>3

\* handleStateChange of the link prober preserves the invariant, for a report
\* that is current and for one that is stale.
LEMMA LinkProberChangeCoherent ==
  ASSUME IInv, NEW l \in Detected, lm.posted[<<"LinkProber", l>>] > 0,
         Step(LinkProberChange(Take(<<"LinkProber", l>>), l))
  PROVE  IInv'
<1> DEFINE s == Take(<<"LinkProber", l>>)
           c == [s EXCEPT !.ps = l]
           x == IF l = "Active" THEN 0 ELSE s.standbyUnknown
           y == IF l = "Standby" THEN 0 ELSE s.activeUnknown
           t == [c EXCEPT !.standbyUnknown = x, !.activeUnknown = y]
           u == IF l \in {"Active", "Standby"}
                THEN tryCancelOscillationTimerIfAlive(t) ELSE t
           b == s.ps # l
           n == IF s.psm = l THEN TransitionFunction(u, b) ELSE s
           r == IF n.ps # "Unknown" THEN resumeTxProbes(n) ELSE n
           base == IF s.psm = l THEN c ELSE s
<1>1. /\ s \in LinkManager
      /\ s.psm # l => Coherent(s)
      /\ s.psm = l => c \in LinkManager /\ Coherent(c)
  BY ProberReportTaken
<1>2. base \in LinkManager /\ Coherent(base)
  BY <1>1
<1>3. LinkProberChange(s, l) = updateMuxLinkmgrState(r)
  <2>1. t = [s EXCEPT !.ps = l,
                      !.standbyUnknown = IF l = "Active" THEN 0 ELSE @,
                      !.activeUnknown = IF l = "Standby" THEN 0 ELSE @]
    BY <1>1 DEF LinkManager
  <2> HIDE DEF t
  <2> QED BY <2>1 DEF LinkProberChange
<1>4. x \in 0 .. NegativeRetry + 1 /\ y \in 0 .. NegativeRetry + 1
  BY <1>1, ConstantsAssumption DEF LinkManager
<1>5. b \in BOOLEAN
  OBVIOUS
<1>6. Step(LinkProberChange(s, l))
  OBVIOUS
<1> HIDE DEF s, x, y, b
<1>7. Kept(base, n)
  <2>1. CASE s.psm = l
    <3>1. Kept(base, c)
      BY <1>2, <2>1, KeptRefl
    <3> HIDE DEF base, c
    <3>2. Kept(base, t)
      BY <3>1, <1>4, UnknownCountsKept
    <3> HIDE DEF t
    <3>3. Kept(base, u)
      BY <3>2, OscillationKept
    <3> HIDE DEF u
    <3> QED BY <2>1, <3>3, <1>5, TransitionFunctionKept
  <2>2. CASE s.psm # l
    BY <1>2, <2>2, KeptRefl
  <2> QED BY <2>1, <2>2
<1> HIDE DEF n, base
<1>8. Kept(base, r)
  BY <1>7, SuspensionKept
<1> HIDE DEF r
<1>9. Kept(base, updateMuxLinkmgrState(r))
  BY <1>8, updateMuxLinkmgrStateKept
<1> QED BY <1>2, <1>3, <1>6, <1>9, StepKeeps

\* handleStateChange of the mux preserves the invariant: the transition
\* function, the read of STATE_DB and the postponed mode included.
LEMMA MuxStateChangeCoherent ==
  ASSUME IInv, NEW l \in Reported, lm.posted[<<"MuxState", l>>] > 0,
         Step(MuxStateChange(Take(<<"MuxState", l>>), l))
  PROVE  IInv'
<1> DEFINE s == Take(<<"MuxState", l>>)
           c == [s EXCEPT !.ms = l]
           n == IF s.msm = l THEN TransitionFunction(c, FALSE) ELSE s
           g == IF n.ms # "Wait" THEN Post(n, <<"GetMuxState", "None">>) ELSE n
           h == handleMuxConfigNotification(g, n.pending)
           p == IF n.ms # "Wait" /\ n.pending # "None"
                THEN [h EXCEPT !.pending = "None"] ELSE g
           z == [p EXCEPT !.standbyUnknown = 0, !.activeUnknown = 0]
           k == IF l # "Unknown" THEN z ELSE p
           r == IF l = "Standby" THEN tryCancelOscillationTimerIfAlive(k) ELSE k
           base == IF s.msm = l THEN c ELSE s
<1>1. /\ s \in LinkManager
      /\ s.msm # l => Coherent(s)
      /\ s.msm = l => c \in LinkManager /\ Coherent(c)
  BY MuxReportTaken
<1>2. base \in LinkManager /\ Coherent(base)
  BY <1>1
<1>3. Step(MuxStateChange(s, l))
  OBVIOUS
<1> HIDE DEF s
<1>4. Kept(base, n)
  <2>1. CASE s.msm = l
    <3>1. Kept(base, c)
      BY <1>2, <2>1, KeptRefl
    <3> HIDE DEF base, c
    <3> QED BY <2>1, <3>1, TransitionFunctionKept
  <2>2. CASE s.msm # l
    BY <1>2, <2>2, KeptRefl
  <2> QED BY <2>1, <2>2
<1> HIDE DEF base, n
<1>5. n.pending \in {"None", "Active", "Standby"}
  BY <1>4, KeptTypes DEF LinkManager
<1>6. MuxStateChange(s, l) = updateMuxLinkmgrState(r)
  BY DEF MuxStateChange, n
<1>7. Kept(base, g)
  <2>1. <<"GetMuxState", "None">> \in Events
    BY DEF Events, Completions
  <2> QED BY <1>4, <2>1, PostKept
<1> HIDE DEF g
<1>8. Kept(base, p)
  <2>1. CASE n.pending = "None"
    BY <1>7, <2>1
  <2>2. CASE n.pending # "None"
    <3>1. n.pending \in Modes
      BY <1>5, <2>2 DEF Modes
    <3>2. Kept(base, h)
      BY <1>7, <3>1, handleMuxConfigNotificationKept
    <3> HIDE DEF h
    <3> QED BY <1>7, <3>2, FieldKept
  <2> QED BY <2>1, <2>2
<1> HIDE DEF p
<1>9. Kept(base, k)
  BY <1>8, UnknownCountsKept, ZeroCount
<1> HIDE DEF k
<1>10. Kept(base, r)
  BY <1>9, OscillationKept
<1> HIDE DEF r
<1>11. Kept(base, updateMuxLinkmgrState(r))
  BY <1>10, updateMuxLinkmgrStateKept
<1> QED BY <1>2, <1>3, <1>6, <1>11, StepKeeps

\* The branch of a link that went down keeps.
LEMMA LinkWentDownKept ==
  ASSUME NEW s, NEW t, Kept(s, t)
  PROVE  Kept(s, LinkWentDown(t))
<1> DEFINE w == switchMuxState(t, "LinkDown", "Standby", FALSE)
           z == [w EXCEPT !.standbyUnknown = 0, !.activeUnknown = 0]
           o == [z EXCEPT !.waitActiveOdd = FALSE]
<1>1. Kept(s, w)
  BY switchMuxStateKept DEF SwitchCauses
<1> HIDE DEF w
<1>2. o = [w EXCEPT !.standbyUnknown = 0, !.activeUnknown = 0,
                    !.waitActiveOdd = FALSE]
  BY <1>1, KeptTypes DEF LinkManager
<1>3. Kept(s, z)
  BY <1>1, UnknownCountsKept, ZeroCount
<1> HIDE DEF z
<1>4. Kept(s, o)
  BY <1>3, FieldKept
<1> HIDE DEF o
<1> QED BY <1>2, <1>4, OscillationKept DEF LinkWentDown, w

\* handleStateChange of the link preserves the invariant.
LEMMA LinkStateChangeCoherent ==
  ASSUME IInv, NEW l \in LinkLabels, lm.posted[<<"LinkState", l>>] > 0,
         Step(LinkStateChange(Take(<<"LinkState", l>>), l))
  PROVE  IInv'
<1> DEFINE s == Take(<<"LinkState", l>>)
           c == [s EXCEPT !.ls = l]
           n == CASE s.ls = "Down" /\ l = "Up" -> initLinkProberState(c)
                  [] s.ls = "Up" /\ l = "Down" /\ s.ms # "Standby" ->
                       LinkWentDown(c)
                  [] OTHER -> TransitionFunction(c, FALSE)
           r == IF s.lsm = l THEN n ELSE s
           base == IF s.lsm = l THEN c ELSE s
<1>1. /\ s \in LinkManager
      /\ s.lsm # l => Coherent(s)
      /\ s.lsm = l => c \in LinkManager /\ Coherent(c)
  BY LinkReportTaken
<1>2. base \in LinkManager /\ Coherent(base)
  BY <1>1
<1>3. Step(LinkStateChange(s, l))
  OBVIOUS
<1>4. LinkStateChange(s, l) = updateMuxLinkmgrState(r)
  BY DEF LinkStateChange
<1> HIDE DEF s
<1>5. Kept(base, r)
  <2>1. CASE s.lsm = l
    <3>1. Kept(base, c)
      BY <1>2, <2>1, KeptRefl
    <3> HIDE DEF base, c
    <3>2. /\ Kept(base, initLinkProberState(c)) /\ Kept(base, LinkWentDown(c))
          /\ Kept(base, TransitionFunction(c, FALSE))
      BY <3>1, initLinkProberStateKept, LinkWentDownKept, TransitionFunctionKept
    <3> QED BY <2>1, <3>2
  <2>2. CASE s.lsm # l
    BY <1>2, <2>2, KeptRefl
  <2> QED BY <2>1, <2>2
<1> HIDE DEF r, base
<1>6. Kept(base, updateMuxLinkmgrState(r))
  BY <1>5, updateMuxLinkmgrStateKept
<1> QED BY <1>2, <1>3, <1>4, <1>6, StepKeeps

\* Marking a component as initialized keeps.
LEMMA InitGrowsKept ==
  ASSUME NEW s, NEW t, Kept(s, t), NEW c \in Components
  PROVE  Kept(s, [t EXCEPT !.init = @ \cup {c}])
<1> DEFINE i == t.init \cup {c}
<1>1. i \in SUBSET Components
  BY KeptTypes DEF LinkManager
<1> HIDE DEF i
<1>2. Kept(s, [t EXCEPT !.init = i])
  BY <1>1, FieldKept
<1> QED BY <1>2 DEF i

\* A mux state from orchagent preserves the invariant, before and after the
\* port is activated.
LEMMA handleMuxStateNotificationCoherent ==
  ASSUME IInv, NEW l \in SwssReports, handleMuxStateNotification(l)
  PROVE  IInv'
<1> DEFINE s == Disarm(Found, "wait")
           m == enterMuxState(s, l)
           i == [m EXCEPT !.init = @ \cup {"MuxState"}]
<1>1. Found \in LinkManager /\ Coherent(Found)
  BY FoundCoherent
<1>2. l \in Reported /\ l \in MuxLabels
  BY ConstantsAssumption DEF Reported
<1>3. Kept(Found, s)
  BY <1>1, KeptRefl, ArmKept DEF Timers
<1> HIDE DEF s
<1>4. Kept(Found, Post(s, <<"MuxStateEvent", l>>))
  BY <1>2, <1>3, Reports, PostKept
<1>5. Kept(Found, enterMuxWaitState(s))
  BY <1>3, enterMuxWaitStateKept
<1>6. Kept(Found, m)
  BY <1>2, <1>3, enterMuxStateKept
<1> HIDE DEF m
<1>7. Kept(Found, i)
  BY <1>6, InitGrowsKept DEF Components
<1> HIDE DEF i
<1>8. Kept(Found, activateStateMachine(i))
  BY <1>7, activateStateMachineKept
<1>9. \/ Step(Post(s, <<"MuxStateEvent", l>>)) \/ Step(enterMuxWaitState(s))
      \/ Step(activateStateMachine(i))
  BY DEF handleMuxStateNotification, s, m, i
<1> QED BY <1>1, <1>4, <1>5, <1>8, <1>9, StepKeeps

\* The answer of xcvrd to a probe preserves the invariant.
LEMMA handleProbeMuxStateNotificationCoherent ==
  ASSUME IInv, NEW l \in XcvrdReports, handleProbeMuxStateNotification(l)
  PROVE  IInv'
<1> DEFINE s == Disarm(Found, "wait")
           w == enterMuxState(s, "Wait")
           c == [w EXCEPT !.cause = "SwssUpdate"]
           asked == [label |-> l, cause |-> "Initialization"]
           q == [c EXCEPT !.request = asked]
           m == enterMuxState(s, l)
           i == [m EXCEPT !.init = @ \cup {"MuxState"}]
<1>1. Found \in LinkManager /\ Coherent(Found)
  BY FoundCoherent
<1>2. l \in Reported /\ l \in MuxLabels
  BY ConstantsAssumption DEF Reported, MuxLabels
<1>3. Kept(Found, s)
  BY <1>1, KeptRefl, ArmKept DEF Timers
<1>4. l # "Unknown" => asked \in Requests
  BY ConstantsAssumption DEF Requests
<1> HIDE DEF s, asked
<1>5. Kept(Found, Post(s, <<"MuxStateEvent", l>>))
  BY <1>2, <1>3, Reports, PostKept
<1>6. Kept(Found, m) /\ Kept(Found, w)
  BY <1>2, <1>3, enterMuxStateKept DEF MuxLabels
<1> HIDE DEF m, w
<1>7. Kept(Found, i)
  BY <1>6, InitGrowsKept DEF Components
<1> HIDE DEF i
<1>8. Kept(Found, activateStateMachine(i))
  BY <1>7, activateStateMachineKept
<1>9. q = [w EXCEPT !.cause = "SwssUpdate", !.request = asked]
  BY <1>6, KeptTypes DEF LinkManager
<1>10. Kept(Found, c)
  BY <1>6, FieldKept
<1> HIDE DEF c
<1>11. l # "Unknown" => Kept(Found, q)
  BY <1>4, <1>10, FieldKept
<1> HIDE DEF q
<1>12. \/ Step(Post(s, <<"MuxStateEvent", l>>))
       \/ l # "Unknown" /\ Step(q)
       \/ Step(activateStateMachine(i))
  BY <1>9 DEF handleProbeMuxStateNotification, s, m, i, w, asked
<1> QED BY <1>1, <1>5, <1>8, <1>11, <1>12, StepKeeps

\* Link states of the port and of its peer preserve the invariant.
LEMMA LinkNotificationCoherent ==
  ASSUME IInv, NEW l \in LinkLabels
  PROVE  /\ handleSwssLinkStateNotification(l) => IInv'
         /\ handlePeerLinkStateNotification(l) => IInv'
<1> DEFINE m == enterLinkState(Found, l)
           i == [m EXCEPT !.init = @ \cup {"LinkState"}]
           p == enterLinkProberState(Found, "Wait")
<1>1. Found \in LinkManager /\ Coherent(Found)
  BY FoundCoherent
<1>2. Kept(Found, Found)
  BY <1>1, KeptRefl
<1>3. Kept(Found, Post(Found, <<"LinkStateEvent", l>>))
  BY <1>2, Reports, PostKept
<1>4. Kept(Found, m) /\ Kept(Found, p)
  BY <1>2, enterLinkStateKept, enterLinkProberStateKept DEF ProberLabels
<1> HIDE DEF m, p
<1>5. Kept(Found, i)
  BY <1>4, InitGrowsKept DEF Components
<1> HIDE DEF i
<1>6. Kept(Found, activateStateMachine(i))
  BY <1>5, activateStateMachineKept
<1>7. Kept(Found, switchMuxState(p, "PeerLinkDown", "Active", FALSE))
  BY <1>4, switchMuxStateKept DEF SwitchCauses
<1>8. handleSwssLinkStateNotification(l) =>
        \/ Step(Post(Found, <<"LinkStateEvent", l>>))
        \/ Step(activateStateMachine(i))
  BY DEF handleSwssLinkStateNotification, m, i
<1>9. handlePeerLinkStateNotification(l) =>
        \/ Step(switchMuxState(p, "PeerLinkDown", "Active", FALSE))
        \/ Step(p) \/ Step(Found)
  BY DEF handlePeerLinkStateNotification, p
<1> QED BY <1>1, <1>2, <1>3, <1>4, <1>6, <1>7, <1>8, <1>9, StepKeeps

\* The server address and a mux mode preserve the invariant.
LEMMA ConfigurationCoherent ==
  ASSUME IInv
  PROVE  /\ handleSwssBladeIpv4AddressUpdate => IInv'
         /\ \A mode \in ConfigModes : handleMuxConfig(mode) => IInv'
<1> DEFINE i == [Found EXCEPT !.init = @ \cup {"LinkProber"}]
<1>1. Found \in LinkManager /\ Coherent(Found)
  BY FoundCoherent
<1>2. Kept(Found, Found)
  BY <1>1, KeptRefl
<1>3. Kept(Found, i)
  BY <1>2, InitGrowsKept DEF Components
<1> HIDE DEF i
<1>4. Kept(Found, activateStateMachine(i))
  BY <1>3, activateStateMachineKept
<1>5. handleSwssBladeIpv4AddressUpdate => Step(activateStateMachine(i))
  BY DEF handleSwssBladeIpv4AddressUpdate, i
<1>6. ASSUME NEW mode \in ConfigModes, handleMuxConfig(mode)
      PROVE  IInv'
  <2>1. mode \in Modes
    BY ConstantsAssumption
  <2>2. Kept(Found, handleMuxConfigNotification(Found, mode))
    BY <1>2, <2>1, handleMuxConfigNotificationKept
  <2>3. Step(handleMuxConfigNotification(Found, mode))
    BY <1>6 DEF handleMuxConfig
  <2> QED BY <1>1, <2>2, <2>3, StepKeeps
<1> QED BY <1>1, <1>4, <1>5, <1>6, StepKeeps

\* A default route state preserves the invariant.
LEMMA handleDefaultRouteStateNotificationCoherent ==
  ASSUME IInv, NEW r \in RouteReports, handleDefaultRouteStateNotification(r)
  PROVE  IInv'
<1> DEFINE p == IF lm.route = "NA" /\ r = "OK"
                THEN initLinkProberState(Found) ELSE Found
           q == [p EXCEPT !.route = r]
           d == shutdownOrRestartLinkProberOnDefaultRoute(q)
           u == updateMuxLinkmgrState(d)
<1>1. Found \in LinkManager /\ Coherent(Found)
  BY FoundCoherent
<1>2. Step(u)
  BY DEF handleDefaultRouteStateNotification
<1>3. r \in Routes
  BY ConstantsAssumption DEF Routes
<1>4. Kept(Found, p)
  BY <1>1, KeptRefl, initLinkProberStateKept
<1> HIDE DEF p
<1>5. Kept(Found, q)
  BY <1>3, <1>4, FieldKept
<1> HIDE DEF q
<1>6. Kept(Found, d)
  BY <1>5, shutdownOrRestartKept
<1> HIDE DEF d
<1>7. Kept(Found, u)
  BY <1>6, updateMuxLinkmgrStateKept
<1> QED BY <1>1, <1>2, <1>7, StepKeeps

\* The switch command of the peer and the reset of the suspension preserve
\* the invariant.
LEMMA PeerCommandCoherent ==
  ASSUME IInv
  PROVE  /\ handleSwitchActiveRequestEvent => IInv'
         /\ handleResetSuspendTimer => IInv'
<1> DEFINE p == enterLinkProberState(Found, "Wait")
           w == switchMuxState(p, "TlvSwitchActiveCommand", "Active", FALSE)
<1>1. Found \in LinkManager /\ Coherent(Found)
  BY FoundCoherent
<1>2. Kept(Found, Found) /\ Kept(Found, resumeTxProbes(Found))
  BY <1>1, KeptRefl, SuspensionKept
<1>3. Kept(Found, p)
  BY <1>2, enterLinkProberStateKept DEF ProberLabels
<1> HIDE DEF p
<1>4. Kept(Found, w)
  BY <1>3, switchMuxStateKept DEF SwitchCauses
<1>5. handleSwitchActiveRequestEvent => Step(w) \/ Step(Found)
  BY DEF handleSwitchActiveRequestEvent, p
<1>6. handleResetSuspendTimer => Step(resumeTxProbes(Found)) \/ Step(Found)
  BY DEF handleResetSuspendTimer
<1> QED BY <1>1, <1>2, <1>4, <1>5, <1>6, StepKeeps

\* What the prober detects and the expiry of a timer preserve the invariant.
LEMMA ProberAndTimersCoherent ==
  ASSUME IInv
  PROVE  /\ \A l \in Heartbeats : ProberDetects(l) => IInv'
         /\ \A r \in Timers : TimerExpires(r) => IInv'
<1>1. Found \in LinkManager /\ Coherent(Found)
  BY FoundCoherent
<1>2. ASSUME NEW l \in Heartbeats, ProberDetects(l)
      PROVE  IInv'
  <2>1. l \in Detected
    BY ConstantsAssumption DEF Detected
  <2> QED BY <1>1, <1>2, <2>1, ProberReported DEF ProberDetects, Step, IInv
<1>3. ASSUME NEW r \in Timers, TimerExpires(r)
      PROVE  IInv'
  <2> DEFINE d == Disarm(Found, r)
             t == Post(d, <<Completion[r], "None">>)
  <2>1. Kept(Found, d)
    BY <1>1, KeptRefl, ArmKept
  <2>2. <<Completion[r], "None">> \in Events
    BY DEF Completion, Timers, Events, Completions
  <2>3. Step(t)
    BY <1>3 DEF TimerExpires
  <2> HIDE DEF d
  <2>4. Kept(Found, t)
    BY <2>1, <2>2, PostKept
  <2> QED BY <1>1, <2>3, <2>4, StepKeeps
<1> QED BY <1>2, <1>3

\* processEvent of the mux and of the link preserves the invariant.
LEMMA EventCoherent ==
  ASSUME IInv
  PROVE  /\ \A l \in Reported : MuxStateEvent(l) => IInv'
         /\ \A l \in LinkLabels : LinkStateEvent(l) => IInv'
<1>1. ASSUME NEW l \in Reported, MuxStateEvent(l)
      PROVE  IInv'
  <2> DEFINE e == <<"MuxStateEvent", l>>
             s == Take(e)
             t == Post([s EXCEPT !.msm = l], <<"MuxState", l>>)
  <2>1. e \in Events /\ lm.posted[e] > 0 /\ (Step(s) \/ Step(t))
    BY <1>1, Reports DEF MuxStateEvent, Run
  <2>2. e[1] \notin {"LinkProber", "MuxState", "LinkState"}
    OBVIOUS
  <2>3. s \in LinkManager /\ Coherent(s)
    BY <2>1, <2>2, TakeOther
  <2> HIDE DEF s
  <2>4. t \in LinkManager /\ Coherent(t)
    BY <2>3, MuxReported
  <2> QED BY <2>1, <2>3, <2>4 DEF Step, IInv
<1>2. ASSUME NEW l \in LinkLabels, LinkStateEvent(l)
      PROVE  IInv'
  <2> DEFINE e == <<"LinkStateEvent", l>>
             s == Take(e)
             t == Post([s EXCEPT !.lsm = l], <<"LinkState", l>>)
  <2>1. e \in Events /\ lm.posted[e] > 0 /\ (Step(s) \/ Step(t))
    BY <1>2, Reports DEF LinkStateEvent, Run
  <2>2. e[1] \notin {"LinkProber", "MuxState", "LinkState"}
    OBVIOUS
  <2>3. s \in LinkManager /\ Coherent(s)
    BY <2>1, <2>2, TakeOther
  <2> HIDE DEF s
  <2>4. t \in LinkManager /\ Coherent(t)
    BY <2>3, LinkReported
  <2> QED BY <2>1, <2>3, <2>4 DEF Step, IInv
<1> QED BY <1>1, <1>2

\* Taking a completion off the strand leaves the object coherent.
LEMMA CompletionTaken ==
  ASSUME IInv, NEW k \in Completions, lm.posted[<<k, "None">>] > 0
  PROVE  LET s == Take(<<k, "None">>)
         IN  s \in LinkManager /\ Coherent(s) /\ Kept(s, s)
<1>1. <<k, "None">> \in Events
  BY DEF Events
<1>2. <<k, "None">>[1] \notin {"LinkProber", "MuxState", "LinkState"}
  BY DEF Completions
<1> QED BY <1>1, <1>2, TakeOther, KeptRefl

\* The value read from STATE_DB preserves the invariant.
LEMMA handleGetMuxStateNotificationCoherent ==
  ASSUME IInv, NEW l \in SwssReports, handleGetMuxStateNotification(l)
  PROVE  IInv'
<1> DEFINE s == Take(<<"GetMuxState", "None">>)
           w == switchMuxState(s, "MatchingHardwareState", s.ms, TRUE)
<1>1. lm.posted[<<"GetMuxState", "None">>] > 0
  BY DEF handleGetMuxStateNotification, Run
<1>2. s \in LinkManager /\ Coherent(s) /\ Kept(s, s)
  BY <1>1, CompletionTaken DEF Completions
<1>3. Step(s) \/ (s.ms \in {"Active", "Standby"} /\ Step(w))
  BY DEF handleGetMuxStateNotification, Run
<1> HIDE DEF s
<1>4. s.ms \in {"Active", "Standby"} => Kept(s, w)
  BY <1>2, switchMuxStateKept DEF SwitchCauses
<1> QED BY <1>2, <1>3, <1>4, StepKeeps

\* The end of a suspension preserves the invariant.
LEMMA handleSuspendTimerExpiryCoherent ==
  ASSUME IInv, handleSuspendTimerExpiry
  PROVE  IInv'
<1> DEFINE s == Take(<<"SuspendTimerExpiry", "None">>)
<1>1. lm.posted[<<"SuspendTimerExpiry", "None">>] > 0
  BY DEF handleSuspendTimerExpiry, Run
<1>2. s \in LinkManager /\ Coherent(s) /\ Kept(s, s)
  BY <1>1, CompletionTaken DEF Completions
<1>3. Step(s) \/ Step(enterMuxWaitState(s))
  BY DEF handleSuspendTimerExpiry, Run
<1> HIDE DEF s
<1>4. Kept(s, enterMuxWaitState(s))
  BY <1>2, enterMuxWaitStateKept
<1> QED BY <1>2, <1>3, <1>4, StepKeeps

\* The probe timeout preserves the invariant.
LEMMA handleMuxProbeTimeoutCoherent ==
  ASSUME IInv, handleMuxProbeTimeout
  PROVE  IInv'
<1> DEFINE s == Take(<<"MuxProbeTimeout", "None">>)
<1>1. lm.posted[<<"MuxProbeTimeout", "None">>] > 0
  BY DEF handleMuxProbeTimeout, Run
<1>2. s \in LinkManager /\ Coherent(s) /\ Kept(s, s)
  BY <1>1, CompletionTaken DEF Completions
<1>3. Step(s) \/ Step(enterMuxWaitState(s))
  BY DEF handleMuxProbeTimeout, Run
<1> HIDE DEF s
<1>4. Kept(s, enterMuxWaitState(s))
  BY <1>2, enterMuxWaitStateKept
<1> QED BY <1>2, <1>3, <1>4, StepKeeps

\* The wait timeout preserves the invariant.
LEMMA handleMuxWaitTimeoutCoherent ==
  ASSUME IInv, handleMuxWaitTimeout
  PROVE  IInv'
<1> DEFINE s == Take(<<"MuxWaitTimeout", "None">>)
<1>1. lm.posted[<<"MuxWaitTimeout", "None">>] > 0
  BY DEF handleMuxWaitTimeout, Run
<1>2. s \in LinkManager /\ Coherent(s) /\ Kept(s, s)
  BY <1>1, CompletionTaken DEF Completions
<1>3. Step(s) \/ Step(sendPeerSwitchCommand(s))
  BY DEF handleMuxWaitTimeout, Run
<1> HIDE DEF s
<1>4. Kept(s, sendPeerSwitchCommand(s))
  BY <1>2, sendPeerSwitchCommandKept
<1> QED BY <1>2, <1>3, <1>4, StepKeeps

\* The completion of the peer command preserves the invariant.
LEMMA handleSwitchActiveCommandCompletionCoherent ==
  ASSUME IInv, handleSwitchActiveCommandCompletion
  PROVE  IInv'
<1> DEFINE s == Take(<<"SwitchActiveCommandCompletion", "None">>)
           p == enterLinkProberState(s, "Wait")
           w == switchMuxState(p, "PeerCommandSent", "Standby", TRUE)
<1>1. lm.posted[<<"SwitchActiveCommandCompletion", "None">>] > 0
  BY DEF handleSwitchActiveCommandCompletion, Run
<1>2. s \in LinkManager /\ Coherent(s) /\ Kept(s, s)
  BY <1>1, CompletionTaken DEF Completions
<1>3. Step(s) \/ Step(w)
  BY DEF handleSwitchActiveCommandCompletion, Run
<1> HIDE DEF s
<1>4. Kept(s, p)
  BY <1>2, enterLinkProberStateKept DEF ProberLabels
<1> HIDE DEF p
<1>5. Kept(s, w)
  BY <1>4, switchMuxStateKept DEF SwitchCauses
<1> QED BY <1>2, <1>3, <1>5, StepKeeps

\* The oscillation timeout preserves the invariant.
LEMMA handleOscillationTimeoutCoherent ==
  ASSUME IInv, handleOscillationTimeout
  PROVE  IInv'
<1> DEFINE s == Take(<<"OscillationTimeout", "None">>)
           a == [s EXCEPT !.alive = FALSE]
           w == switchMuxState(a, "TimedOscillation", "Standby", FALSE)
<1>1. lm.posted[<<"OscillationTimeout", "None">>] > 0
  BY DEF handleOscillationTimeout, Run
<1>2. s \in LinkManager /\ Coherent(s) /\ Kept(s, s)
  BY <1>1, CompletionTaken DEF Completions
<1>3. Step(a) \/ Step(w)
  BY DEF handleOscillationTimeout, Run
<1> HIDE DEF s
<1>4. Kept(s, a)
  BY <1>2, FieldKept
<1> HIDE DEF a
<1>5. Kept(s, w)
  BY <1>4, switchMuxStateKept DEF SwitchCauses
<1> QED BY <1>2, <1>3, <1>4, <1>5, StepKeeps

\* An aborted oscillation timer preserves the invariant.
LEMMA OscillationAbortedCoherent ==
  ASSUME IInv, OscillationAborted
  PROVE  IInv'
<1> DEFINE s == Take(<<"OscillationAborted", "None">>)
           a == [s EXCEPT !.alive = FALSE]
<1>1. lm.posted[<<"OscillationAborted", "None">>] > 0
  BY DEF OscillationAborted, Run
<1>2. s \in LinkManager /\ Coherent(s) /\ Kept(s, s)
  BY <1>1, CompletionTaken DEF Completions
<1>3. Step(a)
  BY DEF OscillationAborted, Run
<1> HIDE DEF s
<1>4. Kept(s, a)
  BY <1>2, FieldKept
<1> QED BY <1>2, <1>3, <1>4, StepKeeps

\* The invariant holds of a port that has just been created.
LEMMA InitCoherent == Init => IInv
<1> SUFFICES ASSUME Init PROVE IInv
  OBVIOUS
<1>1. [e \in Events |-> 0] \in [Events -> Nat]
  OBVIOUS
<1>2. NoRequest \in Requests
  BY DEF Requests
<1>3. lm \in LinkManager
  BY <1>1, <1>2, ConstantsAssumption DEF Init, LinkManager, ProberLabels,
     MuxLabels, LinkLabels, Components, Modes, Routes, Timers
<1>4. Coherent(lm)
  BY DEF Init, Coherent
<1> QED BY <1>3, <1>4 DEF IInv

\* Every step preserves the invariant: one case per action.
LEMMA NextCoherent == IInv /\ [Next]_lm => IInv'
<1> SUFFICES ASSUME IInv, [Next]_lm PROVE IInv'
  OBVIOUS
<1>1. CASE Notification
  <2>1. CASE \E l \in SwssReports : handleMuxStateNotification(l)
    BY <2>1, handleMuxStateNotificationCoherent
  <2>2. CASE \E l \in XcvrdReports : handleProbeMuxStateNotification(l)
    BY <2>2, handleProbeMuxStateNotificationCoherent
  <2>3. CASE \/ \E l \in LinkReports : handleSwssLinkStateNotification(l)
             \/ \E l \in PeerLinkReports : handlePeerLinkStateNotification(l)
    BY <2>3, LinkNotificationCoherent, ConstantsAssumption
  <2>4. CASE \/ handleSwssBladeIpv4AddressUpdate
             \/ \E mode \in ConfigModes : handleMuxConfig(mode)
    BY <2>4, ConfigurationCoherent
  <2>5. CASE \E r \in RouteReports : handleDefaultRouteStateNotification(r)
    BY <2>5, handleDefaultRouteStateNotificationCoherent
  <2>6. CASE handleSwitchActiveRequestEvent \/ handleResetSuspendTimer
    BY <2>6, PeerCommandCoherent
  <2>7. CASE \/ \E l \in Heartbeats : ProberDetects(l)
             \/ \E t \in Timers : TimerExpires(t)
    BY <2>7, ProberAndTimersCoherent
  <2> QED BY <1>1, <2>1, <2>2, <2>3, <2>4, <2>5, <2>6, <2>7 DEF Notification
<1>2. CASE Delivery
  <2>1. CASE \/ \E l \in Reported : MuxStateEvent(l)
             \/ \E l \in LinkLabels : LinkStateEvent(l)
    BY <2>1, EventCoherent
  <2>2. CASE \E l \in Detected : handleLinkProberStateChange(l)
    BY <2>2, LinkProberChangeCoherent DEF handleLinkProberStateChange, Run
  <2>3. CASE \E l \in Reported : handleMuxStateChange(l)
    BY <2>3, MuxStateChangeCoherent DEF handleMuxStateChange, Run
  <2>4. CASE \E l \in LinkLabels : handleLinkStateChange(l)
    BY <2>4, LinkStateChangeCoherent DEF handleLinkStateChange, Run
  <2>5. CASE \E l \in SwssReports : handleGetMuxStateNotification(l)
    BY <2>5, handleGetMuxStateNotificationCoherent
  <2>6. CASE \/ handleSuspendTimerExpiry \/ handleMuxProbeTimeout
             \/ handleMuxWaitTimeout \/ handleSwitchActiveCommandCompletion
    BY <2>6, handleSuspendTimerExpiryCoherent, handleMuxProbeTimeoutCoherent,
       handleMuxWaitTimeoutCoherent, handleSwitchActiveCommandCompletionCoherent
  <2>7. CASE handleOscillationTimeout \/ OscillationAborted
    BY <2>7, handleOscillationTimeoutCoherent, OscillationAbortedCoherent
  <2> QED BY <1>2, <2>1, <2>2, <2>3, <2>4, <2>5, <2>6, <2>7 DEF Delivery
<1>3. CASE UNCHANGED lm
  BY <1>3 DEF IInv
<1> QED BY <1>1, <1>2, <1>3 DEF Next

(***************************************************************************)
(* The members of the object stay within the values the code gives them,   *)
(* for every set of reports the databases may deliver and every retry      *)
(* count.                                                                  *)
(***************************************************************************)
THEOREM TypeCorrect == Spec => []TypeOK
<1>1. IInv => TypeOK
  BY DEF IInv, TypeOK
<1> QED BY <1>1, InitCoherent, NextCoherent, PTL DEF Spec

(***************************************************************************)
(* The composite state lags behind a sub state machine only while the      *)
(* report that makes up the difference waits on the strand: no             *)
(* interleaving of the strand's handlers, however many wait, makes the     *)
(* link manager act on a state that no report will correct.                *)
(***************************************************************************)
THEOREM Coherence == Spec => []CompositeCoherent
<1>1. IInv => CompositeCoherent
  BY DEF IInv, Coherent, CompositeCoherent, Waiting
<1> QED BY <1>1, InitCoherent, NextCoherent, PTL DEF Spec

=============================================================================
