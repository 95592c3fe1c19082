---------------------- MODULE ActiveStandbySafety_proofs ----------------------
(***************************************************************************)
(* The remaining properties of the link manager of an active-standby port, *)
(* proved for every value of the constants.                                *)
(*                                                                         *)
(* None of them is inductive alone.  The strengthened ones are Watchful,   *)
(* Matches, Labelled and Looked, predicates of an object; with the three   *)
(* action properties they are what every step has to keep.  Handlers are   *)
(* compositions of a few methods, so most of the work is done once, for    *)
(* the relation Effect: what a method may do to an object when it neither  *)
(* takes a handler off the strand, nor moves the mux anywhere but to Wait, *)
(* nor changes the configuration.  Effect composes; a handler is its       *)
(* effect after its report was taken off the strand, and only the few      *)
(* steps that are no effect have an argument of their own.                 *)
(***************************************************************************)
EXTENDS LinkManagerActiveStandby_proofs

Completed(s, k) == s.posted[<<k, "None">>] > 0

(***************************************************************************)
(* A mux that waits for xcvrd is watched.  DriverWaitIsWatched counts the  *)
(* report of the mux state machine as well; that it is on the strand when  *)
(* the state machine has left Wait is Coherent.                            *)
(***************************************************************************)
Watchful(s) ==
  s.ms = "Wait" /\ s.cause = "DriverUpdate" =>
    \/ "wait" \in s.armed
    \/ Completed(s, "MuxWaitTimeout")
    \/ Completed(s, "SwitchActiveCommandCompletion")
    \/ s.msm # "Wait"
    \/ \E l \in Reported : s.posted[<<"MuxStateEvent", l>>] > 0

(***************************************************************************)
(* ShutdownMatchesRoute of any object, with what holds before the port is  *)
(* activated: heartbeats run, and without the feature no route is missing, *)
(* so that activateStateMachine need not look.                             *)
(***************************************************************************)
Matches(s) ==
  /\ DefaultRouteFeature \/ s.route # "NA"
  /\ s.init # Components => ~s.shutdown
  /\ s.init = Components =>
       (s.shutdown <=> s.mode \in {"Auto", "Standby"} /\ s.route = "NA")

\* LabelAccurate of any object.
Labelled(s) ==
  s.init = Components =>
    /\ Healthy(s) => s.label = "Healthy"
    /\ s.label = "Healthy" => Healthy(s) \/ s.ms = "Wait"

\* A report of the state a sub state machine is in now is on the strand.
Fresh(s) ==
  \/ s.psm \in Detected /\ s.posted[<<"LinkProber", s.psm>>] > 0
  \/ s.msm \in Reported /\ s.posted[<<"MuxState", s.msm>>] > 0
  \/ s.posted[<<"LinkState", s.lsm>>] > 0

(***************************************************************************)
(* DisagreementIsWatched says that something will look at the mux again;   *)
(* here it is said which thing in which state.  A probe timer whose expiry *)
(* would not probe, the end of a suspension that would find another state  *)
(* and a report that will be dropped as stale do not count.                *)
(***************************************************************************)
Looked(s) ==
  /\ s.init = Components
  /\ s.ls = "Up" \/ s.ps = "Wait"
  /\ s.ms \in {"Active", "Standby", "Unknown"} /\ s.ps # s.ms
  => \/ Fresh(s)
     \/ /\ s.ps # "Unknown"
        /\ "deadline" \in s.armed \/ Completed(s, "MuxProbeTimeout")
     \/ /\ s.ps = "Unknown" /\ s.ms = "Active"
        /\ "suspend" \in s.armed \/ Completed(s, "SuspendTimerExpiry")

-----------------------------------------------------------------------------
(* The relations between the object before and after a method. *)

\* Both are objects of the program, and no handler left the strand.
Grew(s, t) ==
  /\ s \in LinkManager /\ t \in LinkManager
  /\ \A e \in Events : t.posted[e] >= s.posted[e]

\* The configuration and what depends on it are as they were.
Still(s, t) ==
  /\ t.init = s.init /\ t.mode = s.mode /\ t.pending = s.pending
  /\ t.route = s.route /\ t.shutdown = s.shutdown

\* The mux is as it was, and so is what waits for its answer.
Unmoved(s, t) ==
  /\ t.ms = s.ms /\ t.msm = s.msm /\ t.lastSet = s.lastSet
  /\ t.cause = s.cause
  /\ "wait" \in s.armed => "wait" \in t.armed

\* The mux was probed or switched.
ToWait(t) == t.ms = "Wait" /\ t.msm = "Wait" /\ "wait" \in t.armed

\* Orchagent was not asked for active unless the mode is auto.
Asked(s, t) ==
  t.request = s.request \/ s.mode = "Auto" \/ t.request.label # "Active"

Moved(s, t) == Grew(s, t) /\ Still(s, t) /\ (Unmoved(s, t) \/ ToWait(t))

Effect(s, t) == Moved(s, t) /\ Asked(s, t)

\* The composite state is as it was, so is all that will look at it, and
\* orchagent was asked for nothing.
Attends(s, t) ==
  /\ Grew(s, t)
  /\ t.init = s.init
  /\ t.ps = s.ps /\ t.psm = s.psm /\ t.ms = s.ms /\ t.msm = s.msm
  /\ t.ls = s.ls /\ t.lsm = s.lsm /\ t.request = s.request
  /\ "deadline" \in s.armed => "deadline" \in t.armed
  /\ "suspend" \in s.armed => "suspend" \in t.armed

\* A method that does nothing has an effect, and attends.
LEMMA EffectRefl ==
  ASSUME NEW s \in LinkManager
  PROVE  Effect(s, s) /\ Attends(s, s)
BY DEF Effect, Moved, Grew, Still, Unmoved, Asked, Attends, LinkManager

\* The methods of the code call each other, and Effect composes with them.
LEMMA EffectTrans ==
  ASSUME NEW s, NEW t, NEW u
  PROVE  /\ Moved(s, t) /\ Moved(t, u) => Moved(s, u)
         /\ Effect(s, t) /\ Effect(t, u) => Effect(s, u)
         /\ Attends(s, t) /\ Attends(t, u) => Attends(s, u)
<1>1. Grew(s, t) /\ Grew(t, u) => Grew(s, u)
  BY DEF Grew, LinkManager
<1>2. Moved(s, t) /\ Moved(t, u) => Moved(s, u)
  BY <1>1 DEF Moved, Still, Unmoved, ToWait
<1>3. Attends(s, t) /\ Attends(t, u) => Attends(s, u)
  BY <1>1 DEF Attends
<1>4. Effect(s, t) /\ Effect(t, u) => Asked(s, u)
  BY DEF Effect, Moved, Still, Asked
<1> QED BY <1>2, <1>3, <1>4 DEF Effect

\* What keeps grows the strand.
LEMMA KeptGrew == ASSUME NEW s, NEW t, Kept(s, t) PROVE Grew(s, t)
BY DEF Kept, Grew

\* Members that neither relation looks at.
LEMMA FieldEffect ==
  ASSUME NEW t \in LinkManager
  PROVE  LET Free(u) == Effect(t, u) /\ Attends(t, u)
         IN  /\ \A v \in BOOLEAN : Free([t EXCEPT !.waitActiveOdd = v])
             /\ \A v \in BOOLEAN : Free([t EXCEPT !.alive = v])
             /\ \A v \in {"Uninitialized", "Unhealthy", "Healthy"} :
                  Free([t EXCEPT !.label = v])
             /\ \A v \in 0 .. NegativeRetry + 1 :
                  Free([t EXCEPT !.activeUnknown = v])
             /\ \A v \in 0 .. NegativeRetry + 1 :
                  Free([t EXCEPT !.standbyUnknown = v])
<1> DEFINE Free(u) == Effect(t, u) /\ Attends(t, u)
<1>1. Kept(t, t)
  BY KeptRefl
<1>2. \A v \in BOOLEAN : Free([t EXCEPT !.waitActiveOdd = v])
  <2> SUFFICES ASSUME NEW v \in BOOLEAN
               PROVE  Free([t EXCEPT !.waitActiveOdd = v])
    OBVIOUS
  <2> DEFINE u == [t EXCEPT !.waitActiveOdd = v]
  <2>1. Grew(t, u)
    BY <1>1, FieldKept, KeptGrew
  <2> QED
    BY <2>1 DEF Effect, Moved, Still, Unmoved, Asked, Attends, LinkManager
<1>3. \A v \in BOOLEAN : Free([t EXCEPT !.alive = v])
  <2> SUFFICES ASSUME NEW v \in BOOLEAN
               PROVE  Free([t EXCEPT !.alive = v])
    OBVIOUS
  <2> DEFINE u == [t EXCEPT !.alive = v]
  <2>1. Grew(t, u)
    BY <1>1, FieldKept, KeptGrew
  <2> QED
    BY <2>1 DEF Effect, Moved, Still, Unmoved, Asked, Attends, LinkManager
<1>4. \A v \in {"Uninitialized", "Unhealthy", "Healthy"} :
        Free([t EXCEPT !.label = v])
  <2> SUFFICES ASSUME NEW v \in {"Uninitialized", "Unhealthy", "Healthy"}
               PROVE  Free([t EXCEPT !.label = v])
    OBVIOUS
  <2> DEFINE u == [t EXCEPT !.label = v]
  <2>1. Grew(t, u)
    BY <1>1, FieldKept, KeptGrew
  <2> QED
    BY <2>1 DEF Effect, Moved, Still, Unmoved, Asked, Attends, LinkManager
<1>5. \A v \in 0 .. NegativeRetry + 1 : Free([t EXCEPT !.activeUnknown = v])
  <2> SUFFICES ASSUME NEW v \in 0 .. NegativeRetry + 1
               PROVE  Free([t EXCEPT !.activeUnknown = v])
    OBVIOUS
  <2> DEFINE u == [t EXCEPT !.activeUnknown = v]
  <2>1. Grew(t, u)
    BY <1>1, FieldKept, KeptGrew
  <2> QED
    BY <2>1 DEF Effect, Moved, Still, Unmoved, Asked, Attends, LinkManager
<1>6. \A v \in 0 .. NegativeRetry + 1 : Free([t EXCEPT !.standbyUnknown = v])
  <2> SUFFICES ASSUME NEW v \in 0 .. NegativeRetry + 1
               PROVE  Free([t EXCEPT !.standbyUnknown = v])
    OBVIOUS
  <2> DEFINE u == [t EXCEPT !.standbyUnknown = v]
  <2>1. Grew(t, u)
    BY <1>1, FieldKept, KeptGrew
  <2> QED
    BY <2>1 DEF Effect, Moved, Still, Unmoved, Asked, Attends, LinkManager
<1> QED BY <1>2, <1>3, <1>4, <1>5, <1>6

\* Posting a handler.
LEMMA PostEffect ==
  ASSUME NEW t \in LinkManager, NEW e \in Events
  PROVE  Effect(t, Post(t, e)) /\ Attends(t, Post(t, e))
<1>1. Grew(t, Post(t, e))
  BY KeptRefl, PostKept, KeptGrew
<1> QED
  BY <1>1
  DEF Effect, Moved, Still, Unmoved, Asked, Attends, Post, LinkManager

\* Starting a timer; cancelling one that nothing relies on.
LEMMA ArmEffect ==
  ASSUME NEW t \in LinkManager, NEW r \in Timers
  PROVE  /\ Effect(t, Arm(t, r)) /\ Attends(t, Arm(t, r))
         /\ r # "wait" => Effect(t, Disarm(t, r))
         /\ r \notin {"deadline", "suspend"} => Attends(t, Disarm(t, r))
<1>1. Grew(t, Arm(t, r)) /\ Grew(t, Disarm(t, r))
  BY KeptRefl, ArmKept, KeptGrew
<1>2. Arm(t, r).armed = t.armed \cup {r} /\ Disarm(t, r).armed = t.armed \ {r}
  BY DEF Arm, Disarm, LinkManager
<1>3. Effect(t, Arm(t, r)) /\ Attends(t, Arm(t, r))
  BY <1>1, <1>2
  DEF Effect, Moved, Still, Unmoved, Asked, Attends, Arm, LinkManager
<1>4. r # "wait" => Effect(t, Disarm(t, r))
  BY <1>1, <1>2
  DEF Effect, Moved, Still, Unmoved, Asked, Disarm, LinkManager
<1>5. r \notin {"deadline", "suspend"} => Attends(t, Disarm(t, r))
  BY <1>1, <1>2 DEF Attends, Disarm, LinkManager
<1> QED BY <1>3, <1>4, <1>5

\* Moving the prober has an effect; the composite state it leaves is known.
LEMMA enterLinkProberStateEffect ==
  ASSUME NEW t \in LinkManager, NEW l \in ProberLabels
  PROVE  LET u == enterLinkProberState(t, l)
         IN  /\ Effect(t, u)
             /\ u.ps = l /\ u.psm = l /\ u.ls = t.ls /\ u.lsm = t.lsm
             /\ u.ms = t.ms /\ u.msm = t.msm
             /\ u.label = t.label /\ u.request = t.request
             /\ u.armed = t.armed /\ u.posted = t.posted
             /\ u.lastSet = t.lastSet /\ u.cause = t.cause
<1> DEFINE u == enterLinkProberState(t, l)
<1>1. Grew(t, u)
  BY KeptRefl, enterLinkProberStateKept, KeptGrew
<1>2. /\ u.ps = l /\ u.psm = l /\ u.ls = t.ls /\ u.lsm = t.lsm
      /\ u.ms = t.ms /\ u.msm = t.msm
      /\ u.label = t.label /\ u.request = t.request
      /\ u.armed = t.armed /\ u.posted = t.posted
      /\ u.lastSet = t.lastSet /\ u.cause = t.cause
  BY DEF enterLinkProberState, LinkManager
<1>3. Still(t, u)
  BY DEF enterLinkProberState, LinkManager, Still
<1> HIDE DEF u
<1>4. Effect(t, u)
  BY <1>1, <1>2, <1>3 DEF Effect, Moved, Unmoved, Asked
<1> QED BY <1>2, <1>4 DEF u

\* Probing the mux takes it to Wait with the timer running.
LEMMA enterMuxWaitStateEffect ==
  ASSUME NEW t \in LinkManager
  PROVE  LET u == enterMuxWaitState(t)
         IN  Effect(t, u) /\ ToWait(u)
<1> DEFINE m == enterMuxState(t, "Wait")
           c == [m EXCEPT !.cause = "DriverUpdate"]
           u == Arm(c, "wait")
<1>1. enterMuxWaitState(t) = u
  BY DEF enterMuxWaitState, startMuxWaitTimer
<1>2. Grew(t, u)
  BY <1>1, KeptRefl, enterMuxWaitStateKept, KeptGrew
<1>3. m \in LinkManager
  BY KeptRefl, enterMuxStateKept, KeptTypes DEF MuxLabels
<1>4. m.ms = "Wait" /\ m.msm = "Wait" /\ m.request = t.request /\ Still(t, m)
  BY DEF enterMuxState, LinkManager, Still
<1> HIDE DEF m
<1>5. c \in LinkManager
  BY <1>3 DEF LinkManager
<1>6. c.ms = "Wait" /\ c.msm = "Wait" /\ c.request = t.request /\ Still(t, c)
  BY <1>3, <1>4 DEF LinkManager, Still
<1> HIDE DEF c
<1>7. ToWait(u) /\ u.request = t.request /\ Still(t, u)
  BY <1>5, <1>6 DEF Arm, LinkManager, ToWait, Still
<1> QED BY <1>1, <1>2, <1>7 DEF Effect, Moved, Asked

\* Asking orchagent takes the mux to Wait with the timer running; it has an
\* effect when what is asked for agrees with the mode.
LEMMA SwitchedEffect ==
  ASSUME NEW t \in LinkManager,
         NEW c \in SwitchCauses, NEW l \in {"Active", "Standby"}
  PROVE  LET u == Switched(t, c, l)
         IN  /\ Moved(t, u) /\ ToWait(u)
             /\ u.request = [label |-> l, cause |-> c]
             /\ l = "Standby" \/ t.mode = "Auto" => Effect(t, u)
<1> DEFINE m == enterMuxState(t, "Wait")
           asked == [label |-> l, cause |-> c]
           odd == (l # "Active") /\ m.waitActiveOdd
           m1 == [m EXCEPT !.waitActiveOdd = odd]
           m2 == [m1 EXCEPT !.lastSet = l]
           m3 == [m2 EXCEPT !.cause = "SwssUpdate"]
           m4 == [m3 EXCEPT !.request = asked]
           d == Disarm(m4, "deadline")
           u == Arm(d, "wait")
<1>1. Grew(t, Switched(t, c, l))
  BY KeptRefl, SwitchedKept, KeptGrew
<1>2. m \in LinkManager
  BY KeptRefl, enterMuxStateKept, KeptTypes DEF MuxLabels
<1>3. m.ms = "Wait" /\ m.msm = "Wait" /\ Still(t, m)
  BY DEF enterMuxState, LinkManager, Still
<1>4. m4 = [m EXCEPT !.waitActiveOdd = (l # "Active") /\ @,
                     !.lastSet = l,
                     !.cause = "SwssUpdate",
                     !.request = [label |-> l, cause |-> c]]
  BY <1>2 DEF LinkManager
<1>5. Switched(t, c, l) = u
  BY <1>4 DEF Switched, startMuxWaitTimer
<1> HIDE DEF m, asked
<1>6. odd \in BOOLEAN /\ l \in MuxLabels /\ asked \in Requests
  BY DEF MuxLabels, Requests, asked
<1> HIDE DEF odd
<1>7. m1 \in LinkManager /\ m1.ms = "Wait" /\ m1.msm = "Wait" /\ Still(t, m1)
  BY <1>2, <1>3, <1>6 DEF LinkManager, Still
<1> HIDE DEF m1
<1>8. m2 \in LinkManager /\ m2.ms = "Wait" /\ m2.msm = "Wait" /\ Still(t, m2)
  BY <1>7, <1>6 DEF LinkManager, Still
<1> HIDE DEF m2
<1>9. m3 \in LinkManager /\ m3.ms = "Wait" /\ m3.msm = "Wait" /\ Still(t, m3)
  BY <1>8 DEF LinkManager, Still
<1> HIDE DEF m3
<1>10. /\ m4 \in LinkManager /\ m4.ms = "Wait" /\ m4.msm = "Wait"
       /\ m4.request = asked /\ Still(t, m4)
  BY <1>6, <1>9 DEF LinkManager, Still
<1> HIDE DEF m4
<1>11. /\ d \in LinkManager /\ d.ms = "Wait" /\ d.msm = "Wait"
       /\ d.request = asked /\ Still(t, d)
  BY <1>10 DEF Disarm, LinkManager, Still
<1> HIDE DEF d
<1>12. ToWait(u) /\ u.request = asked /\ Still(t, u)
  BY <1>11 DEF Arm, LinkManager, ToWait, Still
<1> HIDE DEF u
<1>13. asked.label = l
  BY DEF asked
<1> QED
  BY <1>1, <1>5, <1>12, <1>13 DEF Effect, Moved, Asked, asked

\* switchMuxState asks for active in auto mode or when it is forced to.
LEMMA switchMuxStateEffect ==
  ASSUME NEW t \in LinkManager, NEW forceSwitch \in BOOLEAN,
         NEW c \in SwitchCauses, NEW l \in {"Active", "Standby"},
         l = "Active" => ~forceSwitch
  PROVE  LET u == switchMuxState(t, c, l, forceSwitch)
         IN  Effect(t, u) /\ ToWait(u)
BY SwitchedEffect, enterMuxWaitStateEffect DEF switchMuxState

\* Starting and cancelling the oscillation timer.
LEMMA OscillationEffect ==
  ASSUME NEW t \in LinkManager
  PROVE  LET Free(u) == Effect(t, u) /\ Attends(t, u)
         IN  /\ Free(startOscillationTimer(t))
             /\ Free(tryCancelOscillationTimerIfAlive(t))
<1> DEFINE d == Disarm(t, "oscillation")
           q == Post(d, <<"OscillationAborted", "None">>)
           a == AbortOscillation(t)
           o == Arm(a, "oscillation")
           v == [a EXCEPT !.alive = FALSE]
           w == [o EXCEPT !.alive = TRUE]
<1>1. <<"OscillationAborted", "None">> \in Events /\ "oscillation" \in Timers
  BY DEF Events, Completions, Timers
<1>2. Effect(t, d) /\ Attends(t, d)
  BY <1>1, ArmEffect
<1>3. d \in LinkManager
  BY <1>2 DEF Attends, Grew
<1> HIDE DEF d
<1>4. Effect(d, q) /\ Attends(d, q)
  BY <1>1, <1>3, PostEffect
<1>5. Effect(t, q) /\ Attends(t, q)
  BY <1>2, <1>4, EffectTrans
<1>6. Effect(t, a) /\ Attends(t, a)
  BY <1>5, EffectRefl DEF AbortOscillation, q, d
<1>7. a \in LinkManager
  BY <1>6 DEF Attends, Grew
<1> HIDE DEF a
<1>8. Effect(a, o) /\ Attends(a, o)
  BY <1>1, <1>7, ArmEffect
<1>9. o \in LinkManager
  BY <1>8 DEF Attends, Grew
<1> HIDE DEF o
<1>10. /\ Effect(a, v) /\ Attends(a, v)
       /\ Effect(o, w) /\ Attends(o, w)
  BY <1>7, <1>9, FieldEffect
<1> HIDE DEF v, w
<1>11. /\ Effect(t, v) /\ Attends(t, v)
       /\ Effect(t, w) /\ Attends(t, w)
  BY <1>6, <1>8, <1>10, EffectTrans
<1> QED
  BY <1>11, EffectRefl
  DEF startOscillationTimer, tryCancelOscillationTimerIfAlive, a, o, v, w

\* Initializing the prober makes it agree with the mux.
LEMMA initLinkProberStateEffect ==
  ASSUME NEW t \in LinkManager
  PROVE  LET u == initLinkProberState(t)
         IN  /\ Effect(t, u)
             /\ u.ps = IF u.ms = "Error" THEN "Wait" ELSE u.ms
             /\ u.ms = t.ms /\ u.msm = t.msm
             /\ u.label = t.label /\ u.request = t.request
             /\ u.armed = t.armed /\ u.posted = t.posted
             /\ u.lastSet = t.lastSet /\ u.cause = t.cause
<1> DEFINE l == IF t.ms = "Error" THEN "Wait" ELSE t.ms
<1>1. l \in ProberLabels
  BY DEF LinkManager, MuxLabels, ProberLabels
<1> HIDE DEF l
<1> QED BY <1>1, enterLinkProberStateEffect DEF initLinkProberState, l

\* Publishing the label is no change but of the label, and makes it accurate.
LEMMA updateMuxLinkmgrStateEffect ==
  ASSUME NEW t \in LinkManager
  PROVE  LET u == updateMuxLinkmgrState(t)
         IN  Effect(t, u) /\ Attends(t, u) /\ Labelled(u)
<1> DEFINE l == IF Healthy(t) THEN "Healthy" ELSE "Unhealthy"
           u == [t EXCEPT !.label = l]
<1>1. l \in {"Uninitialized", "Unhealthy", "Healthy"}
  OBVIOUS
<1>2. Effect(t, u) /\ Attends(t, u)
  <2> HIDE DEF l
  <2> QED BY <1>1, FieldEffect
<1>3. u.label = l /\ u.ls = t.ls /\ u.ps = t.ps /\ u.ms = t.ms /\ u.route = t.route
  BY DEF LinkManager
<1>4. updateMuxLinkmgrState(t) = u
  BY DEF updateMuxLinkmgrState
<1> HIDE DEF u
<1>5. Labelled(u)
  BY <1>3 DEF Labelled, Healthy
<1> QED BY <1>2, <1>4, <1>5

\* The probe timer and the suspension of the heartbeats.
LEMMA SuspensionEffect ==
  ASSUME NEW t \in LinkManager
  PROVE  /\ Effect(t, startMuxProbeTimer(t)) /\ Attends(t, startMuxProbeTimer(t))
         /\ Effect(t, suspendTxProbes(t)) /\ Attends(t, suspendTxProbes(t))
         /\ Effect(t, resumeTxProbes(t))
         /\ Effect(t, Disarm(t, "deadline"))
         /\ "deadline" \in startMuxProbeTimer(t).armed
         /\ "suspend" \in suspendTxProbes(t).armed
<1>1. /\ "deadline" \in startMuxProbeTimer(t).armed
      /\ "suspend" \in suspendTxProbes(t).armed
  BY DEF startMuxProbeTimer, suspendTxProbes, Arm, LinkManager
<1> QED
  BY <1>1, ArmEffect DEF startMuxProbeTimer, suspendTxProbes, resumeTxProbes, Timers

-----------------------------------------------------------------------------
(* Looked and Labelled. *)

\* The completions are handlers of the strand.
LEMMA CompletionEvents == \A k \in Completions : <<k, "None">> \in Events
BY DEF Events

\* While the mux waits no other duty is due.
LEMMA WaitIsLooked ==
  ASSUME NEW s, s.ms = "Wait"
  PROVE  Looked(s) /\ Labelled(s)
BY DEF Looked, Labelled, Healthy

\* A running probe timer is enough unless the prober is in Unknown.
LEMMA DeadlineIsLooked ==
  ASSUME NEW s, "deadline" \in s.armed, s.ps # "Unknown"
  PROVE  Looked(s)
BY DEF Looked

\* What attends to the composite state keeps it looked at.
LEMMA AttendsLooked ==
  ASSUME NEW s, NEW t, Attends(s, t), Looked(s)
  PROVE  Looked(t)
<1>1. s \in LinkManager /\ t \in LinkManager
  BY DEF Attends, Grew
<1>2. \A e \in Events : s.posted[e] > 0 => t.posted[e] > 0
  BY DEF Attends, Grew, LinkManager
<1>3. /\ Completed(s, "MuxProbeTimeout") => Completed(t, "MuxProbeTimeout")
      /\ Completed(s, "SuspendTimerExpiry") => Completed(t, "SuspendTimerExpiry")
  BY <1>2, CompletionEvents DEF Completions, Completed
<1>4. s.lsm \in LinkLabels
  BY <1>1 DEF LinkManager
<1>5. Fresh(s) => Fresh(t)
  BY <1>2, <1>4, Reports DEF Fresh, Attends
<1> QED BY <1>3, <1>5 DEF Looked, Attends

\* The entries in which prober and mux contradict each other, or the mux is in
\* Error.
LEMMA InconsistentUpEffect ==
  ASSUME NEW t \in LinkManager, NEW byProber \in BOOLEAN
  PROVE  /\ Effect(t, InconsistentUp(t, byProber))
         /\ t.ps # "Unknown" => Looked(InconsistentUp(t, byProber))
         /\ Effect(t, ErrorUp(t, byProber))
         /\ t.ms = "Error" => Looked(ErrorUp(t, byProber))
<1> DEFINE w == enterMuxWaitState(t)
           d == startMuxProbeTimer(t)
<1>1. Effect(t, w) /\ Looked(w)
  BY enterMuxWaitStateEffect, WaitIsLooked DEF ToWait
<1>2. Effect(t, d) /\ Attends(t, d) /\ "deadline" \in d.armed
  BY SuspensionEffect
<1>3. t.ps # "Unknown" => Looked(d)
  BY <1>2, DeadlineIsLooked DEF Attends
<1>4. t.ms = "Error" => Looked(t)
  BY DEF Looked
<1> QED
  BY <1>1, <1>2, <1>3, <1>4, EffectRefl DEF InconsistentUp, ErrorUp

\* The entry for {Unknown, Active, Up}: the heartbeats are suspended.
LEMMA UnknownActiveUpEffect ==
  ASSUME NEW t \in LinkManager
  PROVE  LET u == UnknownActiveUp(t)
         IN  /\ Effect(t, u)
             /\ t.ps = "Unknown" /\ t.ms = "Active" => Looked(u)
<1> DEFINE d == suspendTxProbes(t)
           u == [d EXCEPT !.waitActiveOdd = FALSE]
<1>1. Effect(t, d) /\ Attends(t, d) /\ "suspend" \in d.armed
  BY SuspensionEffect
<1>2. d \in LinkManager
  BY <1>1 DEF Attends, Grew
<1> HIDE DEF d
<1>3. Effect(d, u) /\ Attends(d, u)
  BY <1>2, FieldEffect
<1> HIDE DEF u
<1>4. Effect(t, u) /\ Attends(t, u)
  BY <1>1, <1>3, EffectTrans
<1>5. "suspend" \in u.armed
  BY <1>1, <1>3 DEF Attends
<1>6. t.ps = "Unknown" /\ t.ms = "Active" => Looked(u)
  BY <1>4, <1>5 DEF Looked, Attends
<1> QED BY <1>4, <1>6 DEF UnknownActiveUp, d, u

\* The entry for {Unknown, Standby, Up}: the mux is switched or probed.
LEMMA UnknownStandbyUpEffect ==
  ASSUME NEW t \in LinkManager
  PROVE  LET u == UnknownStandbyUp(t) IN Effect(t, u) /\ Looked(u)
<1> DEFINE p == enterLinkProberState(t, "Wait")
           w == [p EXCEPT !.waitActiveOdd = FALSE]
           a == switchMuxState(w, "PeerHeartbeatMissing", "Active", FALSE)
           d == Disarm(a, "deadline")
           b == enterMuxWaitState(w)
<1>1. Effect(t, p)
  BY enterLinkProberStateEffect DEF ProberLabels
<1>2. p \in LinkManager
  BY <1>1 DEF Effect, Moved, Grew
<1> HIDE DEF p
<1>3. Effect(p, w)
  BY <1>2, FieldEffect
<1>4. w \in LinkManager /\ Effect(t, w)
  BY <1>1, <1>3, EffectTrans DEF Effect, Moved, Grew
<1> HIDE DEF w
<1>5. Effect(w, a) /\ ToWait(a) /\ Effect(w, b) /\ ToWait(b)
  BY <1>4, switchMuxStateEffect, enterMuxWaitStateEffect DEF SwitchCauses
<1>6. a \in LinkManager
  BY <1>5 DEF Effect, Moved, Grew
<1> HIDE DEF a, b
<1>7. Effect(a, d)
  BY <1>6, SuspensionEffect
<1>8. d.ms = "Wait"
  BY <1>5, <1>6 DEF Disarm, LinkManager, ToWait
<1> HIDE DEF d
<1>9. Effect(t, d) /\ Looked(d) /\ Effect(t, b) /\ Looked(b)
  BY <1>4, <1>5, <1>7, <1>8, EffectTrans, WaitIsLooked DEF ToWait
<1> QED BY <1>9 DEF UnknownStandbyUp, p, w, a, d, b

\* The entries for {Active, Unknown, Up} and {Standby, Unknown, Up}: the mux is
\* probed or switched, or will be probed when the timer expires.
LEMMA UnknownUpEffect ==
  ASSUME NEW t \in LinkManager, NEW byProber \in BOOLEAN
  PROVE  /\ Effect(t, ActiveUnknownUp(t)) /\ Looked(ActiveUnknownUp(t))
         /\ Effect(t, StandbyUnknownUp(t, byProber))
         /\ t.ps # "Unknown" => Looked(StandbyUnknownUp(t, byProber))
<1> DEFINE n == Count(t.activeUnknown)
           m == Count(t.standbyUnknown)
           a == [t EXCEPT !.activeUnknown = n]
           b == [t EXCEPT !.standbyUnknown = m]
           as == switchMuxState(a, "HarewareStateUnknown", "Active", FALSE)
           aw == enterMuxWaitState(a)
           bs == switchMuxState(b, "HarewareStateUnknown", "Standby", FALSE)
           bw == enterMuxWaitState(b)
           bd == startMuxProbeTimer(b)
<1>1. n \in 0 .. NegativeRetry + 1 /\ m \in 0 .. NegativeRetry + 1
  BY CountType DEF LinkManager
<1> HIDE DEF n, m
<1>2. Effect(t, a) /\ Effect(t, b) /\ Attends(t, b)
  BY <1>1, FieldEffect
<1>3. a \in LinkManager /\ b \in LinkManager
  BY <1>2 DEF Effect, Moved, Grew
<1> HIDE DEF a, b
<1>4. /\ Effect(a, as) /\ ToWait(as) /\ Effect(a, aw) /\ ToWait(aw)
      /\ Effect(b, bs) /\ ToWait(bs) /\ Effect(b, bw) /\ ToWait(bw)
  BY <1>3, switchMuxStateEffect, enterMuxWaitStateEffect DEF SwitchCauses
<1>5. Effect(b, bd) /\ Attends(b, bd) /\ "deadline" \in bd.armed
  BY <1>3, SuspensionEffect
<1> HIDE DEF as, aw, bs, bw, bd
<1>6. /\ Effect(t, as) /\ Looked(as) /\ Effect(t, aw) /\ Looked(aw)
      /\ Effect(t, bs) /\ Looked(bs) /\ Effect(t, bw) /\ Looked(bw)
  BY <1>2, <1>4, EffectTrans, WaitIsLooked DEF ToWait
<1>7. Effect(t, bd) /\ (t.ps # "Unknown" => Looked(bd))
  BY <1>2, <1>5, EffectTrans, DeadlineIsLooked DEF Attends
<1> QED
  BY <1>6, <1>7
  DEF ActiveUnknownUp, StandbyUnknownUp, a, b, as, aw, bs, bw, bd, n, m

\* The entry for {Wait, Active, Up}: the probe timer runs.
LEMMA WaitActiveUpEffect ==
  ASSUME NEW t \in LinkManager
  PROVE  LET u == WaitActiveUp(t)
         IN  Effect(t, u) /\ (t.ps # "Unknown" => Looked(u))
<1> DEFINE p == startMuxProbeTimer(t)
           q == IF t.waitActiveOdd THEN suspendTxProbes(p) ELSE p
           odd == ~q.waitActiveOdd
           v == [q EXCEPT !.waitActiveOdd = odd]
           o == startOscillationTimer(v)
<1>1. Effect(t, p) /\ Attends(t, p) /\ "deadline" \in p.armed
  BY SuspensionEffect
<1>2. p \in LinkManager
  BY <1>1 DEF Attends, Grew
<1> HIDE DEF p
<1>3. Effect(p, q) /\ Attends(p, q)
  BY <1>2, SuspensionEffect, EffectRefl
<1>4. q \in LinkManager
  BY <1>3 DEF Attends, Grew
<1> HIDE DEF q
<1>5. odd \in BOOLEAN
  OBVIOUS
<1> HIDE DEF odd
<1>6. Effect(q, v) /\ Attends(q, v)
  BY <1>4, <1>5, FieldEffect
<1>7. v \in LinkManager
  BY <1>6 DEF Attends, Grew
<1> HIDE DEF v
<1>8. Effect(v, o) /\ Attends(v, o)
  BY <1>7, OscillationEffect
<1> HIDE DEF o
<1>9. Effect(t, v) /\ Attends(p, v) /\ Attends(t, v)
  BY <1>1, <1>3, <1>6, EffectTrans
<1>10. Effect(t, o) /\ Attends(p, o) /\ Attends(t, o)
  BY <1>8, <1>9, EffectTrans
<1>11. t.ps # "Unknown" => Looked(v) /\ Looked(o)
  BY <1>1, <1>9, <1>10, DeadlineIsLooked DEF Attends
<1> QED BY <1>9, <1>10, <1>11 DEF WaitActiveUp, p, q, odd, v, o

\* Whatever entry mStateTransitionHandler holds, and whether or not the state
\* it is called in was looked at: the state it leaves is.
LEMMA TransitionFunctionEffect ==
  ASSUME NEW t \in LinkManager, NEW byProber \in BOOLEAN
  PROVE  LET u == TransitionFunction(t, byProber)
         IN  Effect(t, u) /\ Looked(u)
<1> DEFINE u == TransitionFunction(t, byProber)
           at == <<t.ps, t.ms, t.ls>>
<1>1. /\ Effect(t, InconsistentUp(t, byProber))
      /\ t.ps # "Unknown" => Looked(InconsistentUp(t, byProber))
      /\ Effect(t, ErrorUp(t, byProber))
      /\ t.ms = "Error" => Looked(ErrorUp(t, byProber))
  BY InconsistentUpEffect
<1>2. /\ Effect(t, UnknownActiveUp(t))
      /\ t.ps = "Unknown" /\ t.ms = "Active" => Looked(UnknownActiveUp(t))
  BY UnknownActiveUpEffect
<1>3. Effect(t, UnknownStandbyUp(t)) /\ Looked(UnknownStandbyUp(t))
  BY UnknownStandbyUpEffect
<1>4. /\ Effect(t, ActiveUnknownUp(t)) /\ Looked(ActiveUnknownUp(t))
      /\ Effect(t, StandbyUnknownUp(t, byProber))
      /\ t.ps # "Unknown" => Looked(StandbyUnknownUp(t, byProber))
  BY UnknownUpEffect
<1>5. Effect(t, WaitActiveUp(t)) /\ (t.ps # "Unknown" => Looked(WaitActiveUp(t)))
  BY WaitActiveUpEffect
<1>6. Effect(t, ProbeLater(t)) /\ (t.ps # "Unknown" => Looked(ProbeLater(t)))
  BY SuspensionEffect, DeadlineIsLooked DEF ProbeLater, Attends
<1>7. t.ps = "Unknown" /\ (t.ms = "Unknown" \/ t.ls = "Down") =>
        Looked(ProbeLater(t))
  BY SuspensionEffect DEF ProbeLater, Attends, Looked
<1>8. Effect(t, t)
  BY EffectRefl
<1>9. t.ps \in ProberLabels /\ t.ms \in MuxLabels /\ t.ls \in LinkLabels
  BY DEF LinkManager
<1>10. CASE at \in {<<"Standby", "Active", "Up">>, <<"Active", "Standby", "Up">>}
  BY <1>1, <1>10 DEF TransitionFunction
<1>11. CASE at = <<"Unknown", "Active", "Up">>
  BY <1>2, <1>11 DEF TransitionFunction
<1>12. CASE at = <<"Unknown", "Standby", "Up">>
  BY <1>3, <1>12 DEF TransitionFunction
<1>13. CASE at = <<"Active", "Unknown", "Up">>
  BY <1>4, <1>13 DEF TransitionFunction
<1>14. CASE at = <<"Standby", "Unknown", "Up">>
  BY <1>4, <1>14 DEF TransitionFunction
<1>15. CASE at = <<"Wait", "Active", "Up">>
  BY <1>5, <1>15 DEF TransitionFunction
<1>16. CASE at \in {"Active", "Standby"} \X {"Error"} \X {"Up"}
  BY <1>1, <1>16 DEF TransitionFunction
<1> DEFINE later ==
      \/ at \in {<<"Unknown", "Unknown", "Up">>, <<"Wait", "Standby", "Up">>,
                 <<"Wait", "Unknown", "Up">>}
      \/ at \in {"Unknown", "Wait"} \X {"Active", "Standby", "Unknown"}
                  \X {"Down"}
<1>17. CASE later
  <2>1. u = ProbeLater(t)
    BY <1>17 DEF TransitionFunction
  <2> QED BY <1>6, <1>7, <1>17, <2>1
<1>18. CASE /\ ~later
            /\ at \notin {<<"Standby", "Active", "Up">>,
                          <<"Active", "Standby", "Up">>,
                          <<"Unknown", "Active", "Up">>,
                          <<"Unknown", "Standby", "Up">>,
                          <<"Active", "Unknown", "Up">>,
                          <<"Standby", "Unknown", "Up">>,
                          <<"Wait", "Active", "Up">>}
            /\ at \notin {"Active", "Standby"} \X {"Error"} \X {"Up"}
  <2>1. u = t
    BY <1>18 DEF TransitionFunction
  <2>2. Looked(t)
    BY <1>9, <1>18 DEF ProberLabels, MuxLabels, LinkLabels, Looked
  <2> QED BY <1>8, <2>1, <2>2
<1> QED
  BY <1>10, <1>11, <1>12, <1>13, <1>14, <1>15, <1>16, <1>17, <1>18

\* A link that went down leaves the mux in Wait.
LEMMA LinkWentDownEffect ==
  ASSUME NEW t \in LinkManager
  PROVE  LET u == LinkWentDown(t) IN Effect(t, u) /\ Looked(u)
<1> DEFINE w == switchMuxState(t, "LinkDown", "Standby", FALSE)
           z == [w EXCEPT !.standbyUnknown = 0]
           y == [z EXCEPT !.activeUnknown = 0]
           o == [y EXCEPT !.waitActiveOdd = FALSE]
           u == tryCancelOscillationTimerIfAlive(o)
<1>1. Effect(t, w) /\ ToWait(w)
  BY switchMuxStateEffect DEF SwitchCauses
<1>2. w \in LinkManager
  BY <1>1 DEF Effect, Moved, Grew
<1> HIDE DEF w
<1>3. o = [w EXCEPT !.standbyUnknown = 0, !.activeUnknown = 0,
                    !.waitActiveOdd = FALSE]
  BY <1>2 DEF LinkManager
<1>4. Effect(w, z) /\ Attends(w, z)
  BY <1>2, FieldEffect, ZeroCount
<1>5. z \in LinkManager
  BY <1>4 DEF Attends, Grew
<1> HIDE DEF z
<1>6. Effect(z, y) /\ Attends(z, y)
  BY <1>5, FieldEffect, ZeroCount
<1>7. y \in LinkManager
  BY <1>6 DEF Attends, Grew
<1> HIDE DEF y
<1>8. Effect(y, o) /\ Attends(y, o)
  BY <1>7, FieldEffect
<1>9. o \in LinkManager
  BY <1>8 DEF Attends, Grew
<1> HIDE DEF o
<1>10. Effect(o, u) /\ Attends(o, u)
  BY <1>9, OscillationEffect
<1> HIDE DEF u
<1>11. Effect(t, u) /\ Attends(w, u)
  BY <1>1, <1>4, <1>6, <1>8, <1>10, EffectTrans
<1>12. u.ms = "Wait"
  BY <1>1, <1>11 DEF Attends, ToWait
<1> QED BY <1>3, <1>11, <1>12, WaitIsLooked DEF LinkWentDown, w, u

-----------------------------------------------------------------------------
(* What every step keeps. *)

(***************************************************************************)
(* The strengthened invariants carry over from s to t, and t is not the    *)
(* first object of an activated port to show what MismatchIsReconciled and *)
(* PendingIsExecuted speak of.                                             *)
(***************************************************************************)
Behaved(s, t) ==
  /\ s.init = Components => t.init = Components
  /\ Watchful(s) => Watchful(t)
  /\ Matches(s) => Matches(t)
  /\ s.init = Components /\ Mismatch(t) => Mismatch(s)
  /\ s.init = Components /\ LeftBehind(t) => LeftBehind(s)

(***************************************************************************)
(* Without the feature the loss of the peer's link puts the prober of a    *)
(* port that has had no route report in Wait and does not publish the      *)
(* label.  With it, no such port is reported as healthy.                   *)
(***************************************************************************)
LabelPublished == DefaultRouteFeature \/ "Down" \notin PeerLinkReports

(***************************************************************************)
(* The two notifications after which nothing looks at the port: the peer's *)
(* link goes down while there is no route, and the command that lifts the  *)
(* suspension of the heartbeats.                                           *)
(***************************************************************************)
NothingBlinds ==
  "Down" \notin PeerLinkReports /\ "ResetSuspendTimer" \notin PeerCommands

\* The invariants that hold of every port but the ones these two exclude.
Sighted(s, t) ==
  /\ LabelPublished /\ Labelled(s) => Labelled(t)
  /\ NothingBlinds /\ Looked(s) => Looked(t)

\* Both relations compose.
LEMMA BehavedTrans ==
  ASSUME NEW s, NEW t, NEW u
  PROVE  /\ Behaved(s, t) /\ Behaved(t, u) => Behaved(s, u)
         /\ Sighted(s, t) /\ Sighted(t, u) => Sighted(s, u)
BY DEF Behaved, Sighted

\* An effect behaves: a mux that was not moved is watched by what watched it,
\* and one that was moved is watched by the timer started with the move.
LEMMA EffectBehaved ==
  ASSUME NEW s, NEW t, Moved(s, t)
  PROVE  Behaved(s, t)
<1>1. \A e \in Events : s.posted[e] > 0 => t.posted[e] > 0
  BY DEF Moved, Grew, LinkManager
<1>2. /\ Completed(s, "MuxWaitTimeout") => Completed(t, "MuxWaitTimeout")
      /\ Completed(s, "SwitchActiveCommandCompletion") =>
           Completed(t, "SwitchActiveCommandCompletion")
  BY <1>1, CompletionEvents DEF Completions, Completed
<1>3. Watchful(s) => Watchful(t)
  BY <1>1, <1>2, Reports DEF Watchful, Moved, Unmoved, ToWait
<1>4. Matches(s) => Matches(t)
  BY DEF Matches, Moved, Still
<1>5. Mismatch(t) => Mismatch(s)
  <2>1. <<"GetMuxState", "None">> \in Events
    BY CompletionEvents DEF Completions
  <2>2. /\ s.posted[<<"GetMuxState", "None">>] \in Nat
        /\ t.posted[<<"GetMuxState", "None">>] \in Nat
        /\ t.posted[<<"GetMuxState", "None">>]
             >= s.posted[<<"GetMuxState", "None">>]
    BY <2>1 DEF Moved, Grew, LinkManager
  <2> QED BY <2>2 DEF Mismatch, Moved, Unmoved, ToWait
<1>6. LeftBehind(t) => LeftBehind(s)
  BY DEF LeftBehind, Moved, Still, Unmoved, ToWait
<1> QED BY <1>3, <1>4, <1>5, <1>6 DEF Behaved, Moved, Still

\* Every branch of a mode change has an effect, publishes the label, and
\* leaves the port as it was or waiting for the mux.
LEMMA ApplyModeEffect ==
  ASSUME NEW t \in LinkManager, NEW mode \in Modes
  PROVE  LET u == ApplyMode(t, mode)
         IN  Effect(t, u) /\ Labelled(u) /\ (Looked(t) => Looked(u))
<1> DEFINE p == enterLinkProberState(t, "Wait")
           a == switchMuxState(p, "ConfigMuxMode", "Active", FALSE)
           b == sendPeerSwitchCommand(t)
           c == switchMuxState(t, "LinkDown", "Standby", TRUE)
           d == startMuxProbeTimer(t)
           Fine(u) == Effect(t, u) /\ Labelled(u) /\ (Looked(t) => Looked(u))
<1>1. Effect(t, p)
  BY enterLinkProberStateEffect DEF ProberLabels
<1>2. p \in LinkManager
  BY <1>1 DEF Effect, Moved, Grew
<1> HIDE DEF p
<1>3. Effect(p, a) /\ ToWait(a)
  BY <1>2, switchMuxStateEffect DEF SwitchCauses
<1>4. Effect(t, a)
  BY <1>1, <1>3, EffectTrans
<1>5. Effect(t, b) /\ Attends(t, b)
  BY PostEffect, CompletionEvents DEF sendPeerSwitchCommand, Completions
<1>6. Effect(t, c) /\ ToWait(c)
  BY switchMuxStateEffect DEF SwitchCauses
<1>7. Effect(t, d) /\ Attends(t, d)
  BY SuspensionEffect
<1>8. Looked(t) => Looked(a) /\ Looked(b) /\ Looked(c) /\ Looked(d)
  BY <1>3, <1>5, <1>6, <1>7, AttendsLooked, WaitIsLooked DEF ToWait
<1>9. ApplyMode(t, mode) \in
        {updateMuxLinkmgrState(a), updateMuxLinkmgrState(b),
         updateMuxLinkmgrState(c), updateMuxLinkmgrState(d)}
      \/ (ApplyMode(t, mode) = t /\ t.init # Components)
  BY DEF ApplyMode, p, a, b, c, d
<1> HIDE DEF a, b, c, d
<1>10. ASSUME NEW x, Effect(t, x), Looked(t) => Looked(x)
       PROVE  Fine(updateMuxLinkmgrState(x))
  <2>1. x \in LinkManager
    BY <1>10 DEF Effect, Moved, Grew
  <2> QED
    BY <1>10, <2>1, updateMuxLinkmgrStateEffect, AttendsLooked, EffectTrans
<1>11. t.init # Components => Fine(t)
  BY EffectRefl DEF Labelled
<1> QED BY <1>4, <1>5, <1>6, <1>7, <1>8, <1>9, <1>10, <1>11

(***************************************************************************)
(* A mode change behaves: a mode taken over tells the prober, and one that *)
(* is postponed is so because the mux is in Wait.  The request it makes    *)
(* goes by the mode the port was in.                                       *)
(***************************************************************************)
LEMMA handleMuxConfigNotificationBehaves ==
  ASSUME NEW t \in LinkManager, NEW mode \in Modes
  PROVE  LET h == handleMuxConfigNotification(t, mode)
         IN  /\ Grew(t, h) /\ Behaved(t, h) /\ Sighted(t, h) /\ Asked(t, h)
             /\ h.init = t.init
             /\ Looked(t) => Looked(h)
             /\ t.ms # "Wait" => h.pending = t.pending
<1> DEFINE h == handleMuxConfigNotification(t, mode)
           w == [t EXCEPT !.pending = mode]
           a == ApplyMode(t, mode)
           m == [a EXCEPT !.mode = mode]
           d == shutdownOrRestartLinkProberOnDefaultRoute(m)
<1>1. Grew(t, h)
  BY KeptRefl, handleMuxConfigNotificationKept, KeptGrew
<1>2. ASSUME t.ms = "Wait", h = w, mode \notin {"Auto", "Manual"}
      PROVE  /\ Behaved(t, h) /\ Sighted(t, h) /\ Asked(t, h)
             /\ Looked(h) /\ h.init = t.init
  <2>1. /\ w.ms = t.ms /\ w.msm = t.msm /\ w.cause = t.cause
        /\ w.armed = t.armed /\ w.posted = t.posted /\ w.init = t.init
        /\ w.mode = t.mode /\ w.route = t.route /\ w.shutdown = t.shutdown
        /\ w.request = t.request
    BY DEF LinkManager
  <2>2. Behaved(t, w)
    BY <1>2, <2>1
    DEF Behaved, Watchful, Completed, Matches, Mismatch, LeftBehind
  <2>3. Looked(w) /\ Labelled(w)
    BY <1>2, <2>1, WaitIsLooked
  <2> QED BY <1>2, <2>1, <2>2, <2>3 DEF Sighted, Asked
<1>3. ASSUME h = d
      PROVE  /\ Behaved(t, h) /\ Sighted(t, h) /\ Asked(t, h)
             /\ Looked(t) => Looked(h)
             /\ h.init = t.init /\ h.pending = t.pending
  <2>1. Effect(t, a) /\ Labelled(a) /\ (Looked(t) => Looked(a))
    BY ApplyModeEffect
  <2>2. a \in LinkManager /\ a.init = t.init /\ a.pending = t.pending
    BY <2>1 DEF Effect, Moved, Grew, Still
  <2> HIDE DEF a
  <2>3. m \in LinkManager /\ m.mode = mode
    BY <2>2 DEF LinkManager
  <2>4. /\ m.ps = a.ps /\ m.psm = a.psm /\ m.ms = a.ms /\ m.msm = a.msm
        /\ m.ls = a.ls /\ m.lsm = a.lsm /\ m.cause = a.cause
        /\ m.armed = a.armed /\ m.posted = a.posted /\ m.init = a.init
        /\ m.route = a.route /\ m.shutdown = a.shutdown
        /\ m.lastSet = a.lastSet /\ m.pending = a.pending
        /\ m.label = a.label /\ m.request = a.request
    BY <2>2 DEF LinkManager
  <2> HIDE DEF m
  <2>5. /\ d.ps = a.ps /\ d.psm = a.psm /\ d.ms = a.ms /\ d.msm = a.msm
        /\ d.ls = a.ls /\ d.lsm = a.lsm /\ d.cause = a.cause
        /\ d.armed = a.armed /\ d.posted = a.posted /\ d.init = a.init
        /\ d.route = a.route /\ d.mode = mode
        /\ d.lastSet = a.lastSet /\ d.pending = a.pending
        /\ d.label = a.label /\ d.request = a.request
    BY <2>3, <2>4 DEF LinkManager, shutdownOrRestartLinkProberOnDefaultRoute
  <2>6. d.shutdown = IF a.init = Components
                     THEN mode \in {"Auto", "Standby"} /\ a.route = "NA"
                     ELSE a.shutdown
    BY <2>3, <2>4 DEF LinkManager, shutdownOrRestartLinkProberOnDefaultRoute
  <2> HIDE DEF d
  <2>7. Behaved(a, d)
    BY <2>5, <2>6
    DEF Behaved, Watchful, Completed, Matches, Mismatch, LeftBehind
  <2>8. Labelled(d) /\ (Looked(a) => Looked(d))
    BY <2>1, <2>5 DEF Labelled, Healthy, Looked, Fresh, Completed
  <2>9. Behaved(t, d)
    BY <2>1, <2>7, EffectBehaved, BehavedTrans DEF Effect
  <2>10. Asked(t, d)
    BY <2>1, <2>5 DEF Effect, Asked
  <2> QED
    BY <1>3, <2>1, <2>2, <2>5, <2>8, <2>9, <2>10 DEF Sighted
<1>4. (h = w /\ t.ms = "Wait" /\ mode \notin {"Auto", "Manual"}) \/ h = d
  BY DEF handleMuxConfigNotification
<1> HIDE DEF h
<1> QED BY <1>1, <1>2, <1>3, <1>4 DEF h

-----------------------------------------------------------------------------
(* Steps of the link manager. *)

\* OperatorHoldsDirection of a step that leaves the object as t.
Directed(t) ==
  /\ Initialized /\ lm.mode # "Auto"
  /\ t.request.label = "Active" /\ t.request # lm.request
  => t.request.cause = "MatchingHardwareState" /\ lm.ms = "Active"

\* What a step that leaves the object as t has to keep.
Keeps(t) == Behaved(lm, t) /\ Sighted(lm, t) /\ Directed(t)

\* s is the object as a handler finds it.
AsFound(s) ==
  /\ s \in LinkManager /\ Still(lm, s)
  /\ s.ps = lm.ps /\ s.psm = lm.psm /\ s.ms = lm.ms /\ s.msm = lm.msm
  /\ s.ls = lm.ls /\ s.lsm = lm.lsm
  /\ s.cause = lm.cause /\ s.label = lm.label /\ s.lastSet = lm.lastSet
  /\ s.armed = lm.armed
  /\ s.request = NoRequest

\* A notification finds the object as it is.
LEMMA FoundAsFound ==
  ASSUME IInv
  PROVE  /\ AsFound(Found) /\ Found.posted = lm.posted
         /\ Behaved(lm, Found) /\ Sighted(lm, Found)
<1>1. Found \in LinkManager
  BY FoundCoherent
<1>2. AsFound(Found) /\ Found.posted = lm.posted
  BY <1>1 DEF AsFound, Found, IInv, LinkManager, Still
<1> HIDE DEF Found
<1>3. Behaved(lm, Found)
  BY <1>2
  DEF Behaved, Watchful, Completed, Matches, Mismatch, LeftBehind, AsFound, Still
<1>4. Sighted(lm, Found)
  BY <1>2
  DEF Sighted, Labelled, Healthy, Looked, Fresh, Completed, AsFound, Still
<1> QED BY <1>2, <1>3, <1>4

\* A handler finds the object without itself.
LEMMA TakeAsFound ==
  ASSUME IInv, NEW e \in Events, lm.posted[e] > 0
  PROVE  /\ AsFound(Take(e))
         /\ \A x \in Events \ {e} : Take(e).posted[x] = lm.posted[x]
<1> DEFINE s == Take(e)
           p == [lm.posted EXCEPT ![e] = @ - 1]
           q == [lm EXCEPT !.posted = p]
<1>1. lm \in LinkManager
  BY DEF IInv
<1>2. s \in LinkManager /\ \A x \in Events \ {e} : s.posted[x] = lm.posted[x]
  BY TakeIsCoherent
<1>3. s = [q EXCEPT !.request = NoRequest]
  BY <1>1 DEF Take, LinkManager
<1> HIDE DEF p
<1>4. /\ s.ps = lm.ps /\ s.psm = lm.psm /\ s.ms = lm.ms /\ s.msm = lm.msm
      /\ s.ls = lm.ls /\ s.lsm = lm.lsm
      /\ s.cause = lm.cause /\ s.label = lm.label /\ s.lastSet = lm.lastSet
      /\ s.armed = lm.armed /\ s.request = NoRequest /\ Still(lm, s)
  BY <1>1, <1>3 DEF LinkManager, Still
<1> HIDE DEF s
<1>5. AsFound(s)
  BY <1>2, <1>4 DEF AsFound
<1> QED BY <1>2, <1>5 DEF s

\* Nothing is lost with a handler that no duty counts on.
LEMMA TakeBehaves ==
  ASSUME IInv, NEW e \in Events, lm.posted[e] > 0
  PROVE  /\ /\ e \notin {"MuxWaitTimeout", "SwitchActiveCommandCompletion",
                         "GetMuxState"} \X {"None"}
            /\ \A l \in Reported : e # <<"MuxStateEvent", l>>
            => Behaved(lm, Take(e))
         /\ /\ e \notin {"MuxProbeTimeout", "SuspendTimerExpiry"} \X {"None"}
            /\ \A l \in Detected : e # <<"LinkProber", l>>
            /\ \A l \in Reported : e # <<"MuxState", l>>
            /\ \A l \in LinkLabels : e # <<"LinkState", l>>
            => Sighted(lm, Take(e))
         /\ Labelled(lm) => Labelled(Take(e))
<1> DEFINE s == Take(e)
<1>1. AsFound(s) /\ \A x \in Events \ {e} : s.posted[x] = lm.posted[x]
  BY TakeAsFound
<1>2. lm \in LinkManager
  BY DEF IInv
<1> HIDE DEF s
<1>3. ASSUME e \notin {"MuxWaitTimeout", "SwitchActiveCommandCompletion",
                       "GetMuxState"} \X {"None"},
             \A l \in Reported : e # <<"MuxStateEvent", l>>
      PROVE  Behaved(lm, s)
  <2>1. \A k \in {"MuxWaitTimeout", "SwitchActiveCommandCompletion",
                  "GetMuxState"} : <<k, "None">> \in Events \ {e}
    BY <1>3, CompletionEvents DEF Completions
  <2>2. \A l \in Reported : <<"MuxStateEvent", l>> \in Events \ {e}
    BY <1>3, Reports
  <2> QED
    BY <1>1, <2>1, <2>2
    DEF Behaved, Watchful, Completed, Matches, Mismatch, LeftBehind, AsFound, Still
<1>4. Labelled(lm) => Labelled(s)
  BY <1>1 DEF Labelled, Healthy, AsFound, Still
<1>5. ASSUME e \notin {"MuxProbeTimeout", "SuspendTimerExpiry"} \X {"None"},
             \A l \in Detected : e # <<"LinkProber", l>>,
             \A l \in Reported : e # <<"MuxState", l>>,
             \A l \in LinkLabels : e # <<"LinkState", l>>
      PROVE  Sighted(lm, s)
  <2>1. \A k \in {"MuxProbeTimeout", "SuspendTimerExpiry"} :
          <<k, "None">> \in Events \ {e}
    BY <1>5, CompletionEvents DEF Completions
  <2>2. /\ \A l \in Detected : <<"LinkProber", l>> \in Events \ {e}
        /\ \A l \in Reported : <<"MuxState", l>> \in Events \ {e}
        /\ \A l \in LinkLabels : <<"LinkState", l>> \in Events \ {e}
    BY <1>5, Reports
  <2>3. lm.lsm \in LinkLabels
    BY <1>2 DEF LinkManager
  <2>4. Fresh(lm) => Fresh(s)
    BY <1>1, <2>2, <2>3 DEF Fresh, AsFound
  <2>5. Looked(lm) => Looked(s)
    BY <1>1, <2>1, <2>4 DEF Looked, Completed, AsFound, Still
  <2> QED BY <1>4, <2>5 DEF Sighted
<1> QED BY <1>3, <1>4, <1>5 DEF s

\* The request of a method goes by the mode the handler found.
LEMMA AskedIsDirected ==
  ASSUME NEW s, NEW t, AsFound(s), Asked(s, t)
  PROVE  Directed(t)
BY DEF AsFound, Still, Asked, Directed, NoRequest

\* A handler that probes or switches the mux keeps everything.
LEMMA ToWaitKeeps ==
  ASSUME NEW s, NEW t, AsFound(s), Moved(s, t), ToWait(t)
  PROVE  /\ Behaved(lm, t) /\ Sighted(lm, t)
         /\ Effect(s, t) => Keeps(t)
<1>1. Still(lm, t)
  BY DEF AsFound, Moved, Still
<1>2. Behaved(lm, t)
  BY <1>1
  DEF Behaved, Watchful, Matches, Mismatch, LeftBehind, ToWait, Still
<1>3. Sighted(lm, t)
  BY WaitIsLooked DEF Sighted, ToWait
<1> QED BY <1>2, <1>3, AskedIsDirected DEF Effect, Keeps

\* A handler that has another effect keeps everything when what it finds and
\* what it leaves to look at does.
LEMMA EffectKeeps ==
  ASSUME NEW s, NEW t, AsFound(s), Effect(s, t),
         Behaved(lm, s), Sighted(lm, t)
  PROVE  Keeps(t)
BY EffectBehaved, BehavedTrans, AskedIsDirected DEF Effect, Keeps

\* A handler that leaves the object as it found it.
LEMMA NothingKeeps ==
  ASSUME NEW s, AsFound(s), Behaved(lm, s), Sighted(lm, s)
  PROVE  Keeps(s)
BY EffectKeeps, EffectRefl DEF AsFound

\* What is posted or armed besides does not blind the port.
LEMMA AttendsSighted ==
  ASSUME NEW s, NEW t, Attends(s, t), t.route = s.route, t.label = s.label
  PROVE  Sighted(s, t)
<1>1. Labelled(s) => Labelled(t)
  BY DEF Labelled, Healthy, Attends
<1> QED BY <1>1, AttendsLooked DEF Sighted

\* A completion is taken off the strand.
LEMMA CompletionAsFound ==
  ASSUME IInv, NEW k \in Completions, lm.posted[<<k, "None">>] > 0
  PROVE  LET e == <<k, "None">>
         IN  /\ AsFound(Take(e)) /\ Take(e) \in LinkManager
             /\ \A x \in Events \ {e} : Take(e).posted[x] = lm.posted[x]
             /\ k \notin {"MuxWaitTimeout", "SwitchActiveCommandCompletion",
                          "GetMuxState"} => Behaved(lm, Take(e))
             /\ k \notin {"MuxProbeTimeout", "SuspendTimerExpiry"} =>
                  Sighted(lm, Take(e))
             /\ Labelled(lm) => Labelled(Take(e))
<1> DEFINE e == <<k, "None">>
<1>1. e \in Events /\ e[1] = k
  BY CompletionEvents
<1>2. /\ \A l \in Detected : e # <<"LinkProber", l>>
      /\ \A l \in Reported : e # <<"MuxState", l>> /\ e # <<"MuxStateEvent", l>>
      /\ \A l \in LinkLabels : e # <<"LinkState", l>>
  BY DEF Completions
<1>3. /\ k \notin {"MuxWaitTimeout", "SwitchActiveCommandCompletion",
                   "GetMuxState"} =>
           e \notin {"MuxWaitTimeout", "SwitchActiveCommandCompletion",
                     "GetMuxState"} \X {"None"}
      /\ k \notin {"MuxProbeTimeout", "SuspendTimerExpiry"} =>
           e \notin {"MuxProbeTimeout", "SuspendTimerExpiry"} \X {"None"}
  OBVIOUS
<1> HIDE DEF e
<1>4. lm.posted[e] > 0
  BY DEF e
<1> QED BY <1>1, <1>2, <1>3, <1>4, TakeAsFound, TakeBehaves DEF AsFound, e

\* The end of a suspension: it is taken without effect only where no
\* suspension is counted on.
LEMMA handleSuspendTimerExpiryKeeps ==
  ASSUME IInv, handleSuspendTimerExpiry
  PROVE  Keeps(lm')
<1> DEFINE e == <<"SuspendTimerExpiry", "None">>
           s == Take(e)
           w == enterMuxWaitState(s)
<1>1. lm.posted[e] > 0
  BY DEF handleSuspendTimerExpiry, Run
<1>2. /\ AsFound(s) /\ s \in LinkManager /\ Behaved(lm, s)
      /\ \A x \in Events \ {e} : s.posted[x] = lm.posted[x]
      /\ Labelled(lm) => Labelled(s)
  BY <1>1, CompletionAsFound DEF Completions
<1>3. \/ lm' = w
      \/ lm' = s /\ <<s.ps, s.ms, s.ls>> # <<"Unknown", "Active", "Up">>
  BY DEF handleSuspendTimerExpiry, Run, Step
<1> HIDE DEF s
<1>4. CASE lm' = w
  BY <1>2, <1>4, enterMuxWaitStateEffect, ToWaitKeeps DEF Effect
<1>5. CASE lm' = s /\ <<s.ps, s.ms, s.ls>> # <<"Unknown", "Active", "Up">>
  <2>1. <<"MuxProbeTimeout", "None">> \in Events \ {e}
    BY CompletionEvents DEF Completions
  <2>2. /\ \A l \in Detected : <<"LinkProber", l>> \in Events \ {e}
        /\ \A l \in Reported : <<"MuxState", l>> \in Events \ {e}
        /\ \A l \in LinkLabels : <<"LinkState", l>> \in Events \ {e}
    BY Reports
  <2>3. lm.lsm \in LinkLabels
    BY DEF IInv, LinkManager
  <2>4. Fresh(lm) => Fresh(s)
    BY <1>2, <2>2, <2>3 DEF Fresh, AsFound
  <2>5. Looked(lm) => Looked(s)
    BY <1>2, <1>5, <2>1, <2>4 DEF Looked, Completed, AsFound, Still
  <2> QED BY <1>2, <1>5, <2>5, NothingKeeps DEF Sighted
<1> QED BY <1>3, <1>4, <1>5

\* The probe timeout: whoever counts on it is probed.
LEMMA handleMuxProbeTimeoutKeeps ==
  ASSUME IInv, handleMuxProbeTimeout
  PROVE  Keeps(lm')
<1> DEFINE e == <<"MuxProbeTimeout", "None">>
           s == Take(e)
           w == enterMuxWaitState(s)
           probed == \/ s.ps = "Wait" \/ s.ms = "Unknown" \/ s.ls = "Down"
                     \/ <<s.ps, s.ms>> \in {<<"Standby", "Active">>,
                                            <<"Active", "Standby">>}
<1>1. lm.posted[e] > 0
  BY DEF handleMuxProbeTimeout, Run
<1>2. /\ AsFound(s) /\ s \in LinkManager /\ Behaved(lm, s)
      /\ \A x \in Events \ {e} : s.posted[x] = lm.posted[x]
      /\ Labelled(lm) => Labelled(s)
  BY <1>1, CompletionAsFound DEF Completions
<1>3. lm' = w \/ (lm' = s /\ ~probed)
  BY DEF handleMuxProbeTimeout, Run, Step
<1> HIDE DEF s
<1>4. CASE lm' = w
  BY <1>2, <1>4, enterMuxWaitStateEffect, ToWaitKeeps DEF Effect
<1>5. CASE lm' = s /\ ~probed
  <2>1. <<"SuspendTimerExpiry", "None">> \in Events \ {e}
    BY CompletionEvents DEF Completions
  <2>2. /\ \A l \in Detected : <<"LinkProber", l>> \in Events \ {e}
        /\ \A l \in Reported : <<"MuxState", l>> \in Events \ {e}
        /\ \A l \in LinkLabels : <<"LinkState", l>> \in Events \ {e}
    BY Reports
  <2>3. lm.lsm \in LinkLabels
    BY DEF IInv, LinkManager
  <2>4. Fresh(lm) => Fresh(s)
    BY <1>2, <2>2, <2>3 DEF Fresh, AsFound
  <2>5. s.ps \in ProberLabels
    BY <1>2 DEF LinkManager
  <2>6. s.ms \in {"Active", "Standby", "Unknown"} /\ s.ps # s.ms =>
          s.ps = "Unknown"
    BY <1>5, <2>5 DEF ProberLabels
  <2>7. Looked(lm) => Looked(s)
    BY <1>2, <2>1, <2>4, <2>6 DEF Looked, Completed, AsFound, Still
  <2> QED BY <1>2, <1>5, <2>7, NothingKeeps DEF Sighted
<1> QED BY <1>3, <1>4, <1>5

\* The wait timeout: when the mux still waits for xcvrd the command to the
\* peer follows it.
LEMMA handleMuxWaitTimeoutKeeps ==
  ASSUME IInv, handleMuxWaitTimeout
  PROVE  Keeps(lm')
<1> DEFINE e == <<"MuxWaitTimeout", "None">>
           c == <<"SwitchActiveCommandCompletion", "None">>
           s == Take(e)
           w == sendPeerSwitchCommand(s)
<1>1. lm.posted[e] > 0
  BY DEF handleMuxWaitTimeout, Run
<1>2. /\ AsFound(s) /\ s \in LinkManager /\ Sighted(lm, s)
      /\ \A x \in Events \ {e} : s.posted[x] = lm.posted[x]
  BY <1>1, CompletionAsFound DEF Completions
<1>3. lm' = IF s.cause = "DriverUpdate" THEN w ELSE s
  BY DEF handleMuxWaitTimeout, Run, Step
<1> HIDE DEF s
<1>4. c \in Events
  BY CompletionEvents DEF Completions
<1>5. Effect(s, w) /\ Attends(s, w)
  BY <1>2, <1>4, PostEffect DEF sendPeerSwitchCommand
<1>6. w.posted[c] > 0 /\ w.route = s.route /\ w.label = s.label
  BY <1>2, <1>4 DEF sendPeerSwitchCommand, Post, LinkManager
<1> HIDE DEF w
<1>7. Effect(s, lm') /\ Sighted(lm, lm')
  BY <1>2, <1>3, <1>5, <1>6, EffectRefl, AttendsSighted, BehavedTrans
<1>8. Watchful(lm')
  <2>1. CASE s.cause = "DriverUpdate"
    BY <1>3, <1>6, <2>1 DEF Watchful, Completed
  <2>2. CASE s.cause # "DriverUpdate"
    BY <1>3, <2>2 DEF Watchful
  <2> QED BY <2>1, <2>2
<1>9. <<"GetMuxState", "None">> \in Events \ {e}
  BY CompletionEvents DEF Completions
<1>10. Behaved(s, lm')
  BY <1>7, EffectBehaved DEF Effect
<1>11. Behaved(lm, lm')
  <2>1. Matches(lm) => Matches(s)
    BY <1>2 DEF Matches, AsFound, Still
  <2>2. lm.init = s.init /\ (Mismatch(s) => Mismatch(lm))
        /\ (LeftBehind(s) => LeftBehind(lm))
    BY <1>2, <1>9 DEF Mismatch, LeftBehind, AsFound, Still
  <2> QED BY <1>8, <1>10, <2>1, <2>2 DEF Behaved
<1> QED BY <1>2, <1>7, <1>11, AskedIsDirected DEF Effect, Keeps

\* The completion of the peer command: a mux that is not standby is switched.
LEMMA handleSwitchActiveCommandCompletionKeeps ==
  ASSUME IInv, handleSwitchActiveCommandCompletion
  PROVE  Keeps(lm')
<1> DEFINE e == <<"SwitchActiveCommandCompletion", "None">>
           s == Take(e)
           p == enterLinkProberState(s, "Wait")
           w == switchMuxState(p, "PeerCommandSent", "Standby", TRUE)
<1>1. lm.posted[e] > 0
  BY DEF handleSwitchActiveCommandCompletion, Run
<1>2. /\ AsFound(s) /\ s \in LinkManager /\ Sighted(lm, s)
      /\ \A x \in Events \ {e} : s.posted[x] = lm.posted[x]
  BY <1>1, CompletionAsFound DEF Completions
<1>3. lm' = w \/ (lm' = s /\ s.ms = "Standby")
  BY DEF handleSwitchActiveCommandCompletion, Run, Step
<1> HIDE DEF s
<1>4. Effect(s, p)
  BY <1>2, enterLinkProberStateEffect DEF ProberLabels
<1>5. p \in LinkManager
  BY <1>4 DEF Effect, Moved, Grew
<1> HIDE DEF p
<1>6. Effect(p, w) /\ ToWait(w)
  BY <1>5, switchMuxStateEffect DEF SwitchCauses
<1> HIDE DEF w
<1>7. Effect(s, w)
  BY <1>4, <1>6, EffectTrans
<1>8. lm' = w => Keeps(lm')
  BY <1>2, <1>6, <1>7, ToWaitKeeps DEF Effect
<1>9. <<"GetMuxState", "None">> \in Events \ {e}
  BY CompletionEvents DEF Completions
<1>10. s.ms = "Standby" => Behaved(lm, s)
  BY <1>2, <1>9
  DEF Behaved, Watchful, Matches, Mismatch, LeftBehind, AsFound, Still
<1>11. s.ms = "Standby" => Keeps(s)
  BY <1>2, <1>10, NothingKeeps
<1> QED BY <1>3, <1>8, <1>11

\* The oscillation timeout and its abortion.
LEMMA OscillationKeeps ==
  ASSUME IInv
  PROVE  /\ handleOscillationTimeout => Keeps(lm')
         /\ OscillationAborted => Keeps(lm')
<1>1. ASSUME NEW k \in {"OscillationTimeout", "OscillationAborted"},
             lm.posted[<<k, "None">>] > 0
      PROVE  LET a == [Take(<<k, "None">>) EXCEPT !.alive = FALSE]
             IN  /\ Keeps(a)
                 /\ Keeps(switchMuxState(a, "TimedOscillation", "Standby", FALSE))
  <2> DEFINE s == Take(<<k, "None">>)
             a == [s EXCEPT !.alive = FALSE]
             w == switchMuxState(a, "TimedOscillation", "Standby", FALSE)
  <2>1. AsFound(s) /\ s \in LinkManager /\ Behaved(lm, s) /\ Sighted(lm, s)
    BY <1>1, CompletionAsFound DEF Completions
  <2> HIDE DEF s
  <2>2. Effect(s, a) /\ Attends(s, a)
    BY <2>1, FieldEffect
  <2>3. a \in LinkManager /\ a.route = s.route /\ a.label = s.label
    BY <2>1 DEF LinkManager
  <2> HIDE DEF a
  <2>4. Keeps(a)
    BY <2>1, <2>2, <2>3, AttendsSighted, BehavedTrans, EffectKeeps
  <2>5. Effect(a, w) /\ ToWait(w)
    BY <2>3, switchMuxStateEffect DEF SwitchCauses
  <2> HIDE DEF w
  <2>6. Keeps(w)
    BY <2>1, <2>2, <2>5, EffectTrans, ToWaitKeeps DEF Effect
  <2> QED BY <2>4, <2>6 DEF w, a, s
<1> QED BY <1>1 DEF handleOscillationTimeout, OscillationAborted, Run, Step

\* The value of STATE_DB: it is taken without effect only when it is where the
\* mux is and where orchagent was asked to switch to; otherwise orchagent is
\* asked for what the hardware shows, in any mode.
LEMMA handleGetMuxStateNotificationKeeps ==
  ASSUME IInv, NEW l \in SwssReports, handleGetMuxStateNotification(l)
  PROVE  Keeps(lm')
<1> DEFINE e == <<"GetMuxState", "None">>
           s == Take(e)
           w == Switched(s, "MatchingHardwareState", s.ms)
<1>1. lm.posted[e] > 0
  BY DEF handleGetMuxStateNotification, Run
<1>2. /\ AsFound(s) /\ s \in LinkManager /\ Sighted(lm, s)
      /\ \A x \in Events \ {e} : s.posted[x] = lm.posted[x]
  BY <1>1, CompletionAsFound DEF Completions
<1>3. \/ s.ms \in {"Active", "Standby"} /\ lm' = w
      \/ /\ lm' = s
         /\ ~Initialized \/ s.ms \notin {"Active", "Standby"}
              \/ s.lastSet = s.ms
  BY DEF handleGetMuxStateNotification, Run, Step, switchMuxState
<1> HIDE DEF s
<1>4. CASE s.ms \in {"Active", "Standby"} /\ lm' = w
  <2>1. /\ Moved(s, w) /\ ToWait(w)
        /\ w.request = [label |-> s.ms, cause |-> "MatchingHardwareState"]
    BY <1>2, <1>4, SwitchedEffect DEF SwitchCauses
  <2> HIDE DEF w
  <2>2. Directed(w)
    BY <1>2, <2>1 DEF Directed, AsFound
  <2> QED BY <1>2, <1>4, <2>1, <2>2, ToWaitKeeps DEF Keeps
<1>5. CASE /\ lm' = s
           /\ ~Initialized \/ s.ms \notin {"Active", "Standby"}
                \/ s.lastSet = s.ms
  <2>1. lm.init = Components => ~Mismatch(s)
    BY <1>2, <1>5 DEF Mismatch, Initialized
  <2>2. /\ \A k \in {"MuxWaitTimeout", "SwitchActiveCommandCompletion"} :
             <<k, "None">> \in Events \ {e}
        /\ \A x \in Reported : <<"MuxStateEvent", x>> \in Events \ {e}
    BY CompletionEvents, Reports DEF Completions
  <2>3. Behaved(lm, s)
    BY <1>2, <2>1, <2>2
    DEF Behaved, Watchful, Completed, Matches, LeftBehind, AsFound, Still
  <2> QED BY <1>2, <1>5, <2>3, NothingKeeps
<1> QED BY <1>3, <1>4, <1>5

-----------------------------------------------------------------------------
(* Notifications. *)

(***************************************************************************)
(* The step that makes the port whole activates it: prober and mux agree,  *)
(* the label is published, and whether heartbeats are shut down follows    *)
(* the mode and the route reported so far.                                 *)
(***************************************************************************)
LEMMA ActivationKeeps ==
  ASSUME NEW i \in LinkManager, ~Initialized,
         i.route = lm.route, i.shutdown = lm.shutdown,
         Watchful(lm) => Watchful(i)
  PROVE  Keeps(activateStateMachine(i))
<1> DEFINE p == initLinkProberState(i)
           d == shutdownOrRestartLinkProberOnDefaultRoute(p)
           r == IF DefaultRouteFeature THEN d ELSE p
           u == updateMuxLinkmgrState(r)
<1>1. /\ Effect(i, p) /\ p.ms = i.ms /\ p.msm = i.msm /\ p.cause = i.cause
      /\ p.armed = i.armed /\ p.posted = i.posted
      /\ p.ps = IF p.ms = "Error" THEN "Wait" ELSE p.ms
  BY initLinkProberStateEffect
<1>2. p \in LinkManager /\ Still(i, p)
  BY <1>1 DEF Effect, Moved, Grew
<1> HIDE DEF p
<1>3. /\ d.ps = p.ps /\ d.ms = p.ms /\ d.msm = p.msm /\ d.cause = p.cause
      /\ d.armed = p.armed /\ d.posted = p.posted /\ d.init = p.init
      /\ d.route = p.route /\ d.mode = p.mode
      /\ p.init = Components =>
           d.shutdown = (p.mode \in {"Auto", "Standby"} /\ p.route = "NA")
  BY <1>2 DEF LinkManager, shutdownOrRestartLinkProberOnDefaultRoute
<1>4. d \in LinkManager
  BY <1>2, KeptRefl, shutdownOrRestartKept, KeptTypes
<1> HIDE DEF d
<1>5. /\ r \in LinkManager
      /\ r.ps = p.ps /\ r.ms = p.ms /\ r.msm = p.msm /\ r.cause = p.cause
      /\ r.armed = p.armed /\ r.posted = p.posted /\ r.init = p.init
      /\ r.route = p.route /\ r.mode = p.mode
  BY <1>2, <1>3, <1>4
<1>6. Matches(lm) /\ p.init = Components => Matches(r)
  BY <1>2, <1>3 DEF Matches, Still, Initialized
<1> HIDE DEF r
<1>7. Looked(r)
  BY <1>1, <1>5 DEF Looked
<1>8. Effect(r, u) /\ Attends(r, u) /\ Labelled(u)
  BY <1>5, updateMuxLinkmgrStateEffect
<1> HIDE DEF u
<1>9. Looked(u)
  BY <1>7, <1>8, AttendsLooked
<1>10. Behaved(r, u)
  BY <1>8, EffectBehaved DEF Effect
<1>11. Watchful(lm) => Watchful(r)
  BY <1>1, <1>5 DEF Watchful, Completed
<1>12. CASE i.init = Components
  <2>1. activateStateMachine(i) = u
    BY <1>12 DEF activateStateMachine, u, r, d, p
  <2>2. Behaved(lm, u)
    BY <1>2, <1>6, <1>10, <1>11, <1>12 DEF Behaved, Initialized, Still
  <2> QED BY <1>8, <1>9, <2>1, <2>2 DEF Keeps, Sighted, Directed
<1>13. CASE i.init # Components
  <2>1. activateStateMachine(i) = i
    BY <1>13 DEF activateStateMachine
  <2>2. Behaved(lm, i)
    BY <1>13 DEF Behaved, Matches, Initialized
  <2> QED
    BY <1>13, <2>1, <2>2 DEF Keeps, Sighted, Directed, Labelled, Looked
<1> QED BY <1>12, <1>13

\* Before the activation only the watch over the mux counts.
LEMMA EarlyKeeps ==
  ASSUME NEW t \in LinkManager, ~Initialized,
         t.init = lm.init, t.route = lm.route, t.shutdown = lm.shutdown,
         Watchful(lm) => Watchful(t)
  PROVE  Keeps(t)
BY DEF Keeps, Behaved, Sighted, Directed, Matches, Labelled, Looked, Initialized

\* The server address keeps everything.
LEMMA handleSwssBladeIpv4AddressUpdateKeeps ==
  ASSUME IInv, handleSwssBladeIpv4AddressUpdate
  PROVE  Keeps(lm')
<1> DEFINE n == Found.init \cup {"LinkProber"}
           i == [Found EXCEPT !.init = n]
<1>1. AsFound(Found) /\ Found \in LinkManager /\ Found.posted = lm.posted
  BY FoundAsFound DEF AsFound
<1>2. n \in SUBSET Components
  BY <1>1 DEF LinkManager, Components
<1> HIDE DEF n
<1>3. /\ i \in LinkManager /\ i.route = lm.route /\ i.shutdown = lm.shutdown
      /\ i.ms = lm.ms /\ i.msm = lm.msm /\ i.cause = lm.cause
      /\ i.armed = lm.armed /\ i.posted = lm.posted
  BY <1>1, <1>2 DEF LinkManager, AsFound, Still
<1>4. Watchful(lm) => Watchful(i)
  BY <1>3 DEF Watchful, Completed
<1>5. lm' = activateStateMachine(i) /\ ~Initialized
  BY DEF handleSwssBladeIpv4AddressUpdate, Step, n, Created, Initialized, Components
<1> HIDE DEF i
<1> QED BY <1>3, <1>4, <1>5, ActivationKeeps

\* The object whose wait timer an answer has just cancelled.
LEMMA AnsweredFields ==
  ASSUME IInv
  PROVE  LET s == Disarm(Found, "wait")
         IN  /\ s \in LinkManager /\ AsFound([s EXCEPT !.armed = lm.armed])
             /\ s.posted = lm.posted /\ s.armed = lm.armed \ {"wait"}
             /\ Still(lm, s)
             /\ s.ps = lm.ps /\ s.psm = lm.psm /\ s.ms = lm.ms
             /\ s.msm = lm.msm /\ s.ls = lm.ls /\ s.lsm = lm.lsm
             /\ s.cause = lm.cause /\ s.label = lm.label
             /\ s.lastSet = lm.lastSet /\ s.request = NoRequest
<1>1. AsFound(Found) /\ Found \in LinkManager /\ Found.posted = lm.posted
  BY FoundAsFound DEF AsFound
<1> HIDE DEF Found
<1>2. Disarm(Found, "wait") \in LinkManager
  BY <1>1, KeptRefl, ArmKept, KeptTypes DEF Timers
<1>3. [Disarm(Found, "wait") EXCEPT !.armed = lm.armed] = Found
  BY <1>1 DEF Disarm, LinkManager, AsFound
<1> QED BY <1>1, <1>2, <1>3 DEF Disarm, LinkManager, AsFound, Still

\* An answer about the mux that an activated port passes to its state machine
\* takes over the watch from the timer it cancels.
LEMMA AnswerKeeps ==
  ASSUME IInv, NEW l \in Reported
  PROVE  Keeps(Post(Disarm(Found, "wait"), <<"MuxStateEvent", l>>))
<1> DEFINE s == Disarm(Found, "wait")
           e == <<"MuxStateEvent", l>>
           t == Post(s, e)
<1>1. /\ s \in LinkManager /\ Still(lm, s)
      /\ s.posted = lm.posted /\ s.armed = lm.armed \ {"wait"}
      /\ s.ps = lm.ps /\ s.psm = lm.psm /\ s.ms = lm.ms
      /\ s.msm = lm.msm /\ s.ls = lm.ls /\ s.lsm = lm.lsm
      /\ s.cause = lm.cause /\ s.label = lm.label
      /\ s.lastSet = lm.lastSet /\ s.request = NoRequest
  BY AnsweredFields
<1> HIDE DEF s
<1>2. e \in Events
  BY Reports
<1>3. Effect(s, t) /\ Attends(s, t)
  BY <1>1, <1>2, PostEffect
<1>4. /\ t.posted[e] > 0 /\ t.label = s.label /\ t.route = s.route
      /\ t.request = NoRequest
  BY <1>1, <1>2 DEF Post, LinkManager
<1> HIDE DEF t
<1>5. Behaved(s, t) /\ Sighted(s, t)
  BY <1>3, <1>4, EffectBehaved, AttendsSighted DEF Effect
<1>6. Sighted(lm, s)
  BY <1>1 DEF Sighted, Labelled, Healthy, Looked, Fresh, Completed, Still
<1>7. Watchful(t)
  BY <1>4 DEF Watchful, e
<1>8. /\ lm.init = s.init
      /\ Matches(lm) => Matches(s)
      /\ Mismatch(s) => Mismatch(lm)
      /\ LeftBehind(s) => LeftBehind(lm)
  BY <1>1 DEF Matches, Mismatch, LeftBehind, Still
<1>9. Behaved(lm, t)
  BY <1>5, <1>7, <1>8 DEF Behaved
<1>10. Directed(t)
  BY <1>4 DEF Directed, NoRequest
<1> QED BY <1>5, <1>6, <1>9, <1>10, BehavedTrans DEF Keeps, s, t, e

\* A mux state other than Wait that makes the port whole.
LEMMA MuxInitializedKeeps ==
  ASSUME IInv, ~Initialized, NEW l \in Reported
  PROVE  Keeps(activateStateMachine(
           [enterMuxState(Disarm(Found, "wait"), l)
              EXCEPT !.init = @ \cup {"MuxState"}]))
<1> DEFINE s == Disarm(Found, "wait")
           m == enterMuxState(s, l)
           n == m.init \cup {"MuxState"}
           i == [m EXCEPT !.init = n]
<1>1. s \in LinkManager /\ Still(lm, s)
  BY AnsweredFields
<1> HIDE DEF s
<1>2. l \in MuxLabels /\ l # "Wait"
  BY DEF Reported
<1>3. m \in LinkManager
  BY <1>1, <1>2, KeptRefl, enterMuxStateKept, KeptTypes
<1>4. m.ms = l /\ m.route = s.route /\ m.shutdown = s.shutdown
  BY <1>1 DEF enterMuxState, LinkManager
<1> HIDE DEF m
<1>5. n \in SUBSET Components
  BY <1>3 DEF LinkManager, Components
<1> HIDE DEF n
<1>6. /\ i \in LinkManager /\ i.ms = l
      /\ i.route = lm.route /\ i.shutdown = lm.shutdown
  BY <1>1, <1>3, <1>4, <1>5 DEF LinkManager, Still
<1> HIDE DEF i
<1>7. Watchful(i)
  BY <1>2, <1>6 DEF Watchful
<1> QED BY <1>6, <1>7, ActivationKeeps DEF i, n, m, s

\* A mux state from orchagent keeps everything.
LEMMA handleMuxStateNotificationKeeps ==
  ASSUME IInv, NEW l \in SwssReports, handleMuxStateNotification(l)
  PROVE  Keeps(lm')
<1> DEFINE s == Disarm(Found, "wait")
           w == enterMuxWaitState(s)
<1>1. l \in Reported
  BY ConstantsAssumption DEF Reported
<1>2. \/ lm' = Post(s, <<"MuxStateEvent", l>>)
      \/ ~Initialized /\ lm' = w
      \/ ~Initialized /\ lm' = activateStateMachine(
           [enterMuxState(s, l) EXCEPT !.init = @ \cup {"MuxState"}])
  BY DEF handleMuxStateNotification, Step
<1>3. s \in LinkManager /\ Still(lm, s)
  BY AnsweredFields
<1>4. ASSUME ~Initialized PROVE Keeps(w)
  <2> HIDE DEF s
  <2>1. Effect(s, w) /\ ToWait(w)
    BY <1>3, enterMuxWaitStateEffect
  <2> HIDE DEF w
  <2>2. /\ w \in LinkManager /\ w.init = lm.init /\ w.route = lm.route
        /\ w.shutdown = lm.shutdown
    BY <1>3, <2>1 DEF Effect, Moved, Grew, Still
  <2>3. Watchful(w)
    BY <2>1 DEF Watchful, ToWait
  <2> QED BY <1>4, <2>2, <2>3, EarlyKeeps
<1> QED BY <1>1, <1>2, <1>4, AnswerKeeps, MuxInitializedKeeps

\* The answer of xcvrd to a probe keeps everything.
LEMMA handleProbeMuxStateNotificationKeeps ==
  ASSUME IInv, NEW l \in XcvrdReports, handleProbeMuxStateNotification(l)
  PROVE  Keeps(lm')
<1> DEFINE s == Disarm(Found, "wait")
           w == enterMuxState(s, "Wait")
           c == [w EXCEPT !.cause = "SwssUpdate"]
           asked == [label |-> l, cause |-> "Initialization"]
           q == [c EXCEPT !.request = asked]
<1>1. l \in Reported
  BY ConstantsAssumption DEF Reported, MuxLabels
<1>2. s \in LinkManager /\ Still(lm, s)
  BY AnsweredFields
<1>3. w \in LinkManager /\ w.init = s.init /\ w.route = s.route
      /\ w.shutdown = s.shutdown
  <2> HIDE DEF s
  <2>1. w \in LinkManager
    BY <1>2, KeptRefl, enterMuxStateKept, KeptTypes DEF MuxLabels
  <2> QED BY <1>2, <2>1 DEF enterMuxState, LinkManager
<1>4. \/ lm' = Post(s, <<"MuxStateEvent", l>>)
      \/ /\ ~Initialized /\ l # "Unknown"
         /\ lm' = [w EXCEPT !.cause = "SwssUpdate", !.request = asked]
      \/ ~Initialized /\ lm' = activateStateMachine(
           [enterMuxState(s, l) EXCEPT !.init = @ \cup {"MuxState"}])
  BY DEF handleProbeMuxStateNotification, Step
<1>5. ASSUME ~Initialized, l # "Unknown",
             lm' = [w EXCEPT !.cause = "SwssUpdate", !.request = asked]
      PROVE  Keeps(lm')
  <2>1. asked \in Requests
    BY <1>5, ConstantsAssumption DEF Requests
  <2> HIDE DEF s, w, asked
  <2>2. c \in LinkManager /\ c.cause = "SwssUpdate" /\ c.init = w.init
        /\ c.route = w.route /\ c.shutdown = w.shutdown
    BY <1>3 DEF LinkManager
  <2>3. lm' = q
    BY <1>3, <1>5 DEF LinkManager
  <2> HIDE DEF c
  <2>4. q \in LinkManager /\ q.cause = "SwssUpdate" /\ q.init = c.init
        /\ q.route = c.route /\ q.shutdown = c.shutdown
    BY <2>1, <2>2 DEF LinkManager
  <2> HIDE DEF q
  <2>5. Watchful(q)
    BY <2>4 DEF Watchful
  <2> QED
    BY <1>2, <1>3, <1>5, <2>2, <2>3, <2>4, <2>5, EarlyKeeps DEF Still
<1> QED BY <1>1, <1>4, <1>5, AnswerKeeps, MuxInitializedKeeps

\* A link state keeps everything, before and after the activation.
LEMMA handleSwssLinkStateNotificationKeeps ==
  ASSUME IInv, NEW l \in LinkLabels, handleSwssLinkStateNotification(l)
  PROVE  Keeps(lm')
<1> DEFINE e == <<"LinkStateEvent", l>>
           t == Post(Found, e)
           m == enterLinkState(Found, l)
           n == m.init \cup {"LinkState"}
           i == [m EXCEPT !.init = n]
<1>1. \/ lm' = t
      \/ ~Initialized /\ lm' = activateStateMachine(i)
  BY DEF handleSwssLinkStateNotification, Step
<1>2. /\ AsFound(Found) /\ Found \in LinkManager /\ Found.posted = lm.posted
      /\ Behaved(lm, Found) /\ Sighted(lm, Found)
  BY FoundAsFound DEF AsFound
<1> HIDE DEF Found
<1>3. e \in Events
  BY Reports
<1>4. Keeps(t)
  <2>1. Effect(Found, t) /\ Attends(Found, t)
    BY <1>2, <1>3, PostEffect
  <2>2. t.route = Found.route /\ t.label = Found.label
    BY <1>2 DEF Post, LinkManager
  <2> HIDE DEF t
  <2> QED
    BY <1>2, <2>1, <2>2, AttendsSighted, BehavedTrans, EffectKeeps
<1>5. ASSUME ~Initialized PROVE Keeps(activateStateMachine(i))
  <2>1. m \in LinkManager
    BY <1>2, KeptRefl, enterLinkStateKept, KeptTypes
  <2>2. /\ m.route = Found.route /\ m.shutdown = Found.shutdown
        /\ m.ms = Found.ms /\ m.msm = Found.msm /\ m.cause = Found.cause
        /\ m.armed = Found.armed /\ m.posted = Found.posted
    BY <1>2 DEF enterLinkState, LinkManager
  <2> HIDE DEF m
  <2>3. n \in SUBSET Components
    BY <2>1 DEF LinkManager, Components
  <2> HIDE DEF n
  <2>4. /\ i \in LinkManager /\ i.route = lm.route /\ i.shutdown = lm.shutdown
        /\ i.ms = lm.ms /\ i.msm = lm.msm /\ i.cause = lm.cause
        /\ i.armed = lm.armed /\ i.posted = lm.posted
    BY <1>2, <2>1, <2>2, <2>3 DEF LinkManager, AsFound, Still
  <2> HIDE DEF i
  <2>5. Watchful(lm) => Watchful(i)
    BY <2>4 DEF Watchful, Completed
  <2> QED BY <1>5, <2>4, <2>5, ActivationKeeps
<1> QED BY <1>1, <1>4, <1>5

(***************************************************************************)
(* The link of the peer keeps everything.  Without a route the prober goes *)
(* to Wait and nothing else happens: this is the step that LabelPublished  *)
(* and NothingBlinds are about.                                            *)
(***************************************************************************)
LEMMA handlePeerLinkStateNotificationKeeps ==
  ASSUME IInv, NEW l \in PeerLinkReports, handlePeerLinkStateNotification(l)
  PROVE  Keeps(lm')
<1> DEFINE p == enterLinkProberState(Found, "Wait")
           w == switchMuxState(p, "PeerLinkDown", "Active", FALSE)
<1>1. \/ lm' = w
      \/ lm' = Found
      \/ lm' = p /\ l = "Down" /\ lm.ms = "Standby" /\ lm.route # "OK"
  BY DEF handlePeerLinkStateNotification, Step
<1>2. /\ AsFound(Found) /\ Found \in LinkManager
      /\ Behaved(lm, Found) /\ Sighted(lm, Found)
  BY FoundAsFound DEF AsFound
<1> HIDE DEF Found
<1>3. /\ Effect(Found, p) /\ p.ps = "Wait" /\ p.ms = Found.ms
      /\ p.label = Found.label
  BY <1>2, enterLinkProberStateEffect DEF ProberLabels
<1>4. p \in LinkManager /\ p.init = lm.init
  BY <1>2, <1>3 DEF Effect, Moved, Grew, AsFound, Still
<1> HIDE DEF p
<1>5. Effect(p, w) /\ ToWait(w)
  BY <1>4, switchMuxStateEffect DEF SwitchCauses
<1> HIDE DEF w
<1>6. Keeps(w)
  BY <1>2, <1>3, <1>5, EffectTrans, ToWaitKeeps DEF Effect
<1>7. ASSUME l = "Down", lm.ms = "Standby", lm.route # "OK"
      PROVE  Keeps(p)
  <2>1. LabelPublished /\ Labelled(lm) => Labelled(p)
    <3>1. LabelPublished => ~Healthy(lm)
      BY <1>7 DEF LabelPublished, Healthy
    <3> QED
      BY <1>2, <1>3, <1>4, <1>7, <3>1 DEF Labelled, Healthy, AsFound
  <2>2. ~NothingBlinds
    BY <1>7 DEF NothingBlinds
  <2> QED BY <1>2, <1>3, <2>1, <2>2, EffectKeeps DEF Sighted
<1> QED BY <1>1, <1>2, <1>6, <1>7, NothingKeeps

\* A mux mode keeps everything.
LEMMA handleMuxConfigKeeps ==
  ASSUME IInv, NEW mode \in ConfigModes, handleMuxConfig(mode)
  PROVE  Keeps(lm')
<1> DEFINE h == handleMuxConfigNotification(Found, mode)
<1>1. lm' = h
  BY DEF handleMuxConfig, Step
<1>2. /\ AsFound(Found) /\ Found \in LinkManager
      /\ Behaved(lm, Found) /\ Sighted(lm, Found)
  BY FoundAsFound DEF AsFound
<1>3. mode \in Modes
  BY ConstantsAssumption
<1> HIDE DEF Found
<1>4. Behaved(Found, h) /\ Sighted(Found, h) /\ Asked(Found, h)
  BY <1>2, <1>3, handleMuxConfigNotificationBehaves
<1> HIDE DEF h
<1> QED BY <1>1, <1>2, <1>4, BehavedTrans, AskedIsDirected DEF Keeps

\* A default route state keeps everything.
LEMMA handleDefaultRouteStateNotificationKeeps ==
  ASSUME IInv, NEW r \in RouteReports, handleDefaultRouteStateNotification(r)
  PROVE  Keeps(lm')
<1> DEFINE b == lm.route = "NA" /\ r = "OK"
           p == IF b THEN initLinkProberState(Found) ELSE Found
           q == [p EXCEPT !.route = r]
           d == shutdownOrRestartLinkProberOnDefaultRoute(q)
           u == updateMuxLinkmgrState(d)
<1>1. lm' = u /\ (DefaultRouteFeature \/ r = "OK")
  BY DEF handleDefaultRouteStateNotification, Step
<1>2. /\ AsFound(Found) /\ Found \in LinkManager /\ Found.posted = lm.posted
      /\ Sighted(lm, Found)
  BY FoundAsFound DEF AsFound
<1>3. r \in Routes
  BY ConstantsAssumption DEF Routes
<1> HIDE DEF b, Found
<1>4. /\ Effect(Found, p)
      /\ p.ms = Found.ms /\ p.msm = Found.msm /\ p.cause = Found.cause
      /\ p.armed = Found.armed /\ p.posted = Found.posted
      /\ p.lastSet = Found.lastSet /\ p.request = Found.request
      /\ b => p.ps = IF p.ms = "Error" THEN "Wait" ELSE p.ms
      /\ ~b => p = Found
  BY <1>2, initLinkProberStateEffect, EffectRefl
<1>5. p \in LinkManager /\ Still(Found, p)
  BY <1>4 DEF Effect, Moved, Grew
<1>6. b => Looked(p)
  BY <1>4 DEF Looked
<1> HIDE DEF p
<1>7. /\ q \in LinkManager /\ q.route = r
      /\ q.ps = p.ps /\ q.psm = p.psm /\ q.ms = p.ms /\ q.msm = p.msm
      /\ q.ls = p.ls /\ q.lsm = p.lsm /\ q.cause = p.cause
      /\ q.armed = p.armed /\ q.posted = p.posted /\ q.init = p.init
      /\ q.mode = p.mode /\ q.shutdown = p.shutdown
      /\ q.pending = p.pending /\ q.lastSet = p.lastSet
      /\ q.request = p.request
  BY <1>3, <1>5 DEF LinkManager
<1> HIDE DEF q
<1>8. d \in LinkManager
  BY <1>7, KeptRefl, shutdownOrRestartKept, KeptTypes
<1>9. /\ d.route = r
      /\ d.ps = p.ps /\ d.psm = p.psm /\ d.ms = p.ms /\ d.msm = p.msm
      /\ d.ls = p.ls /\ d.lsm = p.lsm /\ d.cause = p.cause
      /\ d.armed = p.armed /\ d.posted = p.posted /\ d.init = p.init
      /\ d.mode = p.mode /\ d.pending = p.pending /\ d.lastSet = p.lastSet
      /\ d.request = p.request
      /\ d.shutdown = IF p.init = Components
                      THEN p.mode \in {"Auto", "Standby"} /\ r = "NA"
                      ELSE p.shutdown
  BY <1>7 DEF LinkManager, shutdownOrRestartLinkProberOnDefaultRoute
<1> HIDE DEF d
<1>10. Effect(d, u) /\ Attends(d, u) /\ Labelled(u)
  BY <1>8, updateMuxLinkmgrStateEffect
<1> HIDE DEF u
<1>11. Behaved(lm, d)
  <2>1. /\ lm.init = d.init /\ d.ms = lm.ms /\ d.msm = lm.msm
        /\ d.cause = lm.cause /\ d.armed = lm.armed /\ d.posted = lm.posted
        /\ d.mode = lm.mode /\ d.pending = lm.pending
        /\ d.lastSet = lm.lastSet
        /\ d.init # Components => d.shutdown = lm.shutdown
    BY <1>2, <1>4, <1>5, <1>9 DEF AsFound, Still
  <2>2. Matches(lm) => Matches(d)
    BY <1>1, <1>9, <2>1 DEF Matches
  <2> QED
    BY <2>1, <2>2 DEF Behaved, Watchful, Completed, Mismatch, LeftBehind
<1>12. NothingBlinds /\ Looked(lm) => Looked(u)
  <2>1. NothingBlinds /\ Looked(lm) => Looked(p)
    BY <1>2, <1>4, <1>6 DEF Sighted
  <2>2. Looked(p) => Looked(d)
    BY <1>9 DEF Looked, Fresh, Completed
  <2> QED BY <1>10, <2>1, <2>2, AttendsLooked
<1>13. Behaved(lm, u)
  BY <1>10, <1>11, EffectBehaved, BehavedTrans DEF Effect
<1>14. Directed(u)
  BY <1>2, <1>4, <1>9, <1>10 DEF Directed, Effect, Asked, Moved, Still, AsFound, NoRequest
<1> QED BY <1>1, <1>10, <1>12, <1>13, <1>14 DEF Keeps, Sighted

\* The command of the peer and the one that lifts the suspension.
LEMMA PeerCommandKeeps ==
  ASSUME IInv
  PROVE  /\ handleSwitchActiveRequestEvent => Keeps(lm')
         /\ handleResetSuspendTimer => Keeps(lm')
<1> DEFINE p == enterLinkProberState(Found, "Wait")
           w == switchMuxState(p, "TlvSwitchActiveCommand", "Active", FALSE)
           r == resumeTxProbes(Found)
<1>1. /\ handleSwitchActiveRequestEvent => lm' = w \/ lm' = Found
      /\ handleResetSuspendTimer =>
           (lm' = r /\ ~NothingBlinds) \/ lm' = Found
  BY DEF handleSwitchActiveRequestEvent, handleResetSuspendTimer, Step, NothingBlinds
<1>2. /\ AsFound(Found) /\ Found \in LinkManager
      /\ Behaved(lm, Found) /\ Sighted(lm, Found)
  BY FoundAsFound DEF AsFound
<1> HIDE DEF Found
<1>3. Effect(Found, p)
  BY <1>2, enterLinkProberStateEffect DEF ProberLabels
<1>4. p \in LinkManager
  BY <1>3 DEF Effect, Moved, Grew
<1> HIDE DEF p
<1>5. Effect(p, w) /\ ToWait(w)
  BY <1>4, switchMuxStateEffect DEF SwitchCauses
<1> HIDE DEF w
<1>6. Keeps(w)
  BY <1>2, <1>3, <1>5, EffectTrans, ToWaitKeeps DEF Effect
<1>7. Effect(Found, r)
  BY <1>2, SuspensionEffect
<1>8. /\ r.ps = Found.ps /\ r.ms = Found.ms /\ r.ls = Found.ls
      /\ r.route = Found.route /\ r.label = Found.label /\ r.init = Found.init
  BY <1>2 DEF resumeTxProbes, Disarm, LinkManager
<1> HIDE DEF r
<1>9. Labelled(Found) => Labelled(r)
  BY <1>8 DEF Labelled, Healthy
<1>10. ~NothingBlinds => Keeps(r)
  BY <1>2, <1>7, <1>9, EffectKeeps DEF Sighted
<1> QED BY <1>1, <1>2, <1>6, <1>10, NothingKeeps

\* What the prober detects is reported.
LEMMA ProberDetectsKeeps ==
  ASSUME IInv, NEW l \in Heartbeats, ProberDetects(l)
  PROVE  Keeps(lm')
<1> DEFINE e == <<"LinkProber", l>>
           d == [Found EXCEPT !.psm = l]
           t == Post(d, e)
<1>1. lm' = t
  BY DEF ProberDetects, Step
<1>2. /\ AsFound(Found) /\ Found \in LinkManager
      /\ Behaved(lm, Found) /\ Sighted(lm, Found)
  BY FoundAsFound DEF AsFound
<1>3. l \in Detected /\ l \in ProberLabels
  BY ConstantsAssumption DEF Detected, ProberLabels
<1>4. e \in Events
  BY <1>3, Reports
<1> HIDE DEF Found
<1>5. /\ d \in LinkManager /\ d.psm = l
      /\ d.ps = Found.ps /\ d.ms = Found.ms /\ d.msm = Found.msm
      /\ d.ls = Found.ls /\ d.lsm = Found.lsm /\ d.cause = Found.cause
      /\ d.armed = Found.armed /\ d.posted = Found.posted
      /\ d.label = Found.label /\ d.lastSet = Found.lastSet
      /\ d.request = Found.request /\ Still(Found, d)
  BY <1>2, <1>3 DEF LinkManager, Still
<1> HIDE DEF d
<1>6. Effect(d, t) /\ Attends(d, t)
  BY <1>4, <1>5, PostEffect
<1>7. t.posted[e] > 0 /\ t.label = d.label /\ t.route = d.route
  BY <1>4, <1>5 DEF Post, LinkManager
<1> HIDE DEF t
<1>8. Behaved(Found, d)
  BY <1>2, <1>5 DEF Behaved, Watchful, Completed, Matches, Mismatch, LeftBehind, Still
<1>9. Behaved(lm, t)
  BY <1>2, <1>6, <1>8, EffectBehaved, BehavedTrans DEF Effect
<1>10. Looked(t)
  BY <1>3, <1>5, <1>6, <1>7 DEF Looked, Fresh, Attends, e
<1>11. Labelled(Found) => Labelled(t)
  BY <1>5, <1>6, <1>7 DEF Labelled, Healthy, Attends, Still
<1>12. Directed(t)
  BY <1>2, <1>5, <1>6
  DEF Directed, Effect, Asked, Still, AsFound, NoRequest
<1> QED BY <1>1, <1>2, <1>9, <1>10, <1>11, <1>12 DEF Keeps, Sighted

\* A timer that expires leaves its completion in its place.
LEMMA TimerExpiresKeeps ==
  ASSUME IInv, NEW r \in Timers, TimerExpires(r)
  PROVE  Keeps(lm')
<1> DEFINE k == Completion[r]
           e == <<k, "None">>
           d == Disarm(Found, r)
           t == Post(d, e)
<1>1. lm' = t
  BY DEF TimerExpires, Step
<1>2. /\ AsFound(Found) /\ Found \in LinkManager /\ Found.posted = lm.posted
      /\ Behaved(lm, Found) /\ Sighted(lm, Found)
  BY FoundAsFound DEF AsFound
<1>3. /\ k \in Completions
      /\ r = "wait" => k = "MuxWaitTimeout"
      /\ r = "deadline" => k = "MuxProbeTimeout"
      /\ r = "suspend" => k = "SuspendTimerExpiry"
  BY DEF Completion, Completions, Timers
<1> HIDE DEF Found, k
<1>4. e \in Events
  BY <1>3, CompletionEvents
<1>5. d \in LinkManager
  BY <1>2, KeptRefl, ArmKept, KeptTypes
<1>6. /\ d.armed = lm.armed \ {r} /\ d.posted = lm.posted
      /\ d.ps = lm.ps /\ d.psm = lm.psm /\ d.ms = lm.ms /\ d.msm = lm.msm
      /\ d.ls = lm.ls /\ d.lsm = lm.lsm /\ d.cause = lm.cause
      /\ d.label = lm.label /\ d.lastSet = lm.lastSet
      /\ d.request = NoRequest /\ Still(lm, d)
  BY <1>2 DEF Disarm, LinkManager, AsFound, Still
<1> HIDE DEF d
<1>7. Effect(d, t) /\ Attends(d, t)
  BY <1>4, <1>5, PostEffect
<1>8. /\ t.posted[e] > 0 /\ t.label = d.label /\ t.route = d.route
      /\ t.request = NoRequest /\ t.armed = d.armed
  BY <1>4, <1>5, <1>6 DEF Post, LinkManager
<1>9. Behaved(d, t)
  BY <1>7, EffectBehaved DEF Effect
<1>10. Watchful(lm) => Watchful(t)
  <2>1. CASE r = "wait"
    BY <1>3, <1>8, <2>1 DEF Watchful, Completed, e
  <2>2. CASE r # "wait"
    <3>1. Watchful(lm) => Watchful(d)
      BY <1>6, <2>2 DEF Watchful, Completed
    <3> QED BY <1>9, <3>1 DEF Behaved
  <2> QED BY <2>1, <2>2
<1>11. Behaved(lm, t)
  <2>1. /\ lm.init = d.init
        /\ Matches(lm) => Matches(d)
        /\ Mismatch(d) => Mismatch(lm)
        /\ LeftBehind(d) => LeftBehind(lm)
    BY <1>6 DEF Matches, Mismatch, LeftBehind, Still
  <2> QED BY <1>9, <1>10, <2>1 DEF Behaved
<1>12. Looked(lm) => Looked(t)
  <2>1. CASE r \notin {"deadline", "suspend"}
    <3>1. Looked(lm) => Looked(d)
      BY <1>6, <2>1 DEF Looked, Fresh, Completed, Still
    <3> QED BY <1>7, <3>1, AttendsLooked
  <2>2. CASE r \in {"deadline", "suspend"}
    <3>1. /\ r = "deadline" => Completed(t, "MuxProbeTimeout")
          /\ r = "suspend" => Completed(t, "SuspendTimerExpiry")
      BY <1>3, <1>8 DEF Completed, e
    <3>2. /\ "deadline" \in lm.armed => "deadline" \in t.armed \/ r = "deadline"
          /\ "suspend" \in lm.armed => "suspend" \in t.armed \/ r = "suspend"
      BY <1>6, <1>8
    <3>3. \A x \in Events : lm.posted[x] > 0 => t.posted[x] > 0
      BY <1>6, <1>7 DEF Effect, Moved, Grew, LinkManager
    <3>4. /\ Completed(lm, "MuxProbeTimeout") => Completed(t, "MuxProbeTimeout")
          /\ Completed(lm, "SuspendTimerExpiry") =>
               Completed(t, "SuspendTimerExpiry")
      BY <3>3, CompletionEvents DEF Completions, Completed
    <3>5. /\ t.ps = lm.ps /\ t.psm = lm.psm /\ t.ms = lm.ms /\ t.msm = lm.msm
          /\ t.ls = lm.ls /\ t.lsm = lm.lsm /\ t.init = lm.init
          /\ t.lsm \in LinkLabels
      BY <1>6, <1>7 DEF Attends, Grew, Still, LinkManager
    <3>6. Fresh(lm) => Fresh(t)
      BY <3>3, <3>5, Reports DEF Fresh
    <3> QED BY <3>1, <3>2, <3>4, <3>5, <3>6 DEF Looked
  <2> QED BY <2>1, <2>2
<1>13. Labelled(lm) => Labelled(t)
  BY <1>6, <1>7, <1>8 DEF Labelled, Healthy, Attends, Still
<1>14. Directed(t)
  BY <1>8 DEF Directed, NoRequest
<1> QED BY <1>1, <1>11, <1>12, <1>13, <1>14 DEF Keeps, Sighted

\* processEvent of the mux: the state machine that has left Wait, or the report
\* it posts, takes over from the event.
LEMMA MuxStateEventKeeps ==
  ASSUME IInv, NEW l \in Reported, MuxStateEvent(l)
  PROVE  Keeps(lm')
<1> DEFINE e == <<"MuxStateEvent", l>>
           x == <<"MuxState", l>>
           s == Take(e)
           d == [s EXCEPT !.msm = l]
           t == Post(d, x)
<1>1. e \in Events /\ x \in Events /\ lm.posted[e] > 0
  BY Reports DEF MuxStateEvent, Run
<1>2. (lm' = s /\ s.msm = l) \/ lm' = t
  BY DEF MuxStateEvent, Run, Step
<1>3. /\ AsFound(s) /\ s \in LinkManager
      /\ \A y \in Events \ {e} : s.posted[y] = lm.posted[y]
  BY <1>1, TakeAsFound DEF AsFound
<1>4. Sighted(lm, s)
  <2>1. /\ e \notin {"MuxProbeTimeout", "SuspendTimerExpiry"} \X {"None"}
        /\ \A y \in Detected : e # <<"LinkProber", y>>
        /\ \A y \in Reported : e # <<"MuxState", y>>
        /\ \A y \in LinkLabels : e # <<"LinkState", y>>
    OBVIOUS
  <2> HIDE DEF e
  <2> QED BY <1>1, <2>1, TakeBehaves
<1> HIDE DEF s
<1>5. l \in MuxLabels /\ l # "Wait"
  BY DEF Reported
<1>6. /\ d \in LinkManager /\ d.msm = l
      /\ d.ps = s.ps /\ d.psm = s.psm /\ d.ms = s.ms
      /\ d.ls = s.ls /\ d.lsm = s.lsm /\ d.cause = s.cause
      /\ d.armed = s.armed /\ d.posted = s.posted
      /\ d.label = s.label /\ d.lastSet = s.lastSet
      /\ d.request = s.request /\ Still(s, d)
  BY <1>3, <1>5 DEF LinkManager, Still
<1> HIDE DEF d
<1>7. Effect(d, t) /\ Attends(d, t)
  BY <1>1, <1>6, PostEffect
<1>8. t.posted[x] > 0 /\ t.label = d.label /\ t.route = d.route
  BY <1>1, <1>6 DEF Post, LinkManager
<1> HIDE DEF t
<1>9. <<"GetMuxState", "None">> \in Events \ {e}
  BY CompletionEvents DEF Completions
<1>10. /\ s.init = lm.init /\ d.init = lm.init
       /\ Matches(lm) => Matches(s) /\ Matches(d)
       /\ Mismatch(s) \/ Mismatch(d) => Mismatch(lm)
       /\ LeftBehind(s) \/ LeftBehind(d) => LeftBehind(lm)
  BY <1>3, <1>6, <1>9 DEF AsFound, Still, Matches, Mismatch, LeftBehind
<1>11. ASSUME s.msm = l PROVE Keeps(s)
  <2>1. Watchful(s)
    BY <1>5, <1>11 DEF Watchful
  <2>2. Behaved(lm, s)
    BY <1>10, <2>1 DEF Behaved
  <2> QED BY <1>3, <1>4, <2>2, NothingKeeps
<1>12. Keeps(t)
  <2>1. Watchful(d)
    BY <1>5, <1>6 DEF Watchful
  <2>2. Behaved(lm, d)
    BY <1>10, <2>1 DEF Behaved
  <2>3. Behaved(lm, t)
    BY <1>7, <2>2, EffectBehaved, BehavedTrans DEF Effect
  <2>4. Looked(t)
    BY <1>6, <1>7, <1>8 DEF Looked, Fresh, Attends, x
  <2>5. Labelled(s) => Labelled(t)
    BY <1>6, <1>7, <1>8 DEF Labelled, Healthy, Attends, Still
  <2>6. Directed(t)
    BY <1>3, <1>6, <1>7
    DEF Directed, Effect, Asked, Still, AsFound, NoRequest
  <2> QED BY <1>4, <2>3, <2>4, <2>5, <2>6 DEF Keeps, Sighted
<1> QED BY <1>2, <1>11, <1>12

\* processEvent of the link.
LEMMA LinkStateEventKeeps ==
  ASSUME IInv, NEW l \in LinkLabels, LinkStateEvent(l)
  PROVE  Keeps(lm')
<1> DEFINE e == <<"LinkStateEvent", l>>
           x == <<"LinkState", l>>
           s == Take(e)
           d == [s EXCEPT !.lsm = l]
           t == Post(d, x)
<1>1. e \in Events /\ x \in Events /\ lm.posted[e] > 0
  BY Reports DEF LinkStateEvent, Run
<1>2. lm' = s \/ lm' = t
  BY DEF LinkStateEvent, Run, Step
<1>3. /\ AsFound(s) /\ s \in LinkManager
      /\ \A y \in Events \ {e} : s.posted[y] = lm.posted[y]
  BY <1>1, TakeAsFound DEF AsFound
<1>4. Sighted(lm, s) /\ Behaved(lm, s)
  <2>1. /\ e \notin {"MuxProbeTimeout", "SuspendTimerExpiry"} \X {"None"}
        /\ e \notin {"MuxWaitTimeout", "SwitchActiveCommandCompletion",
                     "GetMuxState"} \X {"None"}
        /\ \A y \in Detected : e # <<"LinkProber", y>>
        /\ \A y \in Reported : e # <<"MuxState", y>> /\ e # <<"MuxStateEvent", y>>
        /\ \A y \in LinkLabels : e # <<"LinkState", y>>
    OBVIOUS
  <2> HIDE DEF e
  <2> QED BY <1>1, <2>1, TakeBehaves
<1> HIDE DEF s
<1>5. /\ d \in LinkManager /\ d.lsm = l
      /\ d.ps = s.ps /\ d.psm = s.psm /\ d.ms = s.ms /\ d.msm = s.msm
      /\ d.ls = s.ls /\ d.cause = s.cause
      /\ d.armed = s.armed /\ d.posted = s.posted
      /\ d.label = s.label /\ d.lastSet = s.lastSet
      /\ d.request = s.request /\ Still(s, d)
  BY <1>3 DEF LinkManager, Still
<1> HIDE DEF d
<1>6. Effect(d, t) /\ Attends(d, t)
  BY <1>1, <1>5, PostEffect
<1>7. t.posted[x] > 0 /\ t.label = d.label /\ t.route = d.route
  BY <1>1, <1>5 DEF Post, LinkManager
<1> HIDE DEF t
<1>8. Behaved(s, d)
  BY <1>5
  DEF Behaved, Watchful, Completed, Matches, Mismatch, LeftBehind, Still
<1>9. Behaved(lm, t)
  BY <1>4, <1>6, <1>8, EffectBehaved, BehavedTrans DEF Effect
<1>10. Looked(t)
  BY <1>5, <1>6, <1>7 DEF Looked, Fresh, Attends, x
<1>11. Labelled(s) => Labelled(t)
  BY <1>5, <1>6, <1>7 DEF Labelled, Healthy, Attends, Still
<1>12. Directed(t)
  BY <1>3, <1>5, <1>6
  DEF Directed, Effect, Asked, Still, AsFound, NoRequest
<1>13. Keeps(t)
  BY <1>4, <1>9, <1>10, <1>11, <1>12 DEF Keeps, Sighted
<1> QED BY <1>2, <1>3, <1>4, <1>13, NothingKeeps

-----------------------------------------------------------------------------
(* handleStateChange. *)

\* A stale report that is dropped was not counted on.
LEMMA StaleIsLooked ==
  ASSUME IInv, NEW e \in Events, lm.posted[e] > 0, Looked(lm),
         e \notin {"MuxProbeTimeout", "SuspendTimerExpiry"} \X {"None"},
         e # <<"LinkProber", lm.psm>>, e # <<"MuxState", lm.msm>>,
         e # <<"LinkState", lm.lsm>>
  PROVE  Looked(Take(e))
<1> DEFINE s == Take(e)
<1>1. AsFound(s) /\ \A x \in Events \ {e} : s.posted[x] = lm.posted[x]
  BY TakeAsFound
<1> HIDE DEF s
<1>2. lm.lsm \in LinkLabels
  BY DEF IInv, LinkManager
<1>3. Fresh(lm) => Fresh(s)
  BY <1>1, <1>2, Reports DEF Fresh, AsFound
<1>4. /\ <<"MuxProbeTimeout", "None">> \in Events \ {e}
      /\ <<"SuspendTimerExpiry", "None">> \in Events \ {e}
  BY CompletionEvents DEF Completions
<1>5. Looked(s)
  BY <1>1, <1>3, <1>4 DEF Looked, Completed, AsFound, Still
<1> QED BY <1>5 DEF s

\* handleStateChange of the link prober keeps everything.
LEMMA handleLinkProberStateChangeKeeps ==
  ASSUME IInv, NEW l \in Detected, handleLinkProberStateChange(l)
  PROVE  Keeps(lm')
<1> DEFINE e == <<"LinkProber", l>>
           s == Take(e)
           x == IF l = "Active" THEN 0 ELSE s.standbyUnknown
           y == IF l = "Standby" THEN 0 ELSE s.activeUnknown
           c == [s EXCEPT !.ps = l]
           z == [c EXCEPT !.standbyUnknown = x]
           t == [z EXCEPT !.activeUnknown = y]
           u == IF l \in {"Active", "Standby"}
                THEN tryCancelOscillationTimerIfAlive(t) ELSE t
           b == s.ps # l
           n == IF s.psm = l THEN TransitionFunction(u, b) ELSE s
           r == IF n.ps # "Unknown" THEN resumeTxProbes(n) ELSE n
           f == updateMuxLinkmgrState(r)
<1>1. e \in Events /\ lm.posted[e] > 0 /\ l \in ProberLabels
  BY Reports DEF handleLinkProberStateChange, Run, Detected, ProberLabels
<1>2. AsFound(s) /\ s \in LinkManager
  BY <1>1, TakeAsFound DEF AsFound
<1>3. Behaved(lm, s)
  <2>1. /\ e \notin {"MuxWaitTimeout", "SwitchActiveCommandCompletion",
                     "GetMuxState"} \X {"None"}
        /\ \A k \in Reported : e # <<"MuxStateEvent", k>>
    OBVIOUS
  <2> HIDE DEF e
  <2> QED BY <1>1, <2>1, TakeBehaves
<1>4. s.psm # l => (Looked(lm) => Looked(s))
  <2>1. s.psm # l =>
          /\ e # <<"LinkProber", lm.psm>> /\ e # <<"MuxState", lm.msm>>
          /\ e # <<"LinkState", lm.lsm>>
          /\ e \notin {"MuxProbeTimeout", "SuspendTimerExpiry"} \X {"None"}
    <3> HIDE DEF s
    <3> QED BY <1>2 DEF AsFound
  <2> HIDE DEF e
  <2> QED BY <1>1, <2>1, StaleIsLooked
<1>5. lm' = f
  <2>1. t = [s EXCEPT !.ps = l,
                      !.standbyUnknown = IF l = "Active" THEN 0 ELSE @,
                      !.activeUnknown = IF l = "Standby" THEN 0 ELSE @]
    BY <1>2 DEF LinkManager
  <2>2. lm' = LinkProberChange(s, l)
    BY DEF handleLinkProberStateChange, Run, Step
  <2> HIDE DEF t, s
  <2> QED BY <2>1, <2>2 DEF LinkProberChange
<1>6. x \in 0 .. NegativeRetry + 1 /\ y \in 0 .. NegativeRetry + 1
  BY <1>2, ConstantsAssumption DEF LinkManager
<1>7. b \in BOOLEAN
  OBVIOUS
<1> HIDE DEF s, x, y, b
<1>8. Effect(s, c) /\ c \in LinkManager
  BY <1>1, <1>2
  DEF Effect, Moved, Grew, Still, Unmoved, Asked, LinkManager
<1> HIDE DEF c
<1>9. Effect(c, z)
  BY <1>6, <1>8, FieldEffect
<1>10. z \in LinkManager
  BY <1>9 DEF Effect, Moved, Grew
<1> HIDE DEF z
<1>11. Effect(z, t)
  BY <1>6, <1>10, FieldEffect
<1>12. t \in LinkManager
  BY <1>11 DEF Effect, Moved, Grew
<1> HIDE DEF t
<1>13. Effect(t, u)
  BY <1>12, OscillationEffect, EffectRefl
<1>14. u \in LinkManager /\ Effect(s, u)
  BY <1>8, <1>9, <1>11, <1>13, EffectTrans DEF Effect, Moved, Grew
<1> HIDE DEF u
<1>15. Effect(s, n) /\ (Looked(lm) => Looked(n))
  <2>1. CASE s.psm = l
    BY <1>7, <1>14, <2>1, TransitionFunctionEffect, EffectTrans
  <2>2. CASE s.psm # l
    BY <1>2, <1>4, <2>2, EffectRefl
  <2> QED BY <2>1, <2>2
<1>16. n \in LinkManager
  BY <1>15 DEF Effect, Moved, Grew
<1> HIDE DEF n
<1>17. Effect(n, r)
  BY <1>16, SuspensionEffect, EffectRefl
<1>18. r \in LinkManager
  BY <1>17 DEF Effect, Moved, Grew
<1>19. Looked(n) => Looked(r)
  <2> DEFINE q == resumeTxProbes(n)
  <2>1. /\ q.init = n.init /\ q.ps = n.ps /\ q.psm = n.psm /\ q.ms = n.ms
        /\ q.msm = n.msm /\ q.ls = n.ls /\ q.lsm = n.lsm
        /\ q.posted = n.posted /\ q.armed = n.armed \ {"suspend"}
    BY <1>16 DEF resumeTxProbes, Disarm, LinkManager
  <2> HIDE DEF q
  <2>2. n.ps # "Unknown" /\ Looked(n) => Looked(q)
    BY <2>1 DEF Looked, Fresh, Completed
  <2> QED BY <2>2 DEF q
<1> HIDE DEF r
<1>20. Effect(r, f) /\ Attends(r, f) /\ Labelled(f)
  BY <1>18, updateMuxLinkmgrStateEffect
<1> HIDE DEF f
<1>21. Effect(s, f)
  BY <1>15, <1>17, <1>20, EffectTrans
<1>22. Sighted(lm, f)
  BY <1>15, <1>19, <1>20, AttendsLooked DEF Sighted
<1> QED BY <1>2, <1>3, <1>5, <1>21, <1>22, EffectKeeps

\* handleStateChange of the link keeps everything.
LEMMA handleLinkStateChangeKeeps ==
  ASSUME IInv, NEW l \in LinkLabels, handleLinkStateChange(l)
  PROVE  Keeps(lm')
<1> DEFINE e == <<"LinkState", l>>
           s == Take(e)
           c == [s EXCEPT !.ls = l]
           i == initLinkProberState(c)
           w == LinkWentDown(c)
           v == TransitionFunction(c, FALSE)
           n == CASE s.ls = "Down" /\ l = "Up" -> i
                  [] s.ls = "Up" /\ l = "Down" /\ s.ms # "Standby" -> w
                  [] OTHER -> v
           r == IF s.lsm = l THEN n ELSE s
           f == updateMuxLinkmgrState(r)
<1>1. e \in Events /\ lm.posted[e] > 0
  BY Reports DEF handleLinkStateChange, Run
<1>2. AsFound(s) /\ s \in LinkManager
  BY <1>1, TakeAsFound DEF AsFound
<1>3. Behaved(lm, s)
  <2>1. /\ e \notin {"MuxWaitTimeout", "SwitchActiveCommandCompletion",
                     "GetMuxState"} \X {"None"}
        /\ \A k \in Reported : e # <<"MuxStateEvent", k>>
    OBVIOUS
  <2> HIDE DEF e
  <2> QED BY <1>1, <2>1, TakeBehaves
<1>4. s.lsm # l => (Looked(lm) => Looked(s))
  <2>1. s.lsm # l =>
          /\ e # <<"LinkProber", lm.psm>> /\ e # <<"MuxState", lm.msm>>
          /\ e # <<"LinkState", lm.lsm>>
          /\ e \notin {"MuxProbeTimeout", "SuspendTimerExpiry"} \X {"None"}
    <3> HIDE DEF s
    <3> QED BY <1>2 DEF AsFound
  <2> HIDE DEF e
  <2> QED BY <1>1, <2>1, StaleIsLooked
<1>5. lm' = f
  BY DEF handleLinkStateChange, Run, Step, LinkStateChange
<1> HIDE DEF s
<1>6. Effect(s, c) /\ c \in LinkManager
  BY <1>2 DEF Effect, Moved, Grew, Still, Unmoved, Asked, LinkManager
<1> HIDE DEF c
<1>7. Effect(c, i) /\ Looked(i)
  BY <1>6, initLinkProberStateEffect DEF Looked
<1>8. Effect(c, w) /\ Looked(w) /\ Effect(c, v) /\ Looked(v)
  BY <1>6, LinkWentDownEffect, TransitionFunctionEffect
<1> HIDE DEF i, w, v
<1>9. Effect(c, n) /\ Looked(n)
  BY <1>7, <1>8
<1> HIDE DEF n
<1>10. Effect(s, r) /\ (Looked(lm) => Looked(r))
  BY <1>2, <1>4, <1>6, <1>9, EffectRefl, EffectTrans
<1>11. r \in LinkManager
  BY <1>10 DEF Effect, Moved, Grew
<1> HIDE DEF r
<1>12. Effect(r, f) /\ Attends(r, f) /\ Labelled(f)
  BY <1>11, updateMuxLinkmgrStateEffect
<1> HIDE DEF f
<1>13. Effect(s, f)
  BY <1>10, <1>12, EffectTrans
<1>14. Sighted(lm, f)
  BY <1>10, <1>12, AttendsLooked DEF Sighted
<1> QED BY <1>2, <1>3, <1>5, <1>13, <1>14, EffectKeeps

(***************************************************************************)
(* handleStateChange of the mux, up to the transition function: what it    *)
(* has made of the object.  The mux moved to the reported state, which is  *)
(* not Wait, or the report was stale.                                      *)
(***************************************************************************)
LEMMA MuxTransition ==
  ASSUME IInv, NEW l \in Reported, lm.posted[<<"MuxState", l>>] > 0
  PROVE  LET s == Take(<<"MuxState", l>>)
             n == IF s.msm = l THEN TransitionFunction([s EXCEPT !.ms = l], FALSE)
                               ELSE s
         IN  /\ n \in LinkManager /\ Still(lm, n)
             /\ Watchful(lm) => Watchful(n)
             /\ Looked(lm) => Looked(n)
             /\ \/ n.request = NoRequest \/ lm.mode = "Auto"
                \/ n.request.label # "Active"
<1> DEFINE e == <<"MuxState", l>>
           s == Take(e)
           c == [s EXCEPT !.ms = l]
           v == TransitionFunction(c, FALSE)
<1>1. e \in Events /\ lm.posted[e] > 0 /\ l \in MuxLabels /\ l # "Wait"
  BY Reports DEF Reported
<1>2. AsFound(s) /\ s \in LinkManager
  BY <1>1, TakeAsFound DEF AsFound
<1>3. Behaved(lm, s)
  <2>1. /\ e \notin {"MuxWaitTimeout", "SwitchActiveCommandCompletion",
                     "GetMuxState"} \X {"None"}
        /\ \A k \in Reported : e # <<"MuxStateEvent", k>>
    OBVIOUS
  <2> HIDE DEF e
  <2> QED BY <1>1, <2>1, TakeBehaves
<1>4. s.msm # l => (Looked(lm) => Looked(s))
  <2>1. s.msm # l =>
          /\ e # <<"LinkProber", lm.psm>> /\ e # <<"MuxState", lm.msm>>
          /\ e # <<"LinkState", lm.lsm>>
          /\ e \notin {"MuxProbeTimeout", "SuspendTimerExpiry"} \X {"None"}
    <3> HIDE DEF s
    <3> QED BY <1>2 DEF AsFound
  <2> HIDE DEF e
  <2> QED BY <1>1, <2>1, StaleIsLooked
<1> HIDE DEF s
<1>5. c \in LinkManager /\ c.ms = l /\ Still(lm, c) /\ c.request = NoRequest
  BY <1>1, <1>2 DEF AsFound, Still, LinkManager
<1>6. Watchful(c)
  BY <1>1, <1>5 DEF Watchful
<1> HIDE DEF c
<1>7. Effect(c, v) /\ Looked(v)
  BY <1>5, TransitionFunctionEffect
<1> HIDE DEF v
<1>8. Watchful(v)
  BY <1>6, <1>7, EffectBehaved DEF Effect, Behaved
<1>9. /\ v \in LinkManager /\ Still(lm, v)
      /\ \/ v.request = NoRequest \/ lm.mode = "Auto"
         \/ v.request.label # "Active"
  BY <1>5, <1>7 DEF Effect, Moved, Grew, Still, Asked
<1>10. s \in LinkManager /\ Still(lm, s) /\ s.request = NoRequest
  BY <1>2 DEF AsFound
<1> QED
  BY <1>3, <1>4, <1>7, <1>8, <1>9, <1>10 DEF Behaved, v, c, s, e

(***************************************************************************)
(* The rest of it.  A mux that is not in Wait has STATE_DB read, so that a *)
(* mismatch is reconciled, and a mode that was postponed is executed.      *)
(***************************************************************************)
LEMMA handleMuxStateChangeKeeps ==
  ASSUME IInv, NEW l \in Reported, handleMuxStateChange(l)
  PROVE  Keeps(lm')
<1> DEFINE e == <<"MuxState", l>>
           s == Take(e)
           n == IF s.msm = l THEN TransitionFunction([s EXCEPT !.ms = l], FALSE)
                             ELSE s
           x == <<"GetMuxState", "None">>
           g == IF n.ms # "Wait" THEN Post(n, x) ELSE n
           h == handleMuxConfigNotification(g, n.pending)
           executed == n.ms # "Wait" /\ n.pending # "None"
           p == IF executed THEN [h EXCEPT !.pending = "None"] ELSE g
           z == [p EXCEPT !.standbyUnknown = 0]
           y == [z EXCEPT !.activeUnknown = 0]
           k == IF l # "Unknown" THEN y ELSE p
           r == IF l = "Standby" THEN tryCancelOscillationTimerIfAlive(k) ELSE k
           f == updateMuxLinkmgrState(r)
<1>1. lm.posted[e] > 0
  BY DEF handleMuxStateChange, Run
<1>2. /\ n \in LinkManager /\ Still(lm, n)
      /\ Watchful(lm) => Watchful(n)
      /\ Looked(lm) => Looked(n)
      /\ \/ n.request = NoRequest \/ lm.mode = "Auto"
         \/ n.request.label # "Active"
  BY <1>1, MuxTransition
<1>3. lm' = MuxStateChange(s, l)
  BY DEF handleMuxStateChange, Run, Step
<1>4. MuxStateChange(s, l) =
        updateMuxLinkmgrState(
          LET c == IF l # "Unknown"
                   THEN [p EXCEPT !.standbyUnknown = 0, !.activeUnknown = 0]
                   ELSE p
          IN  IF l = "Standby" THEN tryCancelOscillationTimerIfAlive(c) ELSE c)
  <2> HIDE DEF s
  <2> QED BY DEF MuxStateChange, p, h, g, n
<1> HIDE DEF n, s
<1>5. x \in Events
  BY CompletionEvents DEF Completions
<1>6. /\ g \in LinkManager /\ Effect(n, g) /\ Attends(n, g)
      /\ n.ms # "Wait" => g.posted[x] > 0
  <2>1. Effect(n, Post(n, x)) /\ Attends(n, Post(n, x))
    BY <1>2, <1>5, PostEffect
  <2>2. Post(n, x).posted[x] > 0
    BY <1>2, <1>5 DEF Post, LinkManager
  <2> QED BY <1>2, <2>1, <2>2, EffectRefl DEF Attends, Grew
<1>7. /\ g.ms = n.ms /\ g.request = n.request /\ Still(n, g)
      /\ Watchful(n) => Watchful(g)
      /\ Looked(n) => Looked(g)
  BY <1>6, EffectBehaved, AttendsLooked DEF Attends, Effect, Moved, Behaved
<1> HIDE DEF g, x
<1>8. /\ p \in LinkManager /\ p.init = lm.init
      /\ Watchful(g) => Watchful(p)
      /\ Matches(g) => Matches(p)
      /\ Looked(g) => Looked(p)
      /\ \/ p.request = NoRequest \/ lm.mode = "Auto"
         \/ p.request.label # "Active"
      /\ n.ms # "Wait" => p.pending = "None" /\ p.posted[x] > 0
      /\ n.ms = "Wait" => p.ms = "Wait"
  <2>1. CASE ~executed
    BY <1>2, <1>6, <1>7, <2>1 DEF Still
  <2>2. CASE executed
    <3>1. n.pending \in Modes
      BY <1>2, <2>2 DEF LinkManager, Modes
    <3>2. /\ Grew(g, h) /\ Behaved(g, h) /\ Asked(g, h) /\ h.init = g.init
          /\ Looked(g) => Looked(h)
      BY <1>6, <3>1, handleMuxConfigNotificationBehaves
    <3> HIDE DEF h
    <3>3. h \in LinkManager /\ h.posted[x] > 0
      BY <1>5, <1>6, <2>2, <3>2 DEF Grew, LinkManager
    <3>4. p = [h EXCEPT !.pending = "None"]
      BY <2>2
    <3>5. /\ p \in LinkManager /\ p.pending = "None" /\ p.posted = h.posted
          /\ p.ps = h.ps /\ p.psm = h.psm /\ p.ms = h.ms /\ p.msm = h.msm
          /\ p.ls = h.ls /\ p.lsm = h.lsm /\ p.cause = h.cause
          /\ p.armed = h.armed /\ p.init = h.init /\ p.mode = h.mode
          /\ p.route = h.route /\ p.shutdown = h.shutdown
          /\ p.request = h.request
      BY <3>3, <3>4 DEF LinkManager
    <3> HIDE DEF p
    <3>6. /\ Watchful(h) => Watchful(p)
          /\ Matches(h) => Matches(p)
          /\ Looked(h) => Looked(p)
      BY <3>5 DEF Watchful, Matches, Looked, Fresh, Completed
    <3> QED
      BY <1>2, <1>7, <2>2, <3>2, <3>3, <3>5, <3>6 DEF Behaved, Asked, Still
  <2> QED BY <2>1, <2>2
<1> HIDE DEF p
<1>9. Effect(p, k) /\ Attends(p, k)
  <2>1. Effect(p, z) /\ Attends(p, z)
    BY <1>8, FieldEffect, ZeroCount
  <2>2. z \in LinkManager
    BY <2>1 DEF Attends, Grew
  <2> HIDE DEF z
  <2>3. Effect(z, y) /\ Attends(z, y)
    BY <2>2, FieldEffect, ZeroCount
  <2> QED BY <1>8, <2>1, <2>3, EffectRefl, EffectTrans
<1>10. l # "Unknown" => k = [p EXCEPT !.standbyUnknown = 0, !.activeUnknown = 0]
  BY <1>8 DEF LinkManager
<1>11. k \in LinkManager
  BY <1>9 DEF Attends, Grew
<1>12. lm' = f
  BY <1>3, <1>4, <1>10
<1> HIDE DEF k
<1>13. Effect(k, r) /\ Attends(k, r)
  BY <1>11, OscillationEffect, EffectRefl
<1>14. r \in LinkManager
  BY <1>13 DEF Attends, Grew
<1> HIDE DEF r
<1>15. Effect(r, f) /\ Attends(r, f) /\ Labelled(f)
  BY <1>14, updateMuxLinkmgrStateEffect
<1> HIDE DEF f
<1>16. Effect(p, f) /\ Attends(p, f)
  BY <1>9, <1>13, <1>15, EffectTrans
<1>17. Behaved(p, f) /\ (Looked(p) => Looked(f))
  BY <1>16, EffectBehaved, AttendsLooked DEF Effect
<1>18. ~Mismatch(f) /\ ~LeftBehind(f)
  <2>1. f.ms = p.ms /\ f.pending = p.pending
    BY <1>16 DEF Attends, Effect, Moved, Still
  <2>2. n.ms # "Wait" => f.posted[x] > 0
    BY <1>5, <1>8, <1>16 DEF Attends, Grew, LinkManager
  <2> QED BY <1>8, <2>1, <2>2 DEF Mismatch, LeftBehind, x
<1>19. Matches(lm) => Matches(p)
  BY <1>2, <1>7, <1>8 DEF Matches, Still
<1>20. Behaved(lm, f)
  BY <1>2, <1>7, <1>8, <1>17, <1>18, <1>19 DEF Behaved
<1>21. Sighted(lm, f)
  BY <1>2, <1>7, <1>8, <1>15, <1>17 DEF Sighted
<1>22. Directed(f)
  BY <1>8, <1>16 DEF Attends, Directed, NoRequest
<1> QED BY <1>12, <1>20, <1>21, <1>22 DEF Keeps

-----------------------------------------------------------------------------
(* The theorems. *)

\* Every step keeps what a step has to keep: one case per action.
LEMMA NextKeeps == IInv /\ [Next]_lm => Keeps(lm')
<1> SUFFICES ASSUME IInv, [Next]_lm PROVE Keeps(lm')
  OBVIOUS
<1>1. CASE Notification
  <2>1. CASE \/ handleSwssBladeIpv4AddressUpdate
             \/ \E mode \in ConfigModes : handleMuxConfig(mode)
             \/ \E r \in RouteReports : handleDefaultRouteStateNotification(r)
    BY <2>1, handleSwssBladeIpv4AddressUpdateKeeps, handleMuxConfigKeeps,
       handleDefaultRouteStateNotificationKeeps
  <2>2. CASE \/ \E l \in SwssReports : handleMuxStateNotification(l)
             \/ \E l \in XcvrdReports : handleProbeMuxStateNotification(l)
    BY <2>2, handleMuxStateNotificationKeeps,
       handleProbeMuxStateNotificationKeeps
  <2>3. CASE \/ \E l \in LinkReports : handleSwssLinkStateNotification(l)
             \/ \E l \in PeerLinkReports : handlePeerLinkStateNotification(l)
    BY <2>3, handleSwssLinkStateNotificationKeeps,
       handlePeerLinkStateNotificationKeeps, ConstantsAssumption
  <2>4. CASE handleSwitchActiveRequestEvent \/ handleResetSuspendTimer
    BY <2>4, PeerCommandKeeps
  <2>5. CASE \/ \E l \in Heartbeats : ProberDetects(l)
             \/ \E t \in Timers : TimerExpires(t)
    BY <2>5, ProberDetectsKeeps, TimerExpiresKeeps
  <2> QED BY <1>1, <2>1, <2>2, <2>3, <2>4, <2>5 DEF Notification
<1>2. CASE Delivery
  <2>1. CASE \/ \E l \in Reported : MuxStateEvent(l)
             \/ \E l \in LinkLabels : LinkStateEvent(l)
    BY <2>1, MuxStateEventKeeps, LinkStateEventKeeps
  <2>2. CASE \/ \E l \in Detected : handleLinkProberStateChange(l)
             \/ \E l \in Reported : handleMuxStateChange(l)
             \/ \E l \in LinkLabels : handleLinkStateChange(l)
    BY <2>2, handleLinkProberStateChangeKeeps, handleMuxStateChangeKeeps,
       handleLinkStateChangeKeeps
  <2>3. CASE \E l \in SwssReports : handleGetMuxStateNotification(l)
    BY <2>3, handleGetMuxStateNotificationKeeps
  <2>4. CASE \/ handleSuspendTimerExpiry \/ handleMuxProbeTimeout
             \/ handleMuxWaitTimeout \/ handleSwitchActiveCommandCompletion
    BY <2>4, handleSuspendTimerExpiryKeeps, handleMuxProbeTimeoutKeeps,
       handleMuxWaitTimeoutKeeps, handleSwitchActiveCommandCompletionKeeps
  <2>5. CASE handleOscillationTimeout \/ OscillationAborted
    BY <2>5, OscillationKeeps
  <2> QED BY <1>2, <2>1, <2>2, <2>3, <2>4, <2>5 DEF Delivery
<1>3. CASE UNCHANGED lm
  BY <1>3 DEF Keeps, Behaved, Sighted, Directed, Watchful, Completed, Matches,
     Labelled, Healthy, Looked, Fresh, Mismatch, LeftBehind
<1> QED BY <1>1, <1>2, <1>3 DEF Next

\* A port that has just been created satisfies the strengthened invariants.
LEMMA InitKept ==
  Init => Watchful(lm) /\ Matches(lm) /\ Labelled(lm) /\ Looked(lm)
BY DEF Init, Watchful, Matches, Labelled, Looked, Components

(***************************************************************************)
(* A mux that waits for xcvrd is never forgotten, whatever answers arrive  *)
(* late, are discarded or cancel the timer: the timer, its expiry, the     *)
(* command to the peer or a report is always on its way.                   *)
(***************************************************************************)
THEOREM WaitIsWatched == Spec => []DriverWaitIsWatched
<1> DEFINE SInv == IInv /\ Watchful(lm)
<1>1. Init => SInv
  BY InitCoherent, InitKept
<1>2. SInv /\ [Next]_lm => SInv'
  BY NextCoherent, NextKeeps DEF Keeps, Behaved, Watchful, Completed
<1>3. SInv => DriverWaitIsWatched
  <2> SUFFICES ASSUME SInv, lm.ms = "Wait", lm.cause = "DriverUpdate",
                      "wait" \notin lm.armed,
                      ~Completed(lm, "MuxWaitTimeout"),
                      ~Completed(lm, "SwitchActiveCommandCompletion")
               PROVE  ReportWaiting({"MuxStateEvent", "MuxState"})
    BY DEF DriverWaitIsWatched, Waiting, Completed
  <2>1. CASE lm.msm # "Wait"
    <3>1. lm.msm \in Reported /\ lm.posted[<<"MuxState", lm.msm>>] > 0
      BY <2>1 DEF IInv, Coherent
    <3> QED BY <3>1, Reports DEF ReportWaiting, Waiting
  <2>2. CASE \E l \in Reported : lm.posted[<<"MuxStateEvent", l>>] > 0
    BY <2>2, Reports DEF ReportWaiting, Waiting
  <2> QED BY <2>1, <2>2 DEF Watchful
<1> QED BY <1>1, <1>2, <1>3, PTL DEF Spec

(***************************************************************************)
(* Heartbeats are shut down exactly while a port in mode auto or standby   *)
(* has no default route, with the feature and without it, and however mode *)
(* changes, their postponement and the activation meet route reports.      *)
(***************************************************************************)
THEOREM ShutdownFollowsRoute == Spec => []ShutdownMatchesRoute
<1> DEFINE SInv == IInv /\ Matches(lm)
<1>1. Init => SInv
  BY InitCoherent, InitKept
<1>2. SInv /\ [Next]_lm => SInv'
  BY NextCoherent, NextKeeps DEF Keeps, Behaved, Matches
<1>3. SInv => ShutdownMatchesRoute
  BY DEF Matches, ShutdownMatchesRoute, Initialized
<1> QED BY <1>1, <1>2, <1>3, PTL DEF Spec

(***************************************************************************)
(* The label in STATE_DB says whether the port is healthy, or the port is  *)
(* in the middle of a switch or probe.  Without the default route feature  *)
(* this needs that no loss of the peer's link is reported, see             *)
(* LabelPublished.                                                         *)
(***************************************************************************)
THEOREM LabelIsAccurate ==
  ASSUME LabelPublished
  PROVE  Spec => []LabelAccurate
<1> DEFINE SInv == IInv /\ Labelled(lm)
<1>1. Init => SInv
  BY InitCoherent, InitKept
<1>2. SInv /\ [Next]_lm => SInv'
  BY NextCoherent, NextKeeps, LabelPublished
  DEF Keeps, Sighted, Labelled, Healthy
<1>3. SInv => LabelAccurate
  BY DEF Labelled, LabelAccurate, Initialized
<1> QED BY <1>1, <1>2, <1>3, PTL DEF Spec

(***************************************************************************)
(* On a port whose prober disagrees with its mux something is always due   *)
(* that will look at the mux again, unless one of the two notifications    *)
(* arrives that blind it, see NothingBlinds.                               *)
(***************************************************************************)
THEOREM DisagreementIsLookedAt ==
  ASSUME NothingBlinds
  PROVE  Spec => []DisagreementIsWatched
<1> DEFINE SInv == IInv /\ Looked(lm)
<1>1. Init => SInv
  BY InitCoherent, InitKept
<1>2. SInv /\ [Next]_lm => SInv'
  BY NextCoherent, NextKeeps, NothingBlinds
  DEF Keeps, Sighted, Looked, Fresh, Completed
<1>3. SInv => DisagreementIsWatched
  <2> SUFFICES ASSUME SInv, Initialized, lm.ls = "Up" \/ lm.ps = "Wait",
                      lm.ms \in {"Active", "Standby", "Unknown"},
                      lm.ps # lm.ms
               PROVE  \/ "deadline" \in lm.armed
                      \/ Waiting(<<"MuxProbeTimeout", "None">>)
                      \/ ReportWaiting({"MuxStateEvent", "MuxState",
                                        "LinkStateEvent", "LinkState",
                                        "LinkProber"})
                      \/ /\ <<lm.ps, lm.ms>> = <<"Unknown", "Active">>
                         /\ \/ "suspend" \in lm.armed
                            \/ Waiting(<<"SuspendTimerExpiry", "None">>)
    BY DEF DisagreementIsWatched
  <2>1. CASE Fresh(lm)
    <3>1. lm.lsm \in LinkLabels
      BY DEF IInv, LinkManager
    <3>2. \E e \in Events : /\ e[1] \in {"MuxState", "LinkState", "LinkProber"}
                            /\ lm.posted[e] > 0
      BY <2>1, <3>1, Reports DEF Fresh
    <3> QED BY <3>2 DEF ReportWaiting, Waiting
  <2>2. CASE ~Fresh(lm)
    BY <2>2 DEF Looked, Initialized, Completed, Waiting
  <2> QED BY <2>1, <2>2
<1> QED BY <1>1, <1>2, <1>3, PTL DEF Spec

(***************************************************************************)
(* No step of an activated port leaves the mux in a direction orchagent    *)
(* was not asked for last without STATE_DB being read again.               *)
(***************************************************************************)
THEOREM MismatchReconciled == Spec => MismatchIsReconciled
<1>1. IInv /\ [Next]_lm =>
        [Initialized /\ Mismatch(lm') => Mismatch(lm)]_lm
  BY NextKeeps DEF Keeps, Behaved, Initialized
<1> QED
  BY <1>1, InitCoherent, NextCoherent, PTL DEF Spec, MismatchIsReconciled

(***************************************************************************)
(* A mode that was postponed is executed by the handler that takes the mux *)
(* out of Wait.                                                            *)
(***************************************************************************)
THEOREM PendingExecuted == Spec => PendingIsExecuted
<1>1. IInv /\ [Next]_lm =>
        [Initialized /\ LeftBehind(lm') => LeftBehind(lm)]_lm
  BY NextKeeps DEF Keeps, Behaved, Initialized
<1> QED
  BY <1>1, InitCoherent, NextCoherent, PTL DEF Spec, PendingIsExecuted

(***************************************************************************)
(* A port the operator took out of mode auto is switched to active only to *)
(* tell orchagent what the hardware already shows.                         *)
(***************************************************************************)
THEOREM OperatorHolds == Spec => OperatorHoldsDirection
<1>1. IInv /\ [Next]_lm =>
        [/\ Initialized /\ lm.mode # "Auto"
         /\ lm'.request.label = "Active" /\ lm'.request # lm.request
         => lm'.request.cause = "MatchingHardwareState" /\ lm.ms = "Active"]_lm
  BY NextKeeps DEF Keeps, Directed
<1> QED
  BY <1>1, InitCoherent, NextCoherent, PTL DEF Spec, OperatorHoldsDirection

=============================================================================
