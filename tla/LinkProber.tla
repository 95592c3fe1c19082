----------------------------- MODULE LinkProber -----------------------------
(***************************************************************************)
(* The software link prober of an active-standby port and the state        *)
(* machine that turns its heartbeats into a verdict:                       *)
(* src/src/link_prober/LinkProberSw.cpp, LinkProberBase.cpp, the state     *)
(* classes and LinkProberStateMachineBase.cpp.                             *)
(*                                                                         *)
(* Two strands take part.  The prober's own strand sends, receives and     *)
(* times out heartbeats; the port's strand runs the state machine and      *)
(* calls suspend, resume, shutdown and restart directly.  What crosses     *)
(* from the first to the second, and the completions of the suspend timer, *)
(* wait in collections that nothing orders.  Init is the prober right      *)
(* after startProbing, when the deadline timer runs; it is re-armed by     *)
(* every expiry and nobody cancels it.                                     *)
(*                                                                         *)
(* Left out: statistics, the interval of 10 ms after a switchover, the     *)
(* commands received, and probePeerTor, which sends only when mPeerType is *)
(* SOFTWARE, a value that the software prober never sets.                  *)
(***************************************************************************)
EXTENDS IcmpPacket

CONSTANTS
  PositiveRetry,  \* MuxConfig::mPositiveStateChangeRetryCount
  NegativeRetry,  \* MuxConfig::mNegativeStateChangeRetryCount
  MaxPosted,      \* bound: events waiting on the strand of the port
  MaxDone,        \* bound: completions of the suspend timer of one kind
  MaxOwn          \* bound: own heartbeats that can still be answered

ASSUME LinkProberAssumption ==
  /\ PositiveRetry \in Nat \ {0}
  /\ NegativeRetry \in Nat \ {0}
  /\ MaxPosted \in Nat \ {0, 1}
  /\ MaxDone \in Nat \ {0}
  /\ MaxOwn \in Nat \ {0}

Labels      == {"Active", "Standby", "Unknown", "Wait"}
ProbeEvents == {"Self", "Peer", "Unknown"}
Senders     == {"Self", "Peer"}
Outcomes    == {"Expired", "Aborted"}

VARIABLES
  txSeqNo, rxSelfSeqNo, rxPeerSeqNo,  \* mTxSeqNo, mRxSelfSeqNo, mRxPeerSeqNo
  heard,         \* history: whose heartbeats came since the last one was due
  tlvs,          \* the TLVs at the end of mTxBuffer
  icmpChecksum,  \* mIcmpChecksum
  garbled,       \* history: what was wrong with heartbeats that left
  own,           \* own heartbeats on the wire
  suspendTx,     \* mSuspendTx
  shutdownTx,    \* mShutdownTx
  suspendTimer,  \* mSuspendTimer has a wait outstanding
  suspendDone,   \* its completions that wait on the strand of the prober
  state,         \* mCurrentState of the state machine
  count,         \* the event counters of that state
  reports,       \* changes of state posted to the link manager, modulo 2
  posted,        \* events that wait on the strand of the port
  outside        \* how the world around the prober behaves

buffer     == <<tlvs, icmpChecksum, garbled>>
sequence   == <<txSeqNo, rxSelfSeqNo, rxPeerSeqNo, heard, buffer>>
suspension == <<suspendTx, suspendTimer, suspendDone>>
machine    == <<state, count, reports>>
vars == <<sequence, own, suspension, shutdownTx, machine, posted, outside>>

Zero == [e \in ProbeEvents |-> 0]

-----------------------------------------------------------------------------
(* The prober's strand. *)

Waiting == posted["Self"] + posted["Peer"] + posted["Unknown"]

postLinkProberStateEvent(e) == posted' = [posted EXCEPT ![e] = @ + 1]

\* Mutant: what was received is not brought along.
updateIcmpSequenceNo_TxOnly ==
  /\ txSeqNo' = (txSeqNo + 1) % SeqModulus
  /\ UNCHANGED <<rxSelfSeqNo, rxPeerSeqNo>>

updateIcmpSequenceNo ==
  /\ rxSelfSeqNo' = txSeqNo
  /\ rxPeerSeqNo' = txSeqNo
  /\ txSeqNo' = (txSeqNo + 1) % SeqModulus

\* Mutant: only the suspension is asked for.
Leaves_ShutdownIgnored(forceSend) == forceSend \/ ~suspendTx

Leaves(forceSend) == forceSend \/ (~suspendTx /\ ~shutdownTx)

\* The heartbeat as it lies in the buffer with TLVs lists and the sum sum; command is
\* what it shall ask the peer for.
Faults(lists, sum, command) ==
  (IF Verifies(CommandOf(lists), txSeqNo', Complement(NextChecksum(sum, txSeqNo')))
   THEN {} ELSE {"Checksum"})
  \cup (IF Requested(lists) = {command} \ {"None"} THEN {} ELSE {"Request"})

Sends(lists, sum, command, forceSend) ==
  /\ updateIcmpSequenceNo
  /\ heard' = {}
  /\ own' = IF Leaves(forceSend) /\ own < MaxOwn THEN own + 1 ELSE own
  /\ garbled' = IF Leaves(forceSend) THEN garbled \cup Faults(lists, sum, command)
                ELSE garbled

sendHeartbeat(forceSend) ==
  /\ Sends(tlvs, icmpChecksum, "None", forceSend)
  /\ icmpChecksum' = NextChecksum(icmpChecksum, txSeqNo')
  /\ UNCHANGED tlvs

\* Mutant: a prober that may not send does not complain.
reportHeartbeatReplyNotReceived_OnlyWhenSent ==
  IF txSeqNo \notin {rxSelfSeqNo, rxPeerSeqNo} /\ Leaves(FALSE)
  THEN postLinkProberStateEvent("Unknown") ELSE UNCHANGED posted

reportHeartbeatReplyNotReceived ==
  IF txSeqNo \notin {rxSelfSeqNo, rxPeerSeqNo}
  THEN postLinkProberStateEvent("Unknown") ELSE UNCHANGED posted

\* The deadline timer expired: the next cycle of send and receive begins.
handleTimeout ==
  /\ Waiting < MaxPosted
  /\ reportHeartbeatReplyNotReceived
  /\ sendHeartbeat(FALSE)
  /\ UNCHANGED <<suspension, shutdownTx, machine, outside>>

\* Mutant: the sum is not computed when the command is taken out again.
handleSendSwitchCommand_SumKept ==
  LET lists == initTxBufferTlvSend("SwitchActive")
      sum   == calculateChecksum("SwitchActive", txSeqNo) IN
  /\ Sends(lists, sum, "SwitchActive", FALSE)
  /\ tlvs' = initTxBufferTlvSentinel
  /\ icmpChecksum' = NextChecksum(sum, txSeqNo')
  /\ UNCHANGED <<suspension, shutdownTx, machine, posted, outside>>

\* Two heartbeats the link manager asks for between the cycles.
handleSendSwitchCommand ==
  LET lists == initTxBufferTlvSend("SwitchActive")
      sum   == calculateChecksum("SwitchActive", txSeqNo) IN
  /\ Sends(lists, sum, "SwitchActive", FALSE)
  /\ tlvs' = initTxBufferTlvSentinel
  /\ icmpChecksum' = calculateChecksum("None", txSeqNo')
  /\ UNCHANGED <<suspension, shutdownTx, machine, posted, outside>>

detectLink ==
  /\ outside = "Open"
  /\ sendHeartbeat(TRUE)
  /\ UNCHANGED <<suspension, shutdownTx, machine, posted, outside>>

\* The addresses changed: initializeSendBuffer.
handleUpdateEthernetFrame ==
  /\ tlvs' = initTxBufferTlvSentinel
  /\ icmpChecksum' = calculateChecksum("None", txSeqNo)
  /\ UNCHANGED <<txSeqNo, rxSelfSeqNo, rxPeerSeqNo, heard, garbled, own, suspension,
                 shutdownTx, machine, posted, outside>>

\* A valid heartbeat was read.  The sequence number it carries is not looked
\* at, and once one's own was heard every other one counts as one's own.
\* Events leave room for the one the deadline may have to post.
handleIcmpPayload(sender) ==
  /\ outside # "Cut"
  /\ Waiting + 1 < MaxPosted
  /\ IF sender = "Self"
     THEN /\ own > 0
          /\ own' = own - 1
          /\ rxSelfSeqNo' = txSeqNo
          /\ UNCHANGED rxPeerSeqNo
     ELSE /\ rxPeerSeqNo' = txSeqNo
          /\ UNCHANGED <<own, rxSelfSeqNo>>
  /\ heard' = heard \cup {sender}
  /\ postLinkProberStateEvent(IF txSeqNo = rxSelfSeqNo' THEN "Self" ELSE "Peer")
  /\ UNCHANGED <<txSeqNo, buffer, suspension, shutdownTx, machine, outside>>

\* A heartbeat of ours, or its echo, is lost.
Lose ==
  /\ own > 0
  /\ own' = own - 1
  /\ UNCHANGED <<sequence, suspension, shutdownTx, machine, posted, outside>>

-----------------------------------------------------------------------------
(* The suspend timer. *)

Done(c) == suspendDone' = [suspendDone EXCEPT ![c] = @ + 1]

\* Arming the timer anew, or cancelling it, aborts the wait outstanding.
Abort ==
  IF suspendTimer
  THEN suspendDone["Aborted"] < MaxDone /\ Done("Aborted")
  ELSE UNCHANGED suspendDone

suspendTxProbes ==
  /\ Abort
  /\ suspendTimer' = TRUE
  /\ suspendTx' = TRUE
  /\ UNCHANGED <<sequence, own, shutdownTx, machine, posted, outside>>

resumeTxProbes ==
  /\ suspendTimer
  /\ Abort
  /\ suspendTimer' = FALSE
  /\ UNCHANGED <<sequence, own, suspendTx, shutdownTx, machine, posted, outside>>

SuspendTimerExpires ==
  /\ suspendTimer
  /\ suspendDone["Expired"] < MaxDone
  /\ suspendTimer' = FALSE
  /\ Done("Expired")
  /\ UNCHANGED <<sequence, own, suspendTx, shutdownTx, machine, posted, outside>>

\* Mutant: an aborted wait leaves the flag alone.
handleSuspendTimeout_OnlyExpired(c) ==
  /\ suspendDone[c] > 0
  /\ suspendDone' = [suspendDone EXCEPT ![c] = @ - 1]
  /\ suspendTx' = (c = "Aborted" /\ suspendTx)
  /\ UNCHANGED <<sequence, own, suspendTimer, shutdownTx, machine, posted, outside>>

handleSuspendTimeout(c) ==
  /\ suspendDone[c] > 0
  /\ suspendDone' = [suspendDone EXCEPT ![c] = @ - 1]
  /\ suspendTx' = FALSE
  /\ UNCHANGED <<sequence, own, suspendTimer, shutdownTx, machine, posted, outside>>

shutdownTxProbes ==
  /\ shutdownTx' = TRUE
  /\ UNCHANGED <<sequence, own, suspension, machine, posted, outside>>

restartTxProbes ==
  /\ outside = "Open"
  /\ shutdownTx' = FALSE
  /\ UNCHANGED <<sequence, own, suspension, machine, posted, outside>>

-----------------------------------------------------------------------------
(* The state machine, on the strand of the port. *)

\* One more event e; the events in others start again.
Counted(e, others) ==
  [k \in ProbeEvents |-> IF k = e THEN count[k] + 1
                         ELSE IF k \in others THEN 0 ELSE count[k]]

\* Stay in the state with counters c, or enter another one, which resets its own.
Stay(c) == count' = c /\ UNCHANGED <<state, reports>>
Move(l) == state' = l /\ count' = Zero

\* The link manager is told.
Report(l) == Move(l) /\ reports' = 1 - reports

Establishes(e, others, l) ==
  IF Counted(e, others)[e] >= (IF e = "Unknown" THEN NegativeRetry
                                                ELSE PositiveRetry)
  THEN Report(l) ELSE Stay(Counted(e, others))

\* Mutant: lost heartbeats do not interrupt a run of the peer's.
ActiveState_PeerKept(e) ==
  /\ state = "Active"
  /\ \/ e = "Self"    /\ Stay(Zero)
     \/ e = "Peer"    /\ Establishes("Peer", {"Unknown"}, "Standby")
     \/ e = "Unknown" /\ Establishes("Unknown", {}, "Unknown")

ActiveState(e) ==
  /\ state = "Active"
  /\ \/ e = "Self"    /\ Stay(Zero)
     \/ e = "Peer"    /\ Establishes("Peer", {"Unknown"}, "Standby")
     \/ e = "Unknown" /\ Establishes("Unknown", {"Peer"}, "Unknown")

StandbyState(e) ==
  /\ state = "Standby"
  /\ \/ e = "Peer"    /\ Stay(Zero)
     \/ e = "Self"    /\ Establishes("Self", {"Unknown"}, "Active")
     \/ e = "Unknown" /\ Establishes("Unknown", {"Self"}, "Unknown")

UnknownState(e) ==
  /\ state = "Unknown"
  /\ \/ e = "Unknown" /\ Stay(Zero)
     \/ e = "Self"    /\ Establishes("Self", {"Peer"}, "Active")
     \/ e = "Peer"    /\ Establishes("Peer", {"Self"}, "Standby")

\* On an active-standby port silence only starts the counters again.
WaitState(e) ==
  /\ state = "Wait"
  /\ \/ e = "Unknown" /\ Stay(Zero)
     \/ e = "Self"    /\ Establishes("Self", {"Peer", "Unknown"}, "Active")
     \/ e = "Peer"    /\ Establishes("Peer", {"Self", "Unknown"}, "Standby")

processEvent(e) ==
  /\ posted[e] > 0
  /\ posted' = [posted EXCEPT ![e] = @ - 1]
  /\ ActiveState(e) \/ StandbyState(e) \/ UnknownState(e) \/ WaitState(e)
  /\ UNCHANGED <<sequence, own, suspension, shutdownTx, outside>>

\* The link manager forces a state; forcing the present one changes nothing.
enterState(l) ==
  /\ outside = "Open"
  /\ state # l
  /\ Move(l)
  /\ UNCHANGED <<reports, sequence, own, suspension, shutdownTx, posted, outside>>

-----------------------------------------------------------------------------
\* From here on heartbeats stay shut down and the state is not forced, ...
Stop ==
  /\ outside = "Open" /\ shutdownTx
  /\ outside' = "Stopped"
  /\ UNCHANGED <<sequence, own, suspension, shutdownTx, machine, posted>>

\* ... or nothing is received any more and the state is not forced.
Cut ==
  /\ outside = "Open"
  /\ outside' = "Cut"
  /\ UNCHANGED <<sequence, own, suspension, shutdownTx, machine, posted>>

\* activateStateMachine forced the label of the mux and called startProbing.
Init ==
  /\ txSeqNo = 0
  /\ rxSelfSeqNo = SeqModulus - 1
  /\ rxPeerSeqNo = SeqModulus - 1
  /\ heard = {}
  /\ tlvs = initTxBufferTlvSentinel
  /\ icmpChecksum = calculateChecksum("None", SeqModulus - 1)
  /\ garbled = {}
  /\ shutdownTx \in BOOLEAN
  /\ own = IF shutdownTx THEN 0 ELSE 1
  /\ suspendTx = FALSE
  /\ suspendTimer = FALSE
  /\ suspendDone = [c \in Outcomes |-> 0]
  /\ state \in Labels
  /\ count = Zero
  /\ reports = 0
  /\ posted = Zero
  /\ outside = "Open"

Next ==
  \/ handleTimeout
  \/ handleSendSwitchCommand
  \/ handleUpdateEthernetFrame
  \/ detectLink
  \/ \E sender \in Senders : handleIcmpPayload(sender)
  \/ Lose
  \/ suspendTxProbes
  \/ resumeTxProbes
  \/ SuspendTimerExpires
  \/ \E c \in Outcomes : handleSuspendTimeout(c)
  \/ shutdownTxProbes
  \/ restartTxProbes
  \/ \E e \in ProbeEvents : processEvent(e)
  \/ \E l \in Labels : enterState(l)
  \/ Stop
  \/ Cut

\* The io_service runs every handler that is queued and timers expire.
Fairness ==
  /\ WF_vars(handleTimeout)
  /\ WF_vars(SuspendTimerExpires)
  /\ \A c \in Outcomes : WF_vars(handleSuspendTimeout(c))
  /\ \A e \in ProbeEvents : WF_vars(processEvent(e))

Spec == Init /\ [][Next]_vars /\ Fairness

-----------------------------------------------------------------------------
(* Properties. *)

\* Sequence numbers wrap, and every counter stays below the count that ends
\* its state, whatever resets it on the way.
TypeOK ==
  /\ {txSeqNo, rxSelfSeqNo, rxPeerSeqNo} \subseteq 0 .. SeqModulus - 1
  /\ heard \subseteq Senders
  /\ tlvs = initTxBufferTlvSentinel
  /\ icmpChecksum \in 0 .. SeqModulus - 1
  /\ own \in 0 .. MaxOwn
  /\ suspendTx \in BOOLEAN /\ shutdownTx \in BOOLEAN /\ suspendTimer \in BOOLEAN
  /\ suspendDone \in [Outcomes -> 0 .. MaxDone]
  /\ state \in Labels
  /\ count \in [ProbeEvents -> Nat]
  /\ count["Self"] < PositiveRetry /\ count["Peer"] < PositiveRetry
  /\ count["Unknown"] < NegativeRetry
  /\ reports \in {0, 1}
  /\ posted \in [ProbeEvents -> 0 .. MaxPosted]
  /\ outside \in {"Open", "Stopped", "Cut"}

(***************************************************************************)
(* A received sequence number equals the one sent last exactly when such a *)
(* heartbeat came since then, also after the numbers have wrapped; whether *)
(* an interval counts as lost depends on nothing else.                     *)
(***************************************************************************)
SequenceMeansHeard ==
  /\ rxSelfSeqNo = txSeqNo <=> "Self" \in heard
  /\ rxPeerSeqNo = txSeqNo <=> "Peer" \in heard

(***************************************************************************)
(* Every heartbeat that left had the right checksum, which is kept up to   *)
(* date and not computed, also when its sequence number wrapped and when a *)
(* command was put into the buffer and taken out; and the peer reads a     *)
(* switch request out of the heartbeats that shall carry one and no other  *)
(* (LinkProberBase.cpp:558, :429).                                         *)
(***************************************************************************)
HeartbeatsIntact == garbled = {}

(***************************************************************************)
(* The counters of the four states behave like the one streak of events    *)
(* that ProberVerdict speaks of: at most one of them is positive, and it   *)
(* holds how many events of its kind came in a row.                        *)
(***************************************************************************)
StreakOf(c) ==
  IF c["Self"] > 0 THEN [event |-> "Self", length |-> c["Self"]]
  ELSE IF c["Peer"] > 0 THEN [event |-> "Peer", length |-> c["Peer"]]
  ELSE IF c["Unknown"] > 0 THEN [event |-> "Unknown", length |-> c["Unknown"]]
  ELSE [event |-> "None", length |-> 0]

Verdict == INSTANCE ProberVerdict WITH verdict <- state, streak <- StreakOf(count)

\* The prober keeps the promise of ProberVerdict: the link manager hears of a
\* change exactly when it was not the one to force it and enough equal events
\* came in a row.
KeepsVerdict == Verdict!Spec

\* Once nothing is received any more, the verdict comes to be Unknown, unless
\* the prober was told to wait: also while heartbeats are suspended or shut down.
SilenceIsDetected == outside = "Cut" ~> [](state \in {"Unknown", "Wait"})

\* Once heartbeats are shut down for good, no heartbeat, not even one of the
\* peer that is received, is reported as one's own.
StopIsEffective == outside = "Stopped" ~> [](posted["Self"] = 0)

\* A suspension ends, whether its timer expires, is cancelled or armed anew.
SuspensionEnds == suspendTx ~> ~suspendTx

(***************************************************************************)
(* While the suspend timer runs, mSuspendTx says so and no heartbeat is    *)
(* sent on schedule.                                                       *)
(***************************************************************************)
SuspendedWhileTimerRuns == suspendTimer => suspendTx

=============================================================================
