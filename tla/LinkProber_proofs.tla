-------------------------- MODULE LinkProber_proofs --------------------------
(***************************************************************************)
(* For every retry count, every width of the sequence numbers and every    *)
(* bound: the prober keeps its type, a sequence number that matches means  *)
(* a heartbeat that was heard, every heartbeat leaves with the right       *)
(* checksum, and the state machine implements ProberVerdict.               *)
(*                                                                         *)
(* TypeOK and SequenceMeansHeard together are inductive, and so is that    *)
(* the sum kept up to date is the one that would be computed of a buffer   *)
(* without a command.  The refinement                                      *)
(* needs to know what the counters of the present state can hold: events   *)
(* that confirm the state are not counted, and at most one counter is      *)
(* positive.  Each entry of the handlers' tables keeps that, which is what *)
(* the selective resets are for.                                           *)
(***************************************************************************)
EXTENDS LinkProber, TLAPS

\* At most one streak, and never of the event that confirms the state.
OneStreak ==
  /\ count["Self"] = 0 \/ count["Peer"] = 0
  /\ count["Self"] = 0 \/ count["Unknown"] = 0
  /\ count["Peer"] = 0 \/ count["Unknown"] = 0
  /\ state = "Active" => count["Self"] = 0
  /\ state = "Standby" => count["Peer"] = 0
  /\ state \in {"Unknown", "Wait"} => count["Unknown"] = 0

\* The parts of TypeOK, by who writes them.
NumbersOK ==
  /\ txSeqNo \in 0 .. SeqModulus - 1
  /\ rxSelfSeqNo \in 0 .. SeqModulus - 1
  /\ rxPeerSeqNo \in 0 .. SeqModulus - 1
  /\ heard \subseteq Senders
  /\ own \in 0 .. MaxOwn

\* The buffer holds no command, and the sum kept is the one of its words.
BufferOK ==
  /\ tlvs = initTxBufferTlvSentinel
  /\ icmpChecksum = calculateChecksum("None", txSeqNo)
  /\ garbled = {}

SuspensionOK ==
  /\ suspendTx \in BOOLEAN
  /\ suspendTimer \in BOOLEAN
  /\ suspendDone \in [Outcomes -> 0 .. MaxDone]

MachineOK ==
  /\ state \in Labels
  /\ count \in [ProbeEvents -> Nat]
  /\ count["Self"] < PositiveRetry
  /\ count["Peer"] < PositiveRetry
  /\ count["Unknown"] < NegativeRetry
  /\ reports \in {0, 1}
  /\ OneStreak

PostedOK == posted \in [ProbeEvents -> 0 .. MaxPosted]

WorldOK ==
  /\ shutdownTx \in BOOLEAN
  /\ outside \in {"Open", "Stopped", "Cut"}

\* The inductive invariant.
IInv ==
  /\ NumbersOK
  /\ SequenceMeansHeard
  /\ BufferOK
  /\ SuspensionOK
  /\ MachineOK
  /\ PostedOK
  /\ WorldOK

-----------------------------------------------------------------------------
(* The checksum and the TLVs.                                               *)

\* A sum is a word, and never 0: the buffer is not all zeros.
LEMMA SumIsWord ==
  ASSUME NEW command \in Commands, NEW n \in 0 .. SeqModulus - 1
  PROVE  calculateChecksum(command, n) \in 1 .. SeqModulus - 1
<1>1. Content[command] \in 1 .. SeqModulus - 1
  BY IcmpPacketAssumption
<1> QED
  BY <1>1, IcmpPacketAssumption DEF calculateChecksum, Plus

\* Adding one for the next number, and nothing when it wraps, is the same as
\* computing the sum anew.
LEMMA NextSum ==
  ASSUME NEW command \in Commands, NEW n \in 0 .. SeqModulus - 1
  PROVE  NextChecksum(calculateChecksum(command, n), (n + 1) % SeqModulus)
           = calculateChecksum(command, (n + 1) % SeqModulus)
<1>1. Content[command] \in 1 .. SeqModulus - 1
  BY IcmpPacketAssumption
<1>2. CASE n + 1 < SeqModulus
  <2>1. (n + 1) % SeqModulus = n + 1
    BY <1>2, IcmpPacketAssumption
  <2> QED
    BY <1>1, <1>2, <2>1, IcmpPacketAssumption
    DEF NextChecksum, calculateChecksum, Plus
<1>3. CASE n + 1 = SeqModulus
  <2>1. (n + 1) % SeqModulus = 0
    BY <1>3, IcmpPacketAssumption
  <2> QED
    BY <1>1, <1>3, <2>1, IcmpPacketAssumption
    DEF NextChecksum, calculateChecksum, Plus
<1> QED
  BY <1>2, <1>3, IcmpPacketAssumption

\* The complement of the sum is what the receiver finds intact.
LEMMA SumVerifies ==
  ASSUME NEW command \in Commands, NEW n \in 0 .. SeqModulus - 1
  PROVE  Verifies(command, n, Complement(calculateChecksum(command, n)))
<1>1. calculateChecksum(command, n) \in 1 .. SeqModulus - 1
  BY SumIsWord
<1> QED
  BY <1>1, IcmpPacketAssumption DEF Verifies, Complement, Plus

\* A buffer without a command asks for nothing, one with a command for that.
LEMMA RequestIsRead ==
  ASSUME NEW command \in Commands
  PROVE  /\ CommandOf(initTxBufferTlvSentinel) = "None"
         /\ Requested(initTxBufferTlvSentinel) = {}
         /\ CommandOf(initTxBufferTlvSend(command)) = command
         /\ Requested(initTxBufferTlvSend(command)) = {command} \ {"None"}
<1> DEFINE one == <<TlvSentinel>>
           two == <<TlvCommand(command), TlvSentinel>>
<1>1. DOMAIN one = {1} /\ one[1] = TlvSentinel
  OBVIOUS
<1>2. DOMAIN two = {1, 2} /\ two[1] = TlvCommand(command) /\ two[2] = TlvSentinel
  OBVIOUS
<1>3. /\ TlvSentinel.type = "TLV_SENTINEL" /\ TlvSentinel.command = "None"
      /\ TlvCommand(command).type = "TLV_COMMAND"
      /\ TlvCommand(command).command = command
  BY DEF TlvSentinel, TlvCommand, Tlv
<1>4. one # two
  BY <1>1, <1>2
<1>5. Obeyed(one, FALSE) = {}
  BY <1>1, <1>3 DEF Obeyed
<1>6. Obeyed(two, FALSE) = IF command = "None" THEN {} ELSE {1}
  <2>1. 1 .. 1 - 1 = {}
    OBVIOUS
  <2> QED
    BY <1>2, <1>3, <2>1 DEF Obeyed
<1>7. Requested(one) = {}
  BY <1>5 DEF Requested
<1>8. Requested(two) = {command} \ {"None"}
  <2>1. Requested(two) = {two[i].command : i \in Obeyed(two, FALSE)}
    BY DEF Requested
  <2>2. CASE command = "None"
    BY <1>6, <2>1, <2>2
  <2>3. CASE command # "None"
    BY <1>2, <1>3, <1>6, <2>1, <2>3
  <2> QED
    BY <2>2, <2>3
<1>9. CommandOf(one) = "None" /\ CommandOf(two) = command
  BY <1>2, <1>3, <1>4 DEF CommandOf, initTxBufferTlvSentinel
<1> QED
  BY <1>7, <1>8, <1>9 DEF initTxBufferTlvSentinel, initTxBufferTlvSend

-----------------------------------------------------------------------------
\* The invariant contains the type invariant.
LEMMA PartsMakeTypeOK == IInv => TypeOK
<1> SUFFICES ASSUME IInv PROVE TypeOK
  OBVIOUS
<1>1. "None" \in Commands /\ txSeqNo \in 0 .. SeqModulus - 1
  BY DEF Commands, IInv, NumbersOK
<1>2. icmpChecksum \in 0 .. SeqModulus - 1
  BY <1>1, SumIsWord DEF IInv, BufferOK
<1> QED
  BY <1>2 DEF IInv, TypeOK, NumbersOK, BufferOK, SuspensionOK, MachineOK, PostedOK,
              WorldOK

\* The next sequence number is one, and not the present one.
LEMMA NextSequenceNo ==
  ASSUME NEW n \in 0 .. SeqModulus - 1
  PROVE  /\ (n + 1) % SeqModulus \in 0 .. SeqModulus - 1
         /\ (n + 1) % SeqModulus # n
<1>1. CASE n + 1 < SeqModulus
  BY <1>1, IcmpPacketAssumption
<1>2. CASE n + 1 = SeqModulus
  <2>1. (n + 1) % SeqModulus = 0
    BY <1>2, IcmpPacketAssumption
  <2> QED
    BY <1>2, <2>1, IcmpPacketAssumption
<1> QED
  BY <1>1, <1>2, IcmpPacketAssumption

\* Counters that all start again are counters, and hold no streak.
LEMMA ZeroCounts ==
  /\ Zero \in [ProbeEvents -> Nat]
  /\ Zero["Self"] = 0 /\ Zero["Peer"] = 0 /\ Zero["Unknown"] = 0
BY DEF Zero, ProbeEvents

\* A prober that has just started sending.
LEMMA InitKeeps == Init => IInv
<1> SUFFICES ASSUME Init PROVE IInv
  OBVIOUS
<1> USE LinkProberAssumption, IcmpPacketAssumption
<1>1. NumbersOK /\ SequenceMeansHeard
  <2>1. own \in 0 .. MaxOwn
    <3>1. own = 0 \/ own = 1
      BY DEF Init
    <3> QED
      BY <3>1
  <2>2. 0 \in 0 .. SeqModulus - 1 /\ SeqModulus - 1 \in 0 .. SeqModulus - 1
        /\ SeqModulus - 1 # 0
    OBVIOUS
  <2> QED
    BY <2>1, <2>2 DEF Init, NumbersOK, SequenceMeansHeard
<1>2. SuspensionOK
  <2>1. 0 \in 0 .. MaxDone
    OBVIOUS
  <2> QED
    BY <2>1 DEF Init, SuspensionOK
<1>3. MachineOK
  <2>1. state \in Labels /\ count = Zero /\ reports = 0
    BY DEF Init
  <2> QED
    BY <2>1, ZeroCounts DEF MachineOK, OneStreak
<1>4. PostedOK
  <2>1. 0 \in 0 .. MaxPosted
    OBVIOUS
  <2> QED
    BY <2>1 DEF Init, PostedOK, Zero
<1>5. WorldOK
  BY DEF Init, WorldOK
<1>6. BufferOK
  <2>1. 0 = ((SeqModulus - 1) + 1) % SeqModulus /\ SeqModulus - 1 \in 0 .. SeqModulus - 1
    OBVIOUS
  <2>2. "None" \in Commands
    BY DEF Commands
  <2>3. NextChecksum(calculateChecksum("None", SeqModulus - 1), 0)
          = calculateChecksum("None", 0)
    BY <2>1, <2>2, NextSum
  <2>4. NextChecksum(calculateChecksum("None", SeqModulus - 1), 0)
          = calculateChecksum("None", SeqModulus - 1)
    BY DEF NextChecksum
  <2> QED
    BY <2>3, <2>4 DEF Init, BufferOK
<1> QED
  BY <1>1, <1>2, <1>3, <1>4, <1>5, <1>6 DEF IInv

-----------------------------------------------------------------------------
(* A part holds on as long as nobody writes its variables. *)

LEMMA NumbersKept ==
  NumbersOK /\ SequenceMeansHeard /\ UNCHANGED <<sequence, own>>
    => NumbersOK' /\ SequenceMeansHeard'
BY DEF NumbersOK, SequenceMeansHeard, sequence

LEMMA BufferKept == BufferOK /\ UNCHANGED sequence => BufferOK'
BY DEF BufferOK, sequence, buffer

LEMMA SuspensionKept == SuspensionOK /\ UNCHANGED suspension => SuspensionOK'
BY DEF SuspensionOK, suspension

LEMMA MachineKept == MachineOK /\ UNCHANGED machine => MachineOK'
BY DEF MachineOK, OneStreak, machine

LEMMA PostedKept == PostedOK /\ UNCHANGED posted => PostedOK'
BY DEF PostedOK

LEMMA WorldKept == WorldOK /\ UNCHANGED <<shutdownTx, outside>> => WorldOK'
BY DEF WorldOK

\* Events that have room are posted without leaving their bounds.
LEMMA EventPosted ==
  ASSUME PostedOK, NEW e \in ProbeEvents, Waiting < MaxPosted,
         postLinkProberStateEvent(e)
  PROVE  PostedOK'
<1> USE LinkProberAssumption
<1>1. posted \in [ProbeEvents -> 0 .. MaxPosted]
  BY DEF PostedOK
<1>2. posted["Self"] \in Nat /\ posted["Peer"] \in Nat /\ posted["Unknown"] \in Nat
  BY <1>1 DEF ProbeEvents
<1>3. posted[e] < MaxPosted
  BY <1>2 DEF Waiting, ProbeEvents
<1>4. posted[e] + 1 \in 0 .. MaxPosted
  BY <1>1, <1>3
<1> QED
  BY <1>1, <1>4 DEF postLinkProberStateEvent, PostedOK

-----------------------------------------------------------------------------
(* The prober's strand: what a heartbeat sent or read does to the numbers. *)

\* Sending starts a new interval in which nothing was heard yet; what leaves is
\* intact if the buffer is.
LEMMA SendsKeeps ==
  ASSUME NumbersOK, BufferOK, NEW lists, NEW command \in Commands,
         NEW forceSend \in BOOLEAN,
         CommandOf(lists) = command, Requested(lists) = {command} \ {"None"},
         Sends(lists, calculateChecksum(command, txSeqNo), command, forceSend)
  PROVE  /\ NumbersOK' /\ SequenceMeansHeard'
         /\ garbled' = {}
         /\ txSeqNo' = (txSeqNo + 1) % SeqModulus
<1> USE LinkProberAssumption, IcmpPacketAssumption
<1>1. /\ rxSelfSeqNo' = txSeqNo
      /\ rxPeerSeqNo' = txSeqNo
      /\ txSeqNo' = (txSeqNo + 1) % SeqModulus
      /\ heard' = {}
  BY DEF Sends, updateIcmpSequenceNo
<1>2. txSeqNo \in 0 .. SeqModulus - 1
  BY DEF NumbersOK
<1>3. txSeqNo' \in 0 .. SeqModulus - 1 /\ txSeqNo' # txSeqNo
  BY <1>1, <1>2, NextSequenceNo
<1>4. SequenceMeansHeard'
  BY <1>1, <1>3 DEF SequenceMeansHeard
<1>5. own' \in 0 .. MaxOwn
  <2>1. own \in 0 .. MaxOwn
    BY DEF NumbersOK
  <2>2. own' = own \/ (own < MaxOwn /\ own' = own + 1)
    BY DEF Sends
  <2> QED
    BY <2>1, <2>2
<1>6. garbled' = {}
  <2>1. NextChecksum(calculateChecksum(command, txSeqNo), txSeqNo')
          = calculateChecksum(command, txSeqNo')
    BY <1>1, <1>2, NextSum
  <2>2. Verifies(command, txSeqNo', Complement(calculateChecksum(command, txSeqNo')))
    BY <1>3, SumVerifies
  <2>3. Faults(lists, calculateChecksum(command, txSeqNo), command) = {}
    BY <2>1, <2>2 DEF Faults
  <2>4. garbled = {}
    BY DEF BufferOK
  <2> QED
    BY <2>3, <2>4 DEF Sends
<1> QED
  BY <1>1, <1>2, <1>3, <1>4, <1>5, <1>6 DEF NumbersOK

\* A heartbeat without a command leaves the buffer ready for the next one.
LEMMA sendHeartbeatKeeps ==
  ASSUME NumbersOK, BufferOK, NEW forceSend \in BOOLEAN, sendHeartbeat(forceSend)
  PROVE  NumbersOK' /\ SequenceMeansHeard' /\ BufferOK'
<1>1. "None" \in Commands
  BY DEF Commands
<1>2. /\ tlvs = initTxBufferTlvSentinel
      /\ icmpChecksum = calculateChecksum("None", txSeqNo)
  BY DEF BufferOK
<1>3. Sends(tlvs, calculateChecksum("None", txSeqNo), "None", forceSend)
  BY <1>2 DEF sendHeartbeat
<1>4. CommandOf(tlvs) = "None" /\ Requested(tlvs) = {"None"} \ {"None"}
  BY <1>1, <1>2, RequestIsRead
<1>5. /\ NumbersOK' /\ SequenceMeansHeard' /\ garbled' = {}
      /\ txSeqNo' = (txSeqNo + 1) % SeqModulus
  BY <1>1, <1>3, <1>4, SendsKeeps
<1>6. txSeqNo \in 0 .. SeqModulus - 1
  BY DEF NumbersOK
<1>7. icmpChecksum' = calculateChecksum("None", txSeqNo')
  BY <1>1, <1>2, <1>5, <1>6, NextSum DEF sendHeartbeat
<1> QED
  BY <1>2, <1>5, <1>7 DEF BufferOK, sendHeartbeat

\* A switch command leaves the buffer as it was before, with the sum computed anew.
LEMMA handleSendSwitchCommandKeeps ==
  ASSUME IInv, handleSendSwitchCommand
  PROVE  IInv'
<1> USE DEF IInv
<1> DEFINE lists == initTxBufferTlvSend("SwitchActive")
<1>1. "SwitchActive" \in Commands /\ FALSE \in BOOLEAN
  BY DEF Commands
<1>2. Sends(lists, calculateChecksum("SwitchActive", txSeqNo), "SwitchActive", FALSE)
  BY DEF handleSendSwitchCommand
<1>3. /\ CommandOf(lists) = "SwitchActive"
      /\ Requested(lists) = {"SwitchActive"} \ {"None"}
  BY <1>1, RequestIsRead
<1> HIDE DEF lists
<1>4. NumbersOK' /\ SequenceMeansHeard' /\ garbled' = {}
  BY <1>1, <1>2, <1>3, SendsKeeps
<1>5. BufferOK'
  BY <1>4 DEF handleSendSwitchCommand, BufferOK
<1>6. UNCHANGED <<suspension, shutdownTx, machine, posted, outside>>
  BY DEF handleSendSwitchCommand
<1> QED
  BY <1>4, <1>5, <1>6, SuspensionKept, MachineKept, PostedKept, WorldKept

\* New addresses have the buffer written anew.
LEMMA handleUpdateEthernetFrameKeeps ==
  ASSUME IInv, handleUpdateEthernetFrame
  PROVE  IInv'
<1> USE DEF IInv
<1>1. BufferOK'
  BY DEF handleUpdateEthernetFrame, BufferOK
<1>2. NumbersOK' /\ SequenceMeansHeard'
  BY DEF handleUpdateEthernetFrame, NumbersOK, SequenceMeansHeard
<1>3. UNCHANGED <<suspension, shutdownTx, machine, posted, outside>>
  BY DEF handleUpdateEthernetFrame
<1> QED
  BY <1>1, <1>2, <1>3, SuspensionKept, MachineKept, PostedKept, WorldKept

\* The deadline: at most one event, and the next heartbeat.
LEMMA handleTimeoutKeeps ==
  ASSUME IInv, handleTimeout
  PROVE  IInv'
<1> USE DEF IInv
<1>1. NumbersOK' /\ SequenceMeansHeard' /\ BufferOK'
  BY sendHeartbeatKeeps DEF handleTimeout
<1>2. PostedOK'
  <2>1. CASE UNCHANGED posted
    BY <2>1, PostedKept
  <2>2. CASE postLinkProberStateEvent("Unknown")
    <3>1. "Unknown" \in ProbeEvents /\ Waiting < MaxPosted
      BY DEF handleTimeout, ProbeEvents
    <3> QED
      BY <2>2, <3>1, EventPosted
  <2> QED
    BY <2>1, <2>2 DEF handleTimeout, reportHeartbeatReplyNotReceived
<1> QED
  BY <1>1, <1>2, SuspensionKept, MachineKept, WorldKept DEF handleTimeout

\* The heartbeats that the link manager asks for between the cycles.
LEMMA detectLinkKeeps ==
  ASSUME IInv, detectLink
  PROVE  IInv'
<1> USE DEF IInv
<1>1. NumbersOK' /\ SequenceMeansHeard' /\ BufferOK'
  BY sendHeartbeatKeeps DEF detectLink
<1>2. UNCHANGED <<suspension, shutdownTx, machine, posted, outside>>
  BY DEF detectLink
<1> QED
  BY <1>1, <1>2, SuspensionKept, MachineKept, PostedKept, WorldKept

\* A heartbeat read: its sender is the one that was heard.
LEMMA handleIcmpPayloadKeeps ==
  ASSUME IInv, NEW sender \in Senders, handleIcmpPayload(sender)
  PROVE  IInv'
<1> USE DEF IInv
<1>1. PostedOK'
  <2>1. PICK e \in ProbeEvents : postLinkProberStateEvent(e)
    BY DEF handleIcmpPayload, ProbeEvents
  <2>2. Waiting < MaxPosted
    <3>1. /\ posted["Self"] \in Nat
          /\ posted["Peer"] \in Nat
          /\ posted["Unknown"] \in Nat
      BY DEF PostedOK, ProbeEvents
    <3> QED
      BY <3>1, LinkProberAssumption DEF handleIcmpPayload, Waiting
  <2> QED
    BY <2>1, <2>2, EventPosted
<1>2. NumbersOK' /\ SequenceMeansHeard'
  <2>1. CASE sender = "Self"
    <3>1. /\ own' = own - 1 /\ own > 0
          /\ rxSelfSeqNo' = txSeqNo
          /\ rxPeerSeqNo' = rxPeerSeqNo /\ txSeqNo' = txSeqNo
          /\ heard' = heard \cup {"Self"}
      BY <2>1 DEF handleIcmpPayload
    <3>2. own' \in 0 .. MaxOwn
      BY <3>1, LinkProberAssumption DEF NumbersOK
    <3>3. heard' \subseteq Senders
      BY <3>1 DEF NumbersOK, Senders
    <3>4. SequenceMeansHeard'
      BY <3>1 DEF SequenceMeansHeard
    <3> QED
      BY <3>1, <3>2, <3>3, <3>4 DEF NumbersOK
  <2>2. CASE sender = "Peer"
    <3>1. /\ own' = own
          /\ rxPeerSeqNo' = txSeqNo
          /\ rxSelfSeqNo' = rxSelfSeqNo /\ txSeqNo' = txSeqNo
          /\ heard' = heard \cup {"Peer"}
      BY <2>2 DEF handleIcmpPayload
    <3>2. heard' \subseteq Senders
      BY <3>1 DEF NumbersOK, Senders
    <3>3. SequenceMeansHeard'
      BY <3>1 DEF SequenceMeansHeard
    <3> QED
      BY <3>1, <3>2, <3>3 DEF NumbersOK
  <2> QED
    BY <2>1, <2>2 DEF Senders
<1>3. BufferOK'
  BY DEF handleIcmpPayload, BufferOK, buffer
<1> QED
  BY <1>1, <1>2, <1>3, SuspensionKept, MachineKept, WorldKept DEF handleIcmpPayload

\* A heartbeat lost is one less to wait for.
LEMMA LoseKeeps ==
  ASSUME IInv, Lose
  PROVE  IInv'
<1> USE DEF IInv
<1>1. own' \in 0 .. MaxOwn
  BY LinkProberAssumption DEF Lose, NumbersOK
<1>2. NumbersOK' /\ SequenceMeansHeard'
  BY <1>1 DEF Lose, NumbersOK, SequenceMeansHeard, sequence
<1> QED
  BY <1>2, BufferKept, SuspensionKept, MachineKept, PostedKept, WorldKept DEF Lose

-----------------------------------------------------------------------------
(* The suspend timer. *)

\* One more completion, where there is room for it.
LEMMA DoneKept ==
  ASSUME SuspensionOK, NEW c \in Outcomes, suspendDone[c] < MaxDone, Done(c)
  PROVE  suspendDone' \in [Outcomes -> 0 .. MaxDone]
<1> USE LinkProberAssumption
<1>1. suspendDone \in [Outcomes -> 0 .. MaxDone]
  BY DEF SuspensionOK
<1>2. suspendDone[c] + 1 \in 0 .. MaxDone
  BY <1>1
<1> QED
  BY <1>1, <1>2 DEF Done

\* The wait outstanding completes as aborted.
LEMMA AbortKept ==
  ASSUME SuspensionOK, Abort
  PROVE  suspendDone' \in [Outcomes -> 0 .. MaxDone]
<1>1. CASE UNCHANGED suspendDone
  BY <1>1 DEF SuspensionOK
<1>2. CASE suspendDone["Aborted"] < MaxDone /\ Done("Aborted")
  <2>1. "Aborted" \in Outcomes
    BY DEF Outcomes
  <2> QED
    BY <1>2, <2>1, DoneKept
<1> QED
  BY <1>1, <1>2 DEF Abort

\* What is done to the timer, and what its completions do.
LEMMA SuspensionStepKeeps ==
  ASSUME IInv,
         \/ suspendTxProbes \/ resumeTxProbes \/ SuspendTimerExpires
         \/ \E c \in Outcomes : handleSuspendTimeout(c)
  PROVE  IInv'
<1> USE DEF IInv
<1>1. CASE suspendTxProbes
  <2>1. SuspensionOK'
    BY <1>1, AbortKept DEF suspendTxProbes, SuspensionOK
  <2> QED
    BY <1>1, <2>1, NumbersKept, BufferKept, MachineKept, PostedKept, WorldKept
    DEF suspendTxProbes
<1>2. CASE resumeTxProbes
  <2>1. SuspensionOK'
    BY <1>2, AbortKept DEF resumeTxProbes, SuspensionOK
  <2> QED
    BY <1>2, <2>1, NumbersKept, BufferKept, MachineKept, PostedKept, WorldKept
    DEF resumeTxProbes
<1>3. CASE SuspendTimerExpires
  <2>1. "Expired" \in Outcomes
    BY DEF Outcomes
  <2>2. SuspensionOK'
    BY <1>3, <2>1, DoneKept DEF SuspendTimerExpires, SuspensionOK
  <2> QED
    BY <1>3, <2>2, NumbersKept, BufferKept, MachineKept, PostedKept, WorldKept
    DEF SuspendTimerExpires
<1>4. CASE \E c \in Outcomes : handleSuspendTimeout(c)
  <2>1. PICK c \in Outcomes : handleSuspendTimeout(c)
    BY <1>4
  <2>2. suspendDone[c] - 1 \in 0 .. MaxDone
    BY <2>1, LinkProberAssumption DEF handleSuspendTimeout, SuspensionOK
  <2>3. SuspensionOK'
    BY <2>1, <2>2 DEF handleSuspendTimeout, SuspensionOK
  <2> QED
    BY <2>1, <2>3, NumbersKept, BufferKept, MachineKept, PostedKept, WorldKept
    DEF handleSuspendTimeout
<1> QED
  BY <1>1, <1>2, <1>3, <1>4

\* Shutting down, restarting, and the world's own steps.
LEMMA WorldStepKeeps ==
  ASSUME IInv, shutdownTxProbes \/ restartTxProbes \/ Stop \/ Cut
  PROVE  IInv'
<1> USE DEF IInv
<1>1. UNCHANGED <<sequence, own, suspension, machine, posted>>
  BY DEF shutdownTxProbes, restartTxProbes, Stop, Cut
<1>2. WorldOK'
  BY DEF shutdownTxProbes, restartTxProbes, Stop, Cut, WorldOK
<1> QED
  BY <1>1, <1>2, NumbersKept, BufferKept, SuspensionKept, MachineKept, PostedKept

-----------------------------------------------------------------------------
(* The state machine: counters as one streak. *)

\* No counter is positive: no streak.
LEMMA NoStreakOfZero == StreakOf(Zero) = Verdict!NoStreak
BY ZeroCounts DEF StreakOf, Verdict!NoStreak

\* One counter alone is positive: that streak.
LEMMA StreakOfOne ==
  ASSUME NEW c, NEW e \in ProbeEvents, c[e] \in Nat, c[e] > 0,
         \A k \in ProbeEvents \ {e} : c[k] = 0
  PROVE  StreakOf(c) = [event |-> e, length |-> c[e]]
<1>1. CASE e = "Self"
  BY <1>1 DEF StreakOf, ProbeEvents
<1>2. CASE e = "Peer"
  <2>1. c["Self"] = 0
    BY <1>2 DEF ProbeEvents
  <2> QED
    BY <1>2, <2>1 DEF StreakOf
<1>3. CASE e = "Unknown"
  <2>1. c["Self"] = 0 /\ c["Peer"] = 0
    BY <1>3 DEF ProbeEvents
  <2> QED
    BY <1>3, <2>1 DEF StreakOf
<1> QED
  BY <1>1, <1>2, <1>3 DEF ProbeEvents

\* One more event makes the counter and the streak equally long.
LEMMA CountIsLength ==
  ASSUME MachineOK, NEW e \in ProbeEvents
  PROVE  Verdict!Longer(e) = count[e] + 1
<1>1. count \in [ProbeEvents -> Nat] /\ OneStreak
  BY DEF MachineOK
<1>2. CASE count[e] > 0
  <2>1. \A k \in ProbeEvents \ {e} : count[k] = 0
    BY <1>1, <1>2 DEF OneStreak, ProbeEvents
  <2>2. StreakOf(count) = [event |-> e, length |-> count[e]]
    BY <1>1, <1>2, <2>1, StreakOfOne
  <2> QED
    BY <2>2 DEF Verdict!Longer
<1>3. CASE count[e] = 0
  <2>1. StreakOf(count).event # e
    BY <1>1, <1>3 DEF StreakOf, ProbeEvents
  <2> QED
    BY <1>3, <2>1 DEF Verdict!Longer
<1> QED
  BY <1>1, <1>2, <1>3

\* An event that confirms the state ends the streak.
LEMMA ConfirmKeeps ==
  ASSUME MachineOK, NEW e \in ProbeEvents, e = Verdict!Expected[state], Stay(Zero)
  PROVE  MachineOK' /\ Verdict!Confirm(e)
<1> USE DEF Stay
<1>1. MachineOK'
  BY ZeroCounts, LinkProberAssumption DEF MachineOK, OneStreak
<1> QED
  BY <1>1, NoStreakOfZero DEF Verdict!Confirm

\* Entering a state starts its counters again.
LEMMA MoveKeeps ==
  ASSUME MachineOK, NEW l \in Labels, Move(l), reports' \in {0, 1}
  PROVE  MachineOK' /\ StreakOf(count') = Verdict!NoStreak
BY ZeroCounts, NoStreakOfZero, LinkProberAssumption
DEF Move, MachineOK, OneStreak

\* An event that speaks against the state counts, and only it, provided that
\* the counters it does not reset hold nothing.
LEMMA EstablishesKeeps ==
  ASSUME MachineOK, NEW e \in ProbeEvents, NEW others \in SUBSET ProbeEvents,
         e \notin others,
         \A k \in ProbeEvents \ (others \cup {e}) : count[k] = 0,
         e # Verdict!Expected[state],
         Establishes(e, others, Verdict!SpeaksFor[e])
  PROVE  MachineOK' /\ (Verdict!Doubt(e) \/ Verdict!Decide(e))
<1> DEFINE c == Counted(e, others)
<1>1. count \in [ProbeEvents -> Nat]
  BY DEF MachineOK
<1>2. c \in [ProbeEvents -> Nat] /\ c[e] = count[e] + 1
      /\ \A k \in ProbeEvents \ {e} : c[k] = 0
  BY <1>1 DEF Counted
<1>3. Verdict!Longer(e) = c[e]
  BY <1>2, CountIsLength
<1>4. Verdict!Needed[e] = IF e = "Unknown" THEN NegativeRetry ELSE PositiveRetry
  BY DEF Verdict!Needed, ProbeEvents
<1>5. CASE c[e] >= Verdict!Needed[e]
  <2>1. Report(Verdict!SpeaksFor[e])
    BY <1>4, <1>5 DEF Establishes
  <2>2. Verdict!SpeaksFor[e] \in Labels
    BY DEF Verdict!SpeaksFor, Labels, ProbeEvents
  <2>3. Move(Verdict!SpeaksFor[e]) /\ reports' = 1 - reports
    BY <2>1 DEF Report
  <2>4. reports' \in {0, 1}
    BY <2>3 DEF MachineOK
  <2>5. MachineOK' /\ StreakOf(count') = Verdict!NoStreak
    BY <2>2, <2>3, <2>4, MoveKeeps
  <2>6. Verdict!Decide(e)
    BY <1>3, <1>5, <2>3, <2>5 DEF Verdict!Decide, Move
  <2> QED
    BY <2>5, <2>6
<1>6. CASE ~(c[e] >= Verdict!Needed[e])
  <2>1. count' = c /\ UNCHANGED <<state, reports>>
    BY <1>4, <1>6 DEF Establishes, Stay
  <2>2. c[e] < Verdict!Needed[e]
    BY <1>2, <1>4, <1>6, LinkProberAssumption
  <2>3. StreakOf(c) = [event |-> e, length |-> c[e]]
    BY <1>1, <1>2, StreakOfOne
  <2>4. Verdict!Doubt(e)
    BY <1>3, <2>1, <2>2, <2>3 DEF Verdict!Doubt
  <2>5. OneStreak'
    BY <1>2, <2>1 DEF OneStreak, ProbeEvents, Verdict!Expected
  <2>6. /\ c["Self"] < PositiveRetry /\ c["Peer"] < PositiveRetry
        /\ c["Unknown"] < NegativeRetry
    BY <1>2, <1>4, <2>2, LinkProberAssumption DEF ProbeEvents
  <2>7. MachineOK'
    BY <1>2, <2>1, <2>5, <2>6 DEF MachineOK
  <2> QED
    BY <2>4, <2>7
<1> QED
  BY <1>5, <1>6

-----------------------------------------------------------------------------
(* The four states, entry by entry. *)

\* Counters that confirm the state, or that the entry resets, hold nothing.
LEMMA HandlerKeeps ==
  ASSUME MachineOK, NEW e \in ProbeEvents,
         ActiveState(e) \/ StandbyState(e) \/ UnknownState(e) \/ WaitState(e)
  PROVE  MachineOK' /\ (Verdict!Confirm(e) \/ Verdict!Doubt(e) \/ Verdict!Decide(e))
<1>1. /\ Verdict!Expected["Active"] = "Self"
      /\ Verdict!Expected["Standby"] = "Peer"
      /\ Verdict!Expected["Unknown"] = "Unknown"
      /\ Verdict!Expected["Wait"] = "Unknown"
      /\ Verdict!SpeaksFor["Self"] = "Active"
      /\ Verdict!SpeaksFor["Peer"] = "Standby"
      /\ Verdict!SpeaksFor["Unknown"] = "Unknown"
  BY DEF Verdict!Expected, Verdict!SpeaksFor
<1>2. OneStreak
  BY DEF MachineOK
<1>3. CASE ActiveState(e)
  <2>1. CASE e = "Self"
    <3>1. Stay(Zero) /\ e = Verdict!Expected[state]
      BY <1>1, <1>3, <2>1 DEF ActiveState
    <3> QED
      BY <3>1, ConfirmKeeps
  <2>2. CASE e = "Peer"
    <3>1. /\ Establishes(e, {"Unknown"}, Verdict!SpeaksFor[e])
          /\ e # Verdict!Expected[state]
      BY <1>1, <1>3, <2>2 DEF ActiveState
    <3>2. \A k \in ProbeEvents \ ({"Unknown"} \cup {e}) : count[k] = 0
      BY <1>2, <1>3, <2>2 DEF ActiveState, OneStreak, ProbeEvents
    <3>3. {"Unknown"} \in SUBSET ProbeEvents /\ e \notin {"Unknown"}
      BY <2>2 DEF ProbeEvents
    <3> QED
      BY <3>1, <3>2, <3>3, EstablishesKeeps
  <2>3. CASE e = "Unknown"
    <3>1. /\ Establishes(e, {"Peer"}, Verdict!SpeaksFor[e])
          /\ e # Verdict!Expected[state]
      BY <1>1, <1>3, <2>3 DEF ActiveState
    <3>2. \A k \in ProbeEvents \ ({"Peer"} \cup {e}) : count[k] = 0
      BY <1>2, <1>3, <2>3 DEF ActiveState, OneStreak, ProbeEvents
    <3>3. {"Peer"} \in SUBSET ProbeEvents /\ e \notin {"Peer"}
      BY <2>3 DEF ProbeEvents
    <3> QED
      BY <3>1, <3>2, <3>3, EstablishesKeeps
  <2> QED
    BY <2>1, <2>2, <2>3 DEF ProbeEvents
<1>4. CASE StandbyState(e)
  <2>1. CASE e = "Peer"
    <3>1. Stay(Zero) /\ e = Verdict!Expected[state]
      BY <1>1, <1>4, <2>1 DEF StandbyState
    <3> QED
      BY <3>1, ConfirmKeeps
  <2>2. CASE e = "Self"
    <3>1. /\ Establishes(e, {"Unknown"}, Verdict!SpeaksFor[e])
          /\ e # Verdict!Expected[state]
      BY <1>1, <1>4, <2>2 DEF StandbyState
    <3>2. \A k \in ProbeEvents \ ({"Unknown"} \cup {e}) : count[k] = 0
      BY <1>2, <1>4, <2>2 DEF StandbyState, OneStreak, ProbeEvents
    <3>3. {"Unknown"} \in SUBSET ProbeEvents /\ e \notin {"Unknown"}
      BY <2>2 DEF ProbeEvents
    <3> QED
      BY <3>1, <3>2, <3>3, EstablishesKeeps
  <2>3. CASE e = "Unknown"
    <3>1. /\ Establishes(e, {"Self"}, Verdict!SpeaksFor[e])
          /\ e # Verdict!Expected[state]
      BY <1>1, <1>4, <2>3 DEF StandbyState
    <3>2. \A k \in ProbeEvents \ ({"Self"} \cup {e}) : count[k] = 0
      BY <1>2, <1>4, <2>3 DEF StandbyState, OneStreak, ProbeEvents
    <3>3. {"Self"} \in SUBSET ProbeEvents /\ e \notin {"Self"}
      BY <2>3 DEF ProbeEvents
    <3> QED
      BY <3>1, <3>2, <3>3, EstablishesKeeps
  <2> QED
    BY <2>1, <2>2, <2>3 DEF ProbeEvents
<1>5. CASE UnknownState(e) \/ WaitState(e)
  <2>1. state \in {"Unknown", "Wait"} /\ count["Unknown"] = 0
    BY <1>2, <1>5 DEF UnknownState, WaitState, OneStreak
  <2>2. CASE e = "Unknown"
    <3>1. Stay(Zero) /\ e = Verdict!Expected[state]
      BY <1>1, <1>5, <2>2 DEF UnknownState, WaitState
    <3> QED
      BY <3>1, ConfirmKeeps
  <2>3. CASE e = "Self"
    <3>1. PICK others \in {{"Peer"}, {"Peer", "Unknown"}} :
            Establishes(e, others, Verdict!SpeaksFor[e])
      BY <1>1, <1>5, <2>3 DEF UnknownState, WaitState
    <3>2. \A k \in ProbeEvents \ (others \cup {e}) : count[k] = 0
      BY <2>1, <2>3, <3>1 DEF ProbeEvents
    <3>3. others \in SUBSET ProbeEvents /\ e \notin others
          /\ e # Verdict!Expected[state]
      BY <1>1, <2>1, <2>3, <3>1 DEF ProbeEvents
    <3> QED
      BY <3>1, <3>2, <3>3, EstablishesKeeps
  <2>4. CASE e = "Peer"
    <3>1. PICK others \in {{"Self"}, {"Self", "Unknown"}} :
            Establishes(e, others, Verdict!SpeaksFor[e])
      BY <1>1, <1>5, <2>4 DEF UnknownState, WaitState
    <3>2. \A k \in ProbeEvents \ (others \cup {e}) : count[k] = 0
      BY <2>1, <2>4, <3>1 DEF ProbeEvents
    <3>3. others \in SUBSET ProbeEvents /\ e \notin others
          /\ e # Verdict!Expected[state]
      BY <1>1, <2>1, <2>4, <3>1 DEF ProbeEvents
    <3> QED
      BY <3>1, <3>2, <3>3, EstablishesKeeps
  <2> QED
    BY <2>2, <2>3, <2>4 DEF ProbeEvents
<1> QED
  BY <1>3, <1>4, <1>5

\* An event taken off the strand of the port.
LEMMA processEventKeeps ==
  ASSUME IInv, NEW e \in ProbeEvents, processEvent(e)
  PROVE  IInv' /\ Verdict!Next
<1> USE DEF IInv
<1>1. MachineOK' /\ (Verdict!Confirm(e) \/ Verdict!Doubt(e) \/ Verdict!Decide(e))
  BY HandlerKeeps DEF processEvent
<1>2. PostedOK'
  <2>1. posted[e] - 1 \in 0 .. MaxPosted
    BY LinkProberAssumption DEF processEvent, PostedOK
  <2> QED
    BY <2>1 DEF processEvent, PostedOK
<1>3. Verdict!Next
  BY <1>1 DEF Verdict!Next, Verdict!ProbeEvents, ProbeEvents
<1> QED
  BY <1>1, <1>2, <1>3, NumbersKept, BufferKept, SuspensionKept, WorldKept DEF processEvent

\* The link manager forces another state.
LEMMA enterStateKeeps ==
  ASSUME IInv, NEW l \in Labels, enterState(l)
  PROVE  IInv' /\ Verdict!Next
<1> USE DEF IInv
<1>1. Move(l) /\ reports' = reports /\ l # state
  BY DEF enterState
<1>2. MachineOK' /\ StreakOf(count') = Verdict!NoStreak
  <2>1. reports' \in {0, 1}
    BY <1>1 DEF MachineOK
  <2> QED
    BY <1>1, <2>1, MoveKeeps
<1>3. Verdict!Force(l)
  BY <1>1, <1>2 DEF Verdict!Force, Move
<1>4. Verdict!Next
  BY <1>3 DEF Verdict!Next, Verdict!Verdicts, Labels
<1> QED
  BY <1>2, <1>4, NumbersKept, BufferKept, SuspensionKept, PostedKept, WorldKept DEF enterState

-----------------------------------------------------------------------------
(* The specification. *)

\* Every step keeps the invariant, and is a step of ProberVerdict or leaves
\* its variables alone.
LEMMA NextKeeps ==
  ASSUME IInv, [Next]_vars
  PROVE  IInv' /\ [Verdict!Next]_<<state, StreakOf(count), reports>>
<1>1. CASE \E e \in ProbeEvents : processEvent(e)
  BY <1>1, processEventKeeps
<1>2. CASE \E l \in Labels : enterState(l)
  BY <1>2, enterStateKeeps
<1>3. ASSUME UNCHANGED machine PROVE UNCHANGED <<state, StreakOf(count), reports>>
  BY <1>3 DEF machine
<1>4. CASE handleTimeout
  BY <1>3, <1>4, handleTimeoutKeeps DEF handleTimeout
<1>5. CASE handleSendSwitchCommand \/ detectLink \/ handleUpdateEthernetFrame
  BY <1>3, <1>5, handleSendSwitchCommandKeeps, detectLinkKeeps,
     handleUpdateEthernetFrameKeeps
  DEF handleSendSwitchCommand, detectLink, handleUpdateEthernetFrame
<1>6. CASE \E sender \in Senders : handleIcmpPayload(sender)
  BY <1>3, <1>6, handleIcmpPayloadKeeps DEF handleIcmpPayload
<1>7. CASE Lose
  BY <1>3, <1>7, LoseKeeps DEF Lose
<1>8. CASE \/ suspendTxProbes \/ resumeTxProbes \/ SuspendTimerExpires
           \/ \E c \in Outcomes : handleSuspendTimeout(c)
  BY <1>3, <1>8, SuspensionStepKeeps
  DEF suspendTxProbes, resumeTxProbes, SuspendTimerExpires, handleSuspendTimeout
<1>9. CASE shutdownTxProbes \/ restartTxProbes \/ Stop \/ Cut
  BY <1>3, <1>9, WorldStepKeeps DEF shutdownTxProbes, restartTxProbes, Stop, Cut
<1>10. CASE UNCHANGED vars
  <2>1. UNCHANGED <<sequence, own, suspension, shutdownTx, machine, posted, outside>>
    BY <1>10 DEF vars
  <2> QED
    BY <1>3, <2>1, NumbersKept, BufferKept, SuspensionKept, MachineKept, PostedKept, WorldKept
    DEF IInv
<1> QED
  BY <1>1, <1>2, <1>4, <1>5, <1>6, <1>7, <1>8, <1>9, <1>10 DEF Next

\* The inductive invariant holds throughout.
LEMMA Invariance == Spec => []IInv
<1>1. IInv /\ [Next]_vars => IInv'
  BY NextKeeps
<1> QED
  BY InitKeeps, <1>1, PTL DEF Spec

\* For every width and every retry count, sequence numbers stay in range and
\* the counters of the state machine below the counts that end its states.
THEOREM ProberTypeCorrect == Spec => []TypeOK
BY Invariance, PartsMakeTypeOK, PTL

\* For every width of the sequence numbers: the test by which a deadline finds
\* an interval lost is true exactly when nothing was heard in it.
THEOREM MatchMeansHeard == Spec => []SequenceMeansHeard
<1>1. IInv => SequenceMeansHeard
  BY DEF IInv
<1> QED
  BY Invariance, <1>1, PTL

\* For every width of a word, every content and every order of events: the
\* checksum that is kept up to date is the right one of every heartbeat that
\* leaves, and the peer is asked to switch by the switch commands alone.
THEOREM HeartbeatsLeaveIntact == Spec => []HeartbeatsIntact
<1>1. IInv => HeartbeatsIntact
  BY DEF IInv, BufferOK, HeartbeatsIntact
<1> QED
  BY Invariance, <1>1, PTL

\* For all retry counts: the state machine, with its four tables of counters
\* and resets, implements the promise of ProberVerdict.
THEOREM ImplementsVerdict == Spec => KeepsVerdict
<1>1. Init => Verdict!Init
  BY NoStreakOfZero DEF Init, Verdict!Init, Labels, Verdict!Verdicts
<1>2. IInv /\ [Next]_vars => [Verdict!Next]_<<state, StreakOf(count), reports>>
  BY NextKeeps
<1> QED
  BY Invariance, <1>1, <1>2, PTL DEF Spec, KeepsVerdict, Verdict!Spec

=============================================================================
