----------------------------- MODULE IcmpPacket -----------------------------
(***************************************************************************)
(* The bytes of a heartbeat: its checksum and the TLVs behind its payload. *)
(* src/src/link_prober/LinkProberBase.cpp and IcmpPayload.h.               *)
(*                                                                         *)
(* The buffer is sent again and again.  Only the sequence number changes   *)
(* from one heartbeat to the next, and the sum of all words, from which    *)
(* the checksum is made, is kept up to date instead of being computed; a   *)
(* command adds a TLV for one heartbeat and has the sum computed.          *)
(*                                                                         *)
(* The code adds words in 32 bits and folds the carries in at the end.     *)
(* Here every carry is folded in at once, which is the same unless the 32  *)
(* bits overflow, after 2^32 heartbeats without a command.                 *)
(***************************************************************************)
EXTENDS Naturals, Sequences

CONSTANTS
  SeqModulus,  \* a word of the packet wraps here, at 2^16 in the code
  Content      \* the sum of all words but the sequence number and the checksum, of a
               \* packet with no command or with one; it is never 0

Commands == {"None", "SwitchActive", "MuxProbe"}

ASSUME IcmpPacketAssumption ==
  /\ SeqModulus \in Nat \ {0, 1}
  /\ Content \in [Commands -> 1 .. SeqModulus - 1]

-----------------------------------------------------------------------------
(* The checksum                                                             *)

\* Adding words: the carry comes in at the other end.
Plus(a, b) == IF a + b < SeqModulus THEN a + b ELSE a + b - (SeqModulus - 1)

calculateChecksum(command, seqNo) == Plus(Content[command], seqNo)

\* The sum when the sequence number has become seqNo: wrapping from all ones to 0
\* changes nothing.
NextChecksum(sum, seqNo) == IF seqNo = 0 THEN sum ELSE Plus(sum, 1)

\* addChecksumCarryover writes the complement.
Complement(sum) == SeqModulus - 1 - sum

\* Whoever receives the packet adds all its words: all ones if it is intact.
Verifies(command, seqNo, check) ==
  Plus(calculateChecksum(command, seqNo), check) = SeqModulus - 1

-----------------------------------------------------------------------------
(* The TLVs                                                                 *)

Tlv(type, command, length) == [type |-> type, command |-> command, length |-> length]
TlvCommand(command) == Tlv("TLV_COMMAND", command, 1)
TlvSentinel         == Tlv("TLV_SENTINEL", "None", 0)

\* initTxBufferTlvSendSwitch and initTxBufferTlvSendProbe, and initTxBufferTlvSentinel.
initTxBufferTlvSend(command) == <<TlvCommand(command), TlvSentinel>>
initTxBufferTlvSentinel      == <<TlvSentinel>>

\* The command a buffer with these TLVs carries.
CommandOf(tlvs) == IF tlvs = initTxBufferTlvSentinel THEN "None" ELSE tlvs[1].command

\* Nothing is read behind a sentinel; one unknown TLV of length 1 is as good.
Ends(tlv) ==
  \/ tlv.type = "TLV_SENTINEL"
  \/ tlv.type \notin {"TLV_SENTINEL", "TLV_COMMAND"} /\ tlv.length = 1

\* handleTlvRecv: the places of the commands that are obeyed, where tlvs are those that
\* arrived whole.  One's own commands, echoed by the server, are not.
Obeyed(tlvs, isSelfGuid) ==
  {i \in DOMAIN tlvs : /\ ~isSelfGuid
                       /\ tlvs[i].type = "TLV_COMMAND"
                       /\ tlvs[i].command # "None"
                       /\ \A j \in 1 .. i - 1 : ~Ends(tlvs[j])}

\* What a peer that reads the buffer is asked for.
Requested(tlvs) == {tlvs[i].command : i \in Obeyed(tlvs, FALSE)}
=============================================================================
