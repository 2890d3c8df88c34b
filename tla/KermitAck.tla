----------------------------- MODULE KermitAck -----------------------------
(***************************************************************************)
(* The reading of replies in ukermit (src/src/ukermit.c), byte by byte:    *)
(* s1_getpacket hands kermit_ack_type up to six bytes from a stream of     *)
(* replies, wherever the previous read left off. The stream may miss a     *)
(* byte or have a bit flipped.                                             *)
(*                                                                         *)
(* Every byte on the line carries the token it came from, so that the      *)
(* verdict on the bytes can be compared with what AckType says about the   *)
(* tokens: that is the abstraction module Kermit is built on.              *)
(***************************************************************************)
EXTENDS KermitBytes, Sequences, KermitReply

CONSTANTS
  SeqNums,     \* the sequence numbers tried
  Scripts      \* the replies on the line: sequences of [kind, lag]

Kinds == {"ACK", "NAK", "other"}

ASSUME KermitAckAssumption ==
  /\ SeqNums \subseteq 0 .. 127
  /\ Scripts \subseteq Seq([kind : Kinds, lag : {0, 1}])

VARIABLES
  seq_num,     \* the number kermit_ack_type expects
  line,        \* what is still to be read: a sequence of [byte, token]
  hit,         \* what happened to the line
  k_ack,       \* what the last read returned
  verdict      \* what kermit_ack_type made of it

ackVars == <<seq_num, line, hit, k_ack, verdict>>

-----------------------------------------------------------------------------
(* The reply as the target puts it on the line (external): the layout of   *)
(* struct kermit_ack_nack_type, with a checksum kermit_ack_type accepts.   *)
TypeChar(k) == CASE k = "ACK" -> ACK_TYPE [] k = "NAK" -> NACK_TYPE [] OTHER -> 69

ByteOf(token) ==
  LET len == tochar(3)
      num == tochar(token.seq)
      typ == TypeChar(token.kind)
  IN  <<START_CHAR, len, num, typ, Checksum(len + num + typ), END_CHAR>>[token.at]

\* One number back, with the roll-over at 0x7F.
Number(lag) == (seq_num - lag) % 128

OnLine(script) ==
  [i \in 1 .. ReplyLen * Len(script) |->
     LET r == script[((i - 1) \div ReplyLen) + 1]
         t == Reply(r.kind, Number(r.lag))[((i - 1) % ReplyLen) + 1]
     IN  [byte |-> ByteOf(t), token |-> t]]

-----------------------------------------------------------------------------
AckInit ==
  /\ seq_num \in SeqNums
  /\ \E script \in Scripts : line = OnLine(script)
  /\ hit = "none"
  /\ k_ack = <<>>
  /\ verdict = "none"

\* The line loses a byte, or damages one, before it is read.
DropByte ==
  /\ hit = "none" /\ verdict = "none"
  /\ \E i \in 1 .. Len(line) : line' = SubSeq(line, 1, i - 1) \o SubSeq(line, i + 1, Len(line))
  /\ hit' = "drop"
  /\ UNCHANGED <<seq_num, k_ack, verdict>>

DamageByte ==
  /\ hit = "none" /\ verdict = "none"
  /\ \E i \in 1 .. Len(line), k \in 0 .. 7 :
       line' = [line EXCEPT ![i] = [byte |-> Flip(line[i].byte, k), token |-> Garbage]]
  /\ hit' = "flip"
  /\ UNCHANGED <<seq_num, k_ack, verdict>>

(* s1_getpacket clears the structure and s_read fills what arrived of it;  *)
(* kermit_ack_type judges the six bytes.                                   *)
Field(read, i) == IF i <= Len(read) THEN read[i].byte ELSE 0

\* Mutant of kermit_ack_type: the length is left out of the sum.
kermit_ack_type_NoLength(read) ==
  LET sequence_number == Field(read, 3)
      packet_type == Field(read, 4)
      sum == sequence_number + packet_type
  IN  IF Field(read, 5) # Checksum(tochar(3) + sum) THEN "CHK_ERROR"
      ELSE IF untochar(sequence_number) # seq_num THEN "SEQ_ERROR"
      ELSE IF packet_type = NACK_TYPE THEN "NACK"
      ELSE IF packet_type = ACK_TYPE THEN "ACK"
      ELSE "unexpected"

\* Mutant of kermit_ack_type: the checksum is not tested.
kermit_ack_type_Unchecked(read) ==
  IF untochar(Field(read, 3)) # seq_num THEN "SEQ_ERROR"
  ELSE IF Field(read, 4) = NACK_TYPE THEN "NACK"
  ELSE IF Field(read, 4) = ACK_TYPE THEN "ACK"
  ELSE "unexpected"

kermit_ack_type(read) ==
  LET length_norm == Field(read, 2)
      sequence_number == Field(read, 3)
      packet_type == Field(read, 4)
      sum == length_norm + sequence_number + packet_type
  IN  IF Field(read, 5) # Checksum(sum) THEN "CHK_ERROR"
      ELSE IF untochar(sequence_number) # seq_num THEN "SEQ_ERROR"
      ELSE IF packet_type = NACK_TYPE THEN "NACK"
      ELSE IF packet_type = ACK_TYPE THEN "ACK"
      ELSE "unexpected"

GetPacket ==
  \E n \in 0 .. ReplyLen :
    /\ n <= Len(line)
    /\ k_ack' = SubSeq(line, 1, n)
    /\ line' = SubSeq(line, n + 1, Len(line))
    /\ verdict' = kermit_ack_type(k_ack')
    /\ UNCHANGED <<seq_num, hit>>

AckNext == DropByte \/ DamageByte \/ GetPacket

AckSpec == AckInit /\ [][AckNext]_ackVars

-----------------------------------------------------------------------------
Tokens == [i \in 1 .. Len(k_ack) |-> k_ack[i].token]

\* What k_send_data does with a verdict: CHK_ERROR, SEQ_ERROR and NACK all
\* count a failed try.
Consequence(v) == IF v \in {"CHK_ERROR", "SEQ_ERROR", "NACK"} THEN "retry" ELSE v

(* As long as no byte is damaged, the bytes are judged like the replies    *)
(* they come from: a read that is short, starts in the middle of a reply,  *)
(* or spans two replies or a gap never passes for an ACK or for the packet *)
(* of an unexpected type that ends the transfer without a retry            *)
(* (ukermit.c:520-556, 619-633).                                           *)
JudgedByOrigin ==
  verdict # "none" /\ hit # "flip" =>
    Consequence(verdict) = Consequence(AckType(Tokens, seq_num))

(* Not even a damaged byte in a read that starts anywhere makes an ACK of  *)
(* the current packet out of something else (ukermit.c:528-551).           *)
NoFalseAck == verdict = "ACK" => AckType(Tokens, seq_num) = "ACK"
=============================================================================
