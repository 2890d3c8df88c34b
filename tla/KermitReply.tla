---------------------------- MODULE KermitReply ----------------------------
(***************************************************************************)
(* What ukermit (src/src/ukermit.c) makes of a read from the serial port,  *)
(* in terms of the replies the bytes come from. A byte on its way to the   *)
(* sender is the token [kind, seq, at]: the at-th byte of the reply of     *)
(* that kind and number. The module is shared by Kermit, which models the  *)
(* transfer with such tokens, and by KermitAck, which checks that          *)
(* kermit_ack_type judges the bytes as AckType judges the tokens.          *)
(***************************************************************************)
EXTENDS Naturals, Sequences

ReplyLen == 6     \* sizeof(struct kermit_ack_nack_type)

Reply(k, n) == [i \in 1 .. ReplyLen |-> [kind |-> k, seq |-> n, at |-> i]]

\* A stray or damaged byte.
Garbage == [kind |-> "noise", seq |-> 0, at |-> 0]

\* The checksum covers length, number and type; neither start nor eol is
\* looked at, so a read that misses only the last byte is as good as whole.
ChecksumOK(p) ==
  /\ Len(p) >= 5
  /\ p[2].at = 2
  /\ \A i \in 3 .. 5 : p[i].at = i /\ p[i].kind = p[3].kind /\ p[i].seq = p[3].seq

\* Mutant of AckType: the number of the reply is not compared.
AckTypeAnyNumber(p, seq_num) ==
  IF ~ChecksumOK(p) THEN "CHK_ERROR"
  ELSE IF p[4].kind = "NAK" THEN "NACK"
  ELSE IF p[4].kind = "ACK" THEN "ACK"
  ELSE "unexpected"

\* kermit_ack_type, in the order of its tests.
AckType(p, seq_num) ==
  IF ~ChecksumOK(p) THEN "CHK_ERROR"
  ELSE IF p[3].seq # seq_num THEN "SEQ_ERROR"
  ELSE IF p[4].kind = "NAK" THEN "NACK"
  ELSE IF p[4].kind = "ACK" THEN "ACK"
  ELSE "unexpected"
=============================================================================
