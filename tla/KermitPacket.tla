---------------------------- MODULE KermitPacket ----------------------------
(***************************************************************************)
(* One data packet of ukermit (k_send_data_packet_small in                 *)
(* src/src/ukermit.c) from the chunk of the file to the bytes on the wire, *)
(* and back: the receiver takes the packet apart by the length in its      *)
(* header, compares the checksum and undoes the escapes with ktrans, which *)
(* the source keeps in its debug build for that purpose.                   *)
(***************************************************************************)
EXTENDS KermitBytes, Sequences

CONSTANTS
  Bytes,       \* the bytes a file may hold
  Seqs,        \* the sequence numbers tried
  MAX_CHUNK    \* bytes of the file per packet (100 in the code)

\* 2 * MAX_CHUNK + 3 + SPACE is the largest length character.
ASSUME KermitPacketAssumption ==
  /\ Bytes \subseteq Char
  /\ Seqs \subseteq 0 .. 127
  /\ MAX_CHUNK \in 1 .. 110

VARIABLES
  pc,              \* "escape", "sent", "received"
  sequence,        \* the number of the packet
  buffer,          \* the bytes of the chunk escaped so far
  my_new_buffer,   \* what they became
  sum,             \* the running checksum, of signed chars
  wire,            \* the packet on its way
  fault,           \* what happened to it
  data,            \* what the receiver makes of the packet
  accepted         \* and whether it takes it for intact

vars == <<pc, sequence, buffer, my_new_buffer, sum, wire, fault, data, accepted>>

-----------------------------------------------------------------------------
(* Escaping and its inverse.                                               *)

\* Mutants of should_escape: the prefix itself, or 0x7F, is not escaped.
should_escape_NotPrefix(out) == out % 128 < SPACE \/ out % 128 = 127
should_escape_NotDel(out) == out % 128 < SPACE \/ out % 128 = K_ESCAPE

should_escape(out) ==
  LET a == out % 128 IN a < SPACE \/ a = 127 \/ a = K_ESCAPE

k_escape(out) == IF out % 128 # K_ESCAPE THEN escape_it(out) ELSE out

\* (in & 0x60) == 0x40, and (in & 0x7f) == 0x3f.
ktrans(in) ==
  IF (in \div 32) % 4 = 2 THEN in - 64
  ELSE IF in % 128 = 63 THEN in + 64
  ELSE in

-----------------------------------------------------------------------------
Init ==
  /\ pc = "escape"
  /\ sequence \in Seqs
  /\ buffer = <<>> /\ my_new_buffer = <<>> /\ sum = 0
  /\ wire = <<>> /\ fault = "none"
  /\ data = <<>> /\ accepted = FALSE

\* Mutant of EscapeByte: the else is missing.
EscapeByteAndCopy ==
  /\ pc = "escape"
  /\ Len(buffer) < MAX_CHUNK
  /\ \E b \in Bytes :
       /\ buffer' = Append(buffer, b)
       /\ my_new_buffer' =
            my_new_buffer \o (IF should_escape(b) THEN <<K_ESCAPE, k_escape(b), b>> ELSE <<b>>)
       /\ sum' = sum + (IF should_escape(b) THEN K_ESCAPE + Signed(k_escape(b)) ELSE 0) + Signed(b)
  /\ UNCHANGED <<pc, sequence, wire, fault, data, accepted>>

(* One iteration of the loop over the chunk.                               *)
EscapeByte ==
  /\ pc = "escape"
  /\ Len(buffer) < MAX_CHUNK
  /\ \E b \in Bytes :
       /\ buffer' = Append(buffer, b)
       /\ IF should_escape(b)
            THEN /\ my_new_buffer' = my_new_buffer \o <<K_ESCAPE, k_escape(b)>>
                 /\ sum' = sum + K_ESCAPE + Signed(k_escape(b))
            ELSE /\ my_new_buffer' = Append(my_new_buffer, b)
                 /\ sum' = sum + Signed(b)
  /\ UNCHANGED <<pc, sequence, wire, fault, data, accepted>>

(* The header, the escaped bytes, the check character and the end of line. *)
SendPacket ==
  /\ pc = "escape"
  /\ LET length_normal == tochar(Len(my_new_buffer) + 3)
         check == Checksum(sum + length_normal + tochar(sequence) + DATA_TYPE)
     IN  wire' = <<START_CHAR, length_normal, tochar(sequence), DATA_TYPE>>
                   \o my_new_buffer \o <<check, END_CHAR>>
  /\ pc' = "sent"
  /\ UNCHANGED <<sequence, buffer, my_new_buffer, sum, fault, data, accepted>>

\* The line damages one bit behind the length.
FlipBit ==
  /\ pc = "sent" /\ fault = "none"
  /\ \E i \in 3 .. Len(wire) - 1, k \in 0 .. 7 : wire' = [wire EXCEPT ![i] = Flip(@, k)]
  /\ fault' = "flip"
  /\ UNCHANGED <<pc, sequence, buffer, my_new_buffer, sum, data, accepted>>

(* The receiver (external). It adds up what the checksum covers, without a *)
(* sign, and undoes the escapes from left to right.                        *)
SumOf(bytes) ==
  LET s[i \in 0 .. Len(bytes)] == IF i = 0 THEN 0 ELSE s[i - 1] + bytes[i]
  IN  s[Len(bytes)]

\* The state of the decoding: the bytes so far and, behind a prefix, the prefix.
Undo(s, c) ==
  IF s.prefix = K_ESCAPE THEN [data |-> Append(s.data, ktrans(c)), prefix |-> 0]
  ELSE IF c = K_ESCAPE THEN [data |-> s.data, prefix |-> K_ESCAPE]
  ELSE [data |-> Append(s.data, c), prefix |-> 0]

Unescape(bytes) ==
  LET u[i \in 0 .. Len(bytes)] ==
        IF i = 0 THEN [data |-> <<>>, prefix |-> 0] ELSE Undo(u[i - 1], bytes[i])
  IN  u[Len(bytes)].data

ReceivePacket ==
  /\ pc = "sent"
  /\ LET n == untochar(wire[2]) - 3
         whole == n >= 0 /\ n + 5 <= Len(wire)
     IN  /\ accepted' = (whole /\ wire[n + 5] = Checksum(SumOf(SubSeq(wire, 2, n + 4))))
         /\ data' = IF whole THEN Unescape(SubSeq(wire, 5, n + 4)) ELSE <<>>
  /\ pc' = "received"
  /\ UNCHANGED <<sequence, buffer, my_new_buffer, sum, wire, fault>>

Next == EscapeByte \/ SendPacket \/ FlipBit \/ ReceivePacket

Spec == Init /\ [][Next]_vars

-----------------------------------------------------------------------------
(* An undamaged packet is accepted and yields the chunk it was made from:  *)
(* the sum over signed chars leads to the same check character as the one  *)
(* over unsigned chars, the length counts the escapes, and the escapes can *)
(* be undone (ukermit.c:253-357).                                          *)
RoundTrip ==
  pc = "received" /\ fault = "none" => accepted /\ data = buffer /\ untochar(wire[3]) = sequence

(* A packet with a bit flipped in its number, its type, its data or its    *)
(* check character is refused (ukermit.c:349-357).                         *)
DamageRefused == pc = "received" /\ fault = "flip" => ~accepted

(* What calloc reserves is enough, whatever needs an escape, and the       *)
(* length still fits into its character (ukermit.c:303, 345, 353-357).     *)
BufferSuffices ==
  /\ Len(my_new_buffer) + 2 <= 2 * Len(buffer) + 3
  /\ untochar(tochar(Len(my_new_buffer) + 3)) = Len(my_new_buffer) + 3

(* No control character of either half of the code page travels inside     *)
(* the packet's data, which is what the escapes are for                    *)
(* (ukermit.c:243-263).                                                    *)
NoControlInData ==
  \A i \in 1 .. Len(my_new_buffer) :
    my_new_buffer[i] % 128 >= SPACE /\ my_new_buffer[i] % 128 # 127
=============================================================================
