------------------------------- MODULE Kermit -------------------------------
(***************************************************************************)
(* ukermit (src/src/ukermit.c): download of a file to U-Boot's "loadb"     *)
(* over a serial port, by a stop-and-wait protocol without a timeout.      *)
(*                                                                         *)
(* Three parties take steps of their own:                                  *)
(*   - the sender: main, k_send_data, k_send_data_packet_small (as one     *)
(*     packet put on the line) and kermit_ack_type with s1_getpacket;      *)
(*   - the serial line: bytes of replies arrive late, damaged or never,    *)
(*     packets are lost or damaged, the adapter is unplugged;              *)
(*   - the target's kermit receiver, which is not in this repository: it   *)
(*     does what the sender's header comment relies on (ukermit.c:47-53).  *)
(*                                                                         *)
(* Packets towards the target are atomic; replies are streams of single    *)
(* bytes, because the sender's reads are not aligned to them: see module   *)
(* KermitReply. What a packet looks like on the wire is the subject of     *)
(* module KermitPacket.                                                    *)
(***************************************************************************)
EXTENDS Naturals, Integers, Sequences, KermitReply

CONSTANTS
  File,        \* the file's bytes
  MAX_CHUNK,   \* bytes per packet (100 in the code)
  RETRY_MAX,   \* tries per packet (4 in the code)
  SEQ_MAX,     \* the last sequence number before the roll-over (0x7F)
  MaxFaults    \* how often each kind of fault may strike

FaultKind ==
  {"noise",    \* a stray byte arrives ahead of the first reply
   "gap",      \* bytes of a reply are delayed beyond VTIME
   "corrupt",  \* a packet or a byte of a reply is damaged
   "drop",     \* a packet or a byte of a reply is lost
   "hangup",   \* the port disappears: reads return 0, writes fail
   "resize",   \* somebody truncates or extends the file
   "other",    \* the target answers with neither ACK nor NAK
   "system"}   \* a system call of the host fails

ASSUME KermitAssumption ==
  /\ File \in Seq(Nat)
  /\ MAX_CHUNK \in Nat \ {0}
  /\ RETRY_MAX \in Nat \ {0}
  /\ SEQ_MAX \in Nat \ {0}
  /\ MaxFaults \in [FaultKind -> Nat]

VARIABLES
  \* the sender
  pc,          \* where main and k_send_data stand
  ret,         \* what k_send_data returns
  exit,        \* what main reported
  file,        \* is the file open?
  fileLen,     \* the length of the file on the disk, now
  pos,         \* the read position in the file
  ori_size,    \* the size f_size announced, -1 before it did
  size,        \* of these, the bytes not yet acknowledged
  buffer,      \* the data of the current packet
  sequence,    \* its number
  retry,       \* how often it has failed
  \* the line
  down,        \* packets on their way to the target
  up,          \* bytes on their way to the sender
  hung,        \* the port is gone
  faults,      \* how often each kind of fault has struck
  \* the target
  target,      \* what the target has stored
  checkpoint,  \* length of target before the last new packet
  last_n,      \* number of the last packet accepted, -1 before the first
  done         \* the target has seen ETX_CHAR

fileVars == <<file, fileLen, pos>>
loopVars == <<ori_size, size, buffer, sequence, retry>>
senderVars == <<pc, ret, exit, fileVars, loopVars>>
lineVars == <<down, up, hung, faults>>
targetVars == <<target, checkpoint, last_n, done>>
vars == <<senderVars, lineVars, targetVars>>

-----------------------------------------------------------------------------
(* Packets, and the sender's bookkeeping.                                  *)

Data(n, bytes) == [type |-> "D", seq |-> n, data |-> bytes]
Etx == [type |-> "ETX", seq |-> 0, data |-> <<>>]

\* Mutant of NextSeq: the number is never rolled over.
NextSeqUnbounded(n) == n + 1

\* sequence++, rolled over to 0 beyond SEQ_MAX.
NextSeq(n) == IF n + 1 > SEQ_MAX THEN 0 ELSE n + 1

Lesser(a, b) == IF a < b THEN a ELSE b

Strikes(k) ==
  /\ faults[k] < MaxFaults[k]
  /\ faults' = [faults EXCEPT ![k] = @ + 1]

-----------------------------------------------------------------------------
Init ==
  /\ pc = "open" /\ ret = 0 /\ exit = "running"
  /\ file = FALSE /\ fileLen = Len(File) /\ pos = 0
  /\ ori_size = -1 /\ size = -1 /\ buffer = <<>> /\ sequence = 0 /\ retry = 0
  /\ down = <<>> /\ hung = FALSE
  /\ \E n \in 0 .. MaxFaults["noise"] :
       /\ up = [i \in 1 .. n |-> Garbage]
       /\ faults = [k \in FaultKind |-> IF k = "noise" THEN n ELSE 0]
  /\ target = <<>> /\ checkpoint = 0 /\ last_n = -1 /\ done = FALSE

(* main: s_open and s_configure, then s_flush, which discards what has     *)
(* arrived; what is still on the line stays.                               *)
OpenPort ==
  /\ pc = "open"
  /\ \E n \in 0 .. Len(up) : up' = SubSeq(up, n + 1, Len(up))
  /\ pc' = "size"
  /\ UNCHANGED <<ret, exit, fileVars, loopVars, down, hung, faults, targetVars>>

OpenPortFails ==
  /\ pc = "open"
  /\ Strikes("system")
  /\ pc' = "exited" /\ exit' = "failed"
  /\ UNCHANGED <<ret, fileVars, loopVars, down, up, hung, targetVars>>

(* k_send_data up to its loop: f_size, f_open.                             *)
StartFile ==
  /\ pc = "size"
  /\ ori_size' = fileLen /\ size' = fileLen
  /\ file' = TRUE /\ pos' = 0
  /\ pc' = "while"
  /\ UNCHANGED <<ret, exit, fileLen, buffer, sequence, retry, lineVars, targetVars>>

StartFileFails ==
  /\ pc = "size"
  /\ Strikes("system")
  /\ \/ UNCHANGED <<ori_size, size>>               \* f_size failed
     \/ ori_size' = fileLen /\ size' = fileLen     \* f_open failed
  /\ ret' = -1 /\ pc' = "close"
  /\ UNCHANGED <<exit, fileVars, buffer, sequence, retry, down, up, hung, targetVars>>

(* The head of the while loop and f_read. A short file yields fewer bytes  *)
(* than asked for, none at its end; fread reports errors the same way.     *)
ReadChunk ==
  /\ pc = "while"
  /\ size # 0
  /\ LET left == IF pos < fileLen THEN fileLen - pos ELSE 0
         n == Lesser(Lesser(size, MAX_CHUNK), left)
     IN  /\ buffer' = SubSeq(File, pos + 1, pos + n)
         /\ pos' = pos + n
  /\ retry' = 0
  /\ pc' = "send"
  /\ UNCHANGED <<ret, exit, file, fileLen, ori_size, size, sequence, lineVars, targetVars>>

(* One iteration of the retry loop, first half: the packet is written; the *)
(* result of s_write is ignored.                                           *)
SendPacket ==
  /\ pc = "send"
  /\ down' = IF hung THEN down ELSE Append(down, Data(sequence, buffer))
  /\ pc' = "ack"
  /\ UNCHANGED <<ret, exit, fileVars, loopVars, up, hung, faults, targetVars>>

\* calloc of the packet fails: k_send_data returns.
SendPacketFails ==
  /\ pc = "send"
  /\ Strikes("system")
  /\ ret' = -1 /\ pc' = "close"
  /\ UNCHANGED <<exit, fileVars, loopVars, down, up, hung, targetVars>>

(* s1_getpacket blocks for the first byte and then takes what it gets      *)
(* before the line is silent for VTIME, at most a whole reply: n bytes.    *)
(* Silence in front of bytes that are still to come is the fault "gap".    *)
Arrives(n) ==
  \/ /\ n = ReplyLen /\ n <= Len(up)
     /\ UNCHANGED faults
  \/ /\ n \in 1 .. ReplyLen - 1 /\ n = Len(up) /\ down = <<>>
     /\ UNCHANGED faults
  \/ /\ n \in 1 .. ReplyLen - 1 /\ n <= Len(up)
     /\ Strikes("gap")
  \/ /\ n = 0 /\ hung
     /\ UNCHANGED faults

(* Second half: the reply is read and judged.                              *)
ReadReply(n, verdict) ==
  /\ pc = "ack"
  /\ Arrives(n)
  /\ up' = SubSeq(up, n + 1, Len(up))
  /\ AckType(SubSeq(up, 1, n), sequence) = verdict

\* Mutant of Acked: what was asked of f_read is ticked off, not what was read.
AckedAsRequested(n) ==
  /\ ReadReply(n, "ACK")
  /\ sequence' = NextSeq(sequence)
  /\ size' = size - Lesser(size, MAX_CHUNK)
  /\ pc' = "while"
  /\ UNCHANGED <<ret, exit, fileVars, ori_size, buffer, retry, down, hung, targetVars>>

Acked(n) ==
  /\ ReadReply(n, "ACK")
  /\ sequence' = NextSeq(sequence)
  /\ size' = size - Len(buffer)
  /\ pc' = "while"
  /\ UNCHANGED <<ret, exit, fileVars, ori_size, buffer, retry, down, hung, targetVars>>

\* Mutants of Retry: giving up after a different number of tries, without a
\* count, with a result of 0, reading again without sending again, or sending
\* again under a new number.
RetryUntil(n, tries, code, again) ==
  /\ \E v \in {"CHK_ERROR", "SEQ_ERROR", "NACK"} : ReadReply(n, v)
  /\ retry' = retry + 1
  /\ IF retry' = tries
       THEN pc' = "close" /\ ret' = code
       ELSE pc' = again /\ UNCHANGED ret
  /\ UNCHANGED <<exit, fileVars, ori_size, size, buffer, sequence, down, hung, targetVars>>
RetryOnceLess(n) == RetryUntil(n, RETRY_MAX - 1, -1, "send")
RetryReturnsZero(n) == RetryUntil(n, RETRY_MAX, 0, "send")
RetryWithoutResend(n) == RetryUntil(n, RETRY_MAX, -1, "ack")
RetryRenumbers(n) ==
  /\ \E v \in {"CHK_ERROR", "SEQ_ERROR", "NACK"} : ReadReply(n, v)
  /\ retry' = retry + 1 /\ sequence' = NextSeq(sequence)
  /\ IF retry' = RETRY_MAX
       THEN pc' = "close" /\ ret' = -1
       ELSE pc' = "send" /\ UNCHANGED ret
  /\ UNCHANGED <<exit, fileVars, ori_size, size, buffer, down, hung, targetVars>>
RetryUncounted(n) ==
  /\ \E v \in {"CHK_ERROR", "SEQ_ERROR", "NACK"} : ReadReply(n, v)
  /\ pc' = "send"
  /\ UNCHANGED <<ret, exit, fileVars, loopVars, down, hung, targetVars>>

Retry(n) ==
  /\ \E v \in {"CHK_ERROR", "SEQ_ERROR", "NACK"} : ReadReply(n, v)
  /\ retry' = retry + 1
  /\ IF retry' = RETRY_MAX
       THEN pc' = "close" /\ ret' = -1
       ELSE pc' = "send" /\ UNCHANGED ret
  /\ UNCHANGED <<exit, fileVars, ori_size, size, buffer, sequence, down, hung, targetVars>>

Unexpected(n) ==
  /\ ReadReply(n, "unexpected")
  /\ pc' = "close" /\ ret' = -3
  /\ UNCHANGED <<exit, fileVars, loopVars, down, hung, targetVars>>

GetReply == \E n \in 0 .. ReplyLen : Acked(n) \/ Retry(n) \/ Unexpected(n)

\* Mutant of SendEtx: the file is closed and ETX_CHAR forgotten.
SendNothing ==
  /\ pc = "while"
  /\ size = 0
  /\ file' = FALSE
  /\ ret' = 0 /\ pc' = "close"
  /\ UNCHANGED <<exit, fileLen, pos, loopVars, lineVars, targetVars>>

(* After the loop: ETX_CHAR is written once, nobody waits for an answer.   *)
SendEtx ==
  /\ pc = "while"
  /\ size = 0
  /\ down' = IF hung THEN down ELSE Append(down, Etx)
  /\ file' = FALSE
  /\ ret' = 0 /\ pc' = "close"
  /\ UNCHANGED <<exit, fileLen, pos, loopVars, up, hung, faults, targetVars>>

(* main: s_close, whose result counts only after a successful transfer. It *)
(* fails on a port that is gone.                                           *)
ClosePort ==
  /\ pc = "close" /\ (ret = 0 => ~hung)
  /\ exit' = IF ret = 0 THEN "ok" ELSE "failed"
  /\ pc' = "exited"
  /\ UNCHANGED <<ret, fileVars, loopVars, lineVars, targetVars>>

ClosePortFails ==
  /\ pc = "close"
  /\ \/ Strikes("system")
     \/ hung /\ UNCHANGED faults
  /\ exit' = "failed" /\ pc' = "exited"
  /\ UNCHANGED <<ret, fileVars, loopVars, down, up, hung, targetVars>>

SenderStep ==
  \/ OpenPort \/ StartFile \/ ReadChunk \/ SendPacket \/ GetReply
  \/ SendEtx \/ ClosePort

SenderFails ==
  OpenPortFails \/ StartFileFails \/ SendPacketFails \/ ClosePortFails

-----------------------------------------------------------------------------
(* The target (external). A packet it can read is stored and acknowledged; *)
(* one with the number of its predecessor is taken for a retry and stored  *)
(* over it. A damaged packet changes nothing and is answered by a NAK.     *)

Answer(k, n) == up' = IF hung THEN up ELSE up \o Reply(k, n)

AcceptPacket ==
  /\ down # <<>> /\ Head(down).type = "D"
  /\ LET p == Head(down)
         keep == IF p.seq = last_n THEN checkpoint ELSE Len(target)
     IN  /\ checkpoint' = keep
         /\ target' = SubSeq(target, 1, keep) \o p.data
         /\ last_n' = p.seq
         /\ Answer("ACK", p.seq)
  /\ down' = Tail(down)
  /\ UNCHANGED <<senderVars, hung, faults, done>>

RefusePacket ==
  /\ down # <<>> /\ Head(down).type = "D"
  /\ \/ Strikes("corrupt") /\ Answer("NAK", Head(down).seq)
     \/ Strikes("other") /\ Answer("other", Head(down).seq)
  /\ down' = Tail(down)
  /\ UNCHANGED <<senderVars, hung, targetVars>>

AcceptEtx ==
  /\ down # <<>> /\ Head(down).type = "ETX"
  /\ done' = TRUE
  /\ down' = Tail(down)
  /\ UNCHANGED <<senderVars, up, hung, faults, target, checkpoint, last_n>>

TargetStep == AcceptPacket \/ RefusePacket \/ AcceptEtx

-----------------------------------------------------------------------------
(* The line and the file's other users.                                    *)

Without(s, i) == SubSeq(s, 1, i - 1) \o SubSeq(s, i + 1, Len(s))

CorruptByte ==
  /\ Strikes("corrupt")
  /\ \E i \in 1 .. Len(up) : up' = [up EXCEPT ![i] = Garbage]
  /\ UNCHANGED <<senderVars, down, hung, targetVars>>

DropByte ==
  /\ Strikes("drop")
  /\ \E i \in 1 .. Len(up) : up' = Without(up, i)
  /\ UNCHANGED <<senderVars, down, hung, targetVars>>

\* The target misses the start character, or all of the packet, and stays
\* silent.
DropPacket ==
  /\ down # <<>>
  /\ Strikes("drop")
  /\ down' = Tail(down)
  /\ UNCHANGED <<senderVars, up, hung, targetVars>>

HangUp ==
  /\ ~hung
  /\ Strikes("hangup")
  /\ hung' = TRUE
  /\ up' = <<>>
  /\ UNCHANGED <<senderVars, down, targetVars>>

Resize ==
  /\ Strikes("resize")
  /\ fileLen' \in 0 .. Len(File)
  /\ UNCHANGED <<pc, ret, exit, file, pos, loopVars, down, up, hung, targetVars>>

Environment == CorruptByte \/ DropByte \/ DropPacket \/ HangUp \/ Resize

\* The program is over and the line is quiet.
Over ==
  /\ pc = "exited" /\ down = <<>>
  /\ UNCHANGED vars

Next == SenderStep \/ SenderFails \/ TargetStep \/ Environment \/ Over

Spec == Init /\ [][Next]_vars

(* The sender is a running process whose reads return as soon as Arrives   *)
(* says so; the target polls its port.                                     *)
FairSpec == Spec /\ WF_vars(SenderStep) /\ WF_vars(TargetStep)

-----------------------------------------------------------------------------
(* Properties.                                                             *)

Packet == [type : {"D", "ETX"}, seq : 0 .. SEQ_MAX, data : Seq(Nat)]
Byte == [kind : {"ACK", "NAK", "other", "noise"}, seq : 0 .. SEQ_MAX, at : 0 .. ReplyLen]

(* The types of the variables.                                             *)
TypeOK ==
  /\ pc \in {"open", "size", "while", "send", "ack", "close", "exited"}
  /\ ret \in {0, -1, -3}
  /\ exit \in {"running", "ok", "failed"}
  /\ file \in BOOLEAN
  /\ fileLen \in 0 .. Len(File)
  /\ pos \in 0 .. Len(File)
  /\ ori_size \in -1 .. Len(File)
  /\ size \in -1 .. Len(File)
  /\ buffer \in Seq(Nat)
  /\ sequence \in 0 .. SEQ_MAX
  /\ retry \in 0 .. RETRY_MAX
  /\ down \in Seq(Packet)
  /\ up \in Seq(Byte)
  /\ hung \in BOOLEAN
  /\ faults \in [FaultKind -> Nat]
  /\ target \in Seq(Nat)
  /\ checkpoint \in Nat
  /\ last_n \in -1 .. SEQ_MAX
  /\ done \in BOOLEAN

(* Every byte the sender has ticked off (ori_size - size, what its status  *)
(* line shows) is stored at the target, in order, and the target never     *)
(* holds anything but a prefix of the file: a late or repeated ACK is      *)
(* never credited to a packet it was not sent for (ukermit.c:598-639).     *)
AckedIsStored ==
  /\ target = SubSeq(File, 1, Len(target))
  /\ ori_size - size <= Len(target)

(* Success means the whole file: k_send_data returns 0 to main only when   *)
(* the target holds as many bytes as f_size announced (ukermit.c:643-650). *)
SuccessMeansWhole ==
  pc \in {"close", "exited"} /\ exit # "failed" /\ ret = 0
    => target = SubSeq(File, 1, ori_size)

(* No number is live twice: whatever is on the line, in either direction,  *)
(* belongs to the current packet or to the one before it, and the latter   *)
(* comes first. So rolling the number over at 0x7F is harmless             *)
(* (ukermit.c:634-637).                                                    *)
Numbers == [i \in 1 .. Len(up) |-> up[i].seq] \o [i \in 1 .. Len(down) |-> down[i].seq]
Live(i) == IF i <= Len(up) THEN up[i].kind # "noise" ELSE down[i - Len(up)].type = "D"
LineWindow ==
  \A i, j \in 1 .. Len(up) + Len(down) :
    Live(i) /\ Live(j) =>
      /\ Numbers[i] # sequence => NextSeq(Numbers[i]) = sequence
      /\ i < j /\ Numbers[i] = sequence => Numbers[j] = sequence

(* The blocking read of s1_getpacket (ukermit.c:182) is only safe because  *)
(* of a balance: every packet written is answered by a whole reply, and no *)
(* read takes more than one. Unless something is lost, a waiting sender    *)
(* always has a whole reply coming.                                        *)
InFlight == Len(up) + ReplyLen * Len(down)
NoStarvation ==
  pc = "ack" /\ faults["drop"] = 0 /\ ~hung => InFlight >= ReplyLen

(* Damage alone is repaired: as long as every packet and every byte        *)
(* arrives in time, it takes RETRY_MAX damaged packets or replies to make  *)
(* the transfer fail (ukermit.c:624-633).                                  *)
FewCorruptionsTolerated ==
  exit = "failed" =>
    \/ faults["corrupt"] >= RETRY_MAX
    \/ \E k \in FaultKind \ {"corrupt"} : faults[k] > 0

(* ukermit implements the promise of FileTransfer.                         *)
Transfer == INSTANCE FileTransfer WITH
              promised <- ori_size, got <- target, outcome <- exit
ImplementsTransfer == Transfer!Spec

(* The sender comes to an end, when nothing is lost and nobody touches the *)
(* file while it is being read: f_read yields what f_size announced.       *)
Terminates == <>(pc = "exited")

(* The end of transmission is sent once and not acknowledged; with nothing *)
(* lost a reported success still takes the target out of its receive loop. *)
SuccessEndsSession == exit = "ok" ~> done

-----------------------------------------------------------------------------
(* The inductive invariant behind AckedIsStored, SuccessMeansWhole,        *)
(* LineWindow and ImplementsTransfer (proved in KermitProofs).             *)

\* Bytes the sender has ticked off.
Acc == ori_size - size

\* No packet is under way: between two packets, or after the last one.
Settled ==
  \/ pc = "while"
  \/ pc \in {"close", "exited"} /\ ret = 0 /\ exit # "failed"

LiveByte(i) == up[i].kind # "noise"
LivePacket(i) == down[i].type = "D"

\* Where the sender stands in the file.
SenderInv ==
  /\ Acc \in Nat /\ Acc <= pos
  /\ ori_size = -1 => size = -1 /\ pos = 0
  /\ ori_size # -1 => size \in Nat /\ pos <= ori_size
  /\ pc \in {"open", "size"} =>
       /\ ori_size = -1 /\ down = <<>> /\ last_n = -1
       /\ \A i \in 1 .. Len(up) : ~LiveByte(i)
  /\ pc \in {"while", "send", "ack"} => ori_size # -1
  /\ pc \in {"send", "ack"} => buffer = SubSeq(File, Acc + 1, pos) /\ retry < RETRY_MAX
  /\ Settled => pos = Acc
  /\ Settled /\ pc # "while" => size = 0 /\ ori_size # -1
  /\ exit = "running" <=> pc # "exited"
  /\ exit = "ok" => ret = 0

\* What the target holds, by the number it saw last.
TargetInv ==
  /\ last_n = sequence =>
       /\ ~Settled
       /\ target = SubSeq(File, 1, pos)
       /\ checkpoint = Acc
  /\ last_n # sequence =>
       /\ target = SubSeq(File, 1, Acc)
       /\ checkpoint <= Acc
       /\ last_n # -1 => NextSeq(last_n) = sequence

\* What is on its way to the target.
DownInv ==
  \A i \in 1 .. Len(down) : LivePacket(i) =>
    /\ down[i].seq = sequence =>
         /\ ~Settled
         /\ down[i].data = SubSeq(File, Acc + 1, pos)
         /\ \A j \in i .. Len(down) : LivePacket(j) => down[j].seq = sequence
    /\ down[i].seq # sequence =>
         /\ last_n = down[i].seq
         /\ down[i].data = SubSeq(File, checkpoint + 1, Acc)

\* What is on its way back.
UpInv ==
  \A i \in 1 .. Len(up) : LiveByte(i) =>
    /\ up[i].seq = sequence =>
         /\ ~Settled
         /\ up[i].kind = "ACK" => last_n = sequence
         /\ \A j \in i .. Len(up) : LiveByte(j) => up[j].seq = sequence
         /\ \A j \in 1 .. Len(down) : LivePacket(j) => down[j].seq = sequence
    /\ up[i].seq # sequence => NextSeq(up[i].seq) = sequence

IInv == TypeOK /\ SenderInv /\ TargetInv /\ DownInv /\ UpInv

\* The invariant behind NoStarvation.
BalanceInv ==
  /\ \A i \in 1 .. Len(down) : down[i].type = "ETX" => pc \in {"close", "exited"}
  /\ NoStarvation

\* Nothing but damage has happened.
Undisturbed == \A k \in FaultKind \ {"corrupt"} : faults[k] = 0

\* Then the line holds one packet or one whole reply while the sender waits,
\* and else nothing that would be answered or read.
InStep ==
  /\ ~hung
  /\ pc # "ack" => up = <<>> /\ \A i \in 1 .. Len(down) : ~LivePacket(i)
  /\ pc = "ack" =>
       \/ up = <<>> /\ Len(down) = 1 /\ LivePacket(1) /\ down[1].seq = sequence
       \/ /\ down = <<>> /\ Len(up) = ReplyLen
          /\ \A i \in 1 .. ReplyLen : up[i] = Garbage \/ up[i].kind \in {"ACK", "NAK"}

\* And every failure the sender counts, or is about to count, is paid for by
\* some damage.
Charged ==
  /\ retry <= faults["corrupt"]
  /\ pc = "ack" /\ up \notin {<<>>, Reply("ACK", sequence)} => retry < faults["corrupt"]
  /\ pc \in {"close", "exited"} /\ (ret # 0 \/ exit = "failed")
       => RETRY_MAX <= faults["corrupt"]

\* The invariant behind FewCorruptionsTolerated.
RepairInv == Undisturbed => InStep /\ Charged
=============================================================================
