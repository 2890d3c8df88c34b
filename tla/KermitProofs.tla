---------------------------- MODULE KermitProofs ----------------------------
(***************************************************************************)
(* Proofs about Kermit, for every file, packet size, number of tries,      *)
(* sequence number range and number of faults.                             *)
(***************************************************************************)
EXTENDS Kermit, SequenceTheorems, TLAPS

-----------------------------------------------------------------------------
(* Sequences.                                                              *)

\* A part of a sequence is a sequence over the same set.
LEMMA PartOfSeq ==
  ASSUME NEW S, NEW s \in Seq(S), NEW a \in Nat \ {0}, NEW b \in 0 .. Len(s)
  PROVE  /\ SubSeq(s, a, b) \in Seq(S)
         /\ Len(SubSeq(s, a, b)) = IF a <= b THEN b - a + 1 ELSE 0
         /\ \A i \in 1 .. Len(SubSeq(s, a, b)) : SubSeq(s, a, b)[i] = s[a + i - 1]
OBVIOUS

\* Cutting a prefix of a sequence at a and gluing on what follows a in the
\* sequence gives a prefix again.
LEMMA GluePrefix ==
  ASSUME NEW S, NEW s \in Seq(S),
         NEW m \in 0 .. Len(s), NEW a \in 0 .. m, NEW b \in a .. Len(s)
  PROVE  SubSeq(SubSeq(s, 1, m), 1, a) \o SubSeq(s, a + 1, b) = SubSeq(s, 1, b)
<1>1. SubSeq(SubSeq(s, 1, m), 1, a) = SubSeq(s, 1, a)
  <2>1. CASE a = 0
    BY <2>1, SubSeqEmpty
  <2>2. CASE a # 0
    <3>1. /\ 1 \in 1 .. Len(s) /\ m \in 1 .. Len(s) /\ 1 \in 1 .. m - 1 + 1 /\ a \in 1 .. m - 1 + 1
          /\ 1 + 1 - 1 = 1 /\ 1 + a - 1 = a
      BY <2>2
    <3> QED
      BY <3>1, SubSeqOfSubSeq
  <2> QED
    BY <2>1, <2>2
<1>2. 1 \in 1 .. Len(s) + 1 /\ a \in 1 - 1 .. Len(s)
  OBVIOUS
<1>3. SubSeq(s, 1, a) \o SubSeq(s, a + 1, b) = SubSeq(s, 1, b)
  BY <1>2, ConcatAdjacentSubSeq
<1> QED
  BY <1>1, <1>3

\* Leaving out one element.
LEMMA WithoutSeq ==
  ASSUME NEW S, NEW s \in Seq(S), NEW k \in 1 .. Len(s)
  PROVE  /\ Without(s, k) \in Seq(S)
         /\ Len(Without(s, k)) = Len(s) - 1
         /\ \A i \in 1 .. Len(s) - 1 : Without(s, k)[i] = IF i < k THEN s[i] ELSE s[i + 1]
<1> DEFINE p == SubSeq(s, 1, k - 1)
           q == SubSeq(s, k + 1, Len(s))
<1>1. p \in Seq(S) /\ Len(p) = k - 1 /\ \A i \in 1 .. k - 1 : p[i] = s[i]
  BY PartOfSeq
<1>2. q \in Seq(S) /\ Len(q) = Len(s) - k /\ \A i \in 1 .. Len(s) - k : q[i] = s[k + i]
  BY PartOfSeq
<1> HIDE DEF p, q
<1>3. /\ p \o q \in Seq(S) /\ Len(p \o q) = Len(s) - 1
      /\ \A i \in 1 .. Len(s) - 1 : (p \o q)[i] = IF i <= k - 1 THEN p[i] ELSE q[i - (k - 1)]
  BY <1>1, <1>2, ConcatProperties
<1>4. ASSUME NEW i \in 1 .. Len(s) - 1
      PROVE  (p \o q)[i] = IF i < k THEN s[i] ELSE s[i + 1]
  <2>1. CASE i <= k - 1
    BY <1>1, <1>3, <2>1
  <2>2. CASE ~(i <= k - 1)
    <3>1. i - (k - 1) \in 1 .. Len(s) - k /\ k + (i - (k - 1)) = i + 1 /\ ~(i < k)
      BY <2>2
    <3> QED
      BY <1>2, <1>3, <2>2, <3>1
  <2> QED
    BY <2>1, <2>2
<1> QED
  BY <1>3, <1>4 DEF p, q, Without

-----------------------------------------------------------------------------
(* What the pieces of the actions do to the line.                          *)

LEMMA ReplyFacts ==
  ASSUME NEW k \in {"ACK", "NAK", "other"}, NEW n \in 0 .. SEQ_MAX
  PROVE  /\ Reply(k, n) \in Seq(Byte)
         /\ Len(Reply(k, n)) = ReplyLen
         /\ \A i \in 1 .. ReplyLen : Reply(k, n)[i] = [kind |-> k, seq |-> n, at |-> i]
BY KermitAssumption DEF Reply, ReplyLen, Byte

\* A fault is counted, nothing else is.
LEMMA StrikesFacts ==
  ASSUME TypeOK, NEW k \in FaultKind, Strikes(k)
  PROVE  /\ faults' \in [FaultKind -> Nat]
         /\ \A j \in FaultKind : faults'[j] = IF j = k THEN faults[j] + 1 ELSE faults[j]
BY DEF TypeOK, Strikes

\* An answer of the target is queued behind what is already on its way.
LEMMA AnswerFacts ==
  ASSUME TypeOK, NEW k \in {"ACK", "NAK", "other"}, NEW n \in 0 .. SEQ_MAX, Answer(k, n)
  PROVE  /\ up' \in Seq(Byte)
         /\ ~hung => Len(up') = Len(up) + ReplyLen
         /\ Len(up') >= Len(up)
         /\ \A i \in 1 .. Len(up') :
              IF i <= Len(up) THEN up'[i] = up[i]
              ELSE up'[i].kind = k /\ up'[i].seq = n
<1>1. CASE hung
  BY <1>1 DEF TypeOK, Answer
<1>2. CASE ~hung
  <2>1. up' = up \o Reply(k, n)
    BY <1>2 DEF Answer
  <2>2. up \in Seq(Byte) /\ Len(up) \in Nat
    BY DEF TypeOK
  <2>3. /\ up' \in Seq(Byte) /\ Len(up') = Len(up) + ReplyLen
        /\ \A i \in 1 .. Len(up) + ReplyLen :
             up'[i] = IF i <= Len(up) THEN up[i] ELSE Reply(k, n)[i - Len(up)]
    BY <2>1, <2>2, ReplyFacts, ConcatProperties
  <2>4. ASSUME NEW i \in 1 .. Len(up'), ~(i <= Len(up))
        PROVE  up'[i].kind = k /\ up'[i].seq = n
    <3>1. i - Len(up) \in 1 .. ReplyLen
      BY <2>2, <2>3, <2>4 DEF ReplyLen
    <3>2. up'[i] = Reply(k, n)[i - Len(up)]
      BY <2>2, <2>3, <2>4
    <3>3. Reply(k, n)[i - Len(up)] = [kind |-> k, seq |-> n, at |-> i - Len(up)]
      BY <3>1, ReplyFacts
    <3> QED
      BY <3>2, <3>3
  <2> QED
    BY <1>2, <2>2, <2>3, <2>4 DEF ReplyLen
<1> QED
  BY <1>1, <1>2

\* A read takes a prefix of what has arrived.
LEMMA ReadFacts ==
  ASSUME TypeOK, NEW n \in 0 .. ReplyLen, NEW v, ReadReply(n, v)
  PROVE  /\ pc = "ack"
         /\ n <= Len(up)
         /\ up' \in Seq(Byte)
         /\ Len(up') = Len(up) - n
         /\ \A i \in 1 .. Len(up') : up'[i] = up[n + i]
         /\ faults' \in [FaultKind -> Nat]
         /\ faults'["drop"] = faults["drop"]
         /\ n = 0 => hung
         /\ v = "ACK" => \E i \in 1 .. n : up[i].kind = "ACK" /\ up[i].seq = sequence
<1>1. up \in Seq(Byte) /\ Len(up) \in Nat /\ ReplyLen = 6 /\ n \in Nat
  BY DEF TypeOK, ReplyLen
<1>2. pc = "ack" /\ n <= Len(up) /\ (n = 0 => hung)
  BY <1>1 DEF ReadReply, Arrives
<1>3. faults' \in [FaultKind -> Nat] /\ faults'["drop"] = faults["drop"]
  <2>1. faults \in [FaultKind -> Nat] /\ "gap" \in FaultKind /\ "drop" \in FaultKind
    BY DEF TypeOK, FaultKind
  <2>2. (UNCHANGED faults) \/ Strikes("gap")
    BY DEF ReadReply, Arrives
  <2>3. CASE Strikes("gap")
    BY <2>1, <2>3, StrikesFacts
  <2> QED
    BY <2>1, <2>2, <2>3
<1>4. up' = SubSeq(up, n + 1, Len(up))
  BY DEF ReadReply
<1>5. up' \in Seq(Byte) /\ Len(up') = Len(up) - n /\ \A i \in 1 .. Len(up') : up'[i] = up[n + i]
  BY <1>1, <1>2, <1>4, PartOfSeq
<1>6. ASSUME v = "ACK"
      PROVE  \E i \in 1 .. n : up[i].kind = "ACK" /\ up[i].seq = sequence
  <2> DEFINE p == SubSeq(up, 1, n)
  <2>1. p \in Seq(Byte) /\ Len(p) = n /\ \A i \in 1 .. n : p[i] = up[i]
    BY <1>1, <1>2, PartOfSeq
  <2>2. AckType(p, sequence) = "ACK"
    BY <1>6 DEF ReadReply
  <2> HIDE DEF p
  <2>3. ChecksumOK(p) /\ p[3].seq = sequence /\ p[4].kind = "ACK"
    BY <2>2 DEF AckType
  <2>4. Len(p) >= 5 /\ p[4].seq = p[3].seq
    BY <2>3 DEF ChecksumOK
  <2>5. 4 \in 1 .. n
    BY <2>1, <2>4, <1>1
  <2> QED
    BY <2>1, <2>3, <2>4, <2>5
<1> QED
  BY <1>2, <1>3, <1>5, <1>6

-----------------------------------------------------------------------------
(* Steps that leave most of the line and the target alone.                 *)

\* No byte is on its way that was not, in the order in which they were;
\* some may have become garbage.
Thinned ==
  \E g \in [1 .. Len(up') -> 1 .. Len(up)] :
    /\ \A i \in 1 .. Len(up') : LiveByte(i)' => up'[i] = up[g[i]]
    /\ \A i, j \in 1 .. Len(up') : i <= j => g[i] <= g[j]

LEMMA ReadThins ==
  ASSUME up \in Seq(Byte), up' \in Seq(Byte), NEW n \in Nat, n <= Len(up),
         Len(up') = Len(up) - n, \A i \in 1 .. Len(up') : up'[i] = up[n + i]
  PROVE  Thinned
<1> DEFINE g == [i \in 1 .. Len(up') |-> n + i]
<1>1. Len(up) \in Nat /\ Len(up') \in Nat
  OBVIOUS
<1>2. g \in [1 .. Len(up') -> 1 .. Len(up)]
  BY <1>1
<1>3. /\ \A i \in 1 .. Len(up') : LiveByte(i)' => up'[i] = up[g[i]]
      /\ \A i, j \in 1 .. Len(up') : i <= j => g[i] <= g[j]
  BY <1>1
<1> HIDE DEF g
<1> QED
  BY <1>2, <1>3 DEF Thinned

LEMMA SameThins ==
  ASSUME up \in Seq(Byte), up' = up
  PROVE  Thinned
<1>1. Len(up) \in Nat
  OBVIOUS
<1>2. Len(up') = Len(up) - 0 /\ \A i \in 1 .. Len(up') : up'[i] = up[0 + i]
  BY <1>1
<1>3. up' \in Seq(Byte) /\ 0 \in Nat /\ 0 <= Len(up)
  BY <1>1
<1> QED
  BY <1>2, <1>3, ReadThins, Zenon

LEMMA DropThins ==
  ASSUME up \in Seq(Byte), NEW k \in 1 .. Len(up), up' = Without(up, k)
  PROVE  Thinned /\ up' \in Seq(Byte) /\ Len(up') = Len(up) - 1
<1> DEFINE g == [i \in 1 .. Len(up') |-> IF i < k THEN i ELSE i + 1]
<1>1. Len(up) \in Nat
  OBVIOUS
<1>2. /\ up' \in Seq(Byte) /\ Len(up') = Len(up) - 1
      /\ \A i \in 1 .. Len(up) - 1 : up'[i] = IF i < k THEN up[i] ELSE up[i + 1]
  BY WithoutSeq
<1>3. g \in [1 .. Len(up') -> 1 .. Len(up)]
  BY <1>1, <1>2
<1>4. /\ \A i \in 1 .. Len(up') : LiveByte(i)' => up'[i] = up[g[i]]
      /\ \A i, j \in 1 .. Len(up') : i <= j => g[i] <= g[j]
  BY <1>1, <1>2
<1> HIDE DEF g
<1> QED
  BY <1>2, <1>3, <1>4 DEF Thinned

LEMMA CorruptThins ==
  ASSUME up \in Seq(Byte), NEW k \in 1 .. Len(up), up' = [up EXCEPT ![k] = Garbage]
  PROVE  Thinned /\ up' \in Seq(Byte) /\ Len(up') = Len(up)
<1> DEFINE g == [i \in 1 .. Len(up') |-> i]
<1>1. Len(up) \in Nat
  OBVIOUS
<1>2. Garbage \in Byte
  BY KermitAssumption DEF Garbage, Byte, ReplyLen
<1>3. /\ up' \in Seq(Byte) /\ Len(up') = Len(up)
      /\ \A i \in 1 .. Len(up) : up'[i] = IF i = k THEN Garbage ELSE up[i]
  BY <1>2, ExceptSeq
<1>4. g \in [1 .. Len(up') -> 1 .. Len(up)]
  BY <1>1, <1>3
<1>5. Garbage.kind = "noise"
  BY DEF Garbage
<1>6. \A i, j \in 1 .. Len(up') : i <= j => g[i] <= g[j]
  OBVIOUS
<1>7. ASSUME NEW i \in 1 .. Len(up'), LiveByte(i)'
      PROVE  up'[i] = up[g[i]]
  <2>1. i # k
    BY <1>1, <1>3, <1>5, <1>7 DEF LiveByte
  <2> QED
    BY <1>1, <1>3, <2>1
<1> HIDE DEF g
<1> QED
  BY <1>3, <1>4, <1>6, <1>7 DEF Thinned

\* The sender's place in the file and the target stay, and no new packet is
\* taken up; on the line bytes may vanish.
LEMMA FrameStep ==
  ASSUME IInv, UNCHANGED <<pos, Acc, sequence, targetVars, down>>,
         Thinned, up' \in Seq(Byte), Settled' => Settled
  PROVE  /\ TargetInv' /\ DownInv' /\ UpInv'
         /\ (\A i \in 1 .. Len(up) : ~LiveByte(i)) => \A i \in 1 .. Len(up') : ~LiveByte(i)'
<1> USE DEF LivePacket
<1>1. TargetInv'
  BY DEF IInv, TargetInv, targetVars
<1>2. DownInv'
  BY DEF IInv, DownInv, targetVars
<1>3. PICK g \in [1 .. Len(up') -> 1 .. Len(up)] :
        /\ \A i \in 1 .. Len(up') : LiveByte(i)' => up'[i] = up[g[i]]
        /\ \A i, j \in 1 .. Len(up') : i <= j => g[i] <= g[j]
  BY DEF Thinned
<1>4. Len(up) \in Nat /\ Len(up') \in Nat
  BY DEF IInv, TypeOK
<1>5. ASSUME NEW i \in 1 .. Len(up'), LiveByte(i)'
      PROVE  /\ up'[i].seq = sequence =>
                  /\ ~Settled'
                  /\ up'[i].kind = "ACK" => last_n = sequence
                  /\ \A j \in i .. Len(up') : LiveByte(j)' => up'[j].seq = sequence
                  /\ \A j \in 1 .. Len(down) : LivePacket(j) => down[j].seq = sequence
             /\ up'[i].seq # sequence => NextSeq(up'[i].seq) = sequence
  <2>1. g[i] \in 1 .. Len(up) /\ up'[i] = up[g[i]] /\ LiveByte(g[i])
    BY <1>3, <1>5 DEF LiveByte
  <2>2. ASSUME NEW j \in i .. Len(up'), LiveByte(j)', up'[i].seq = sequence
        PROVE  up'[j].seq = sequence
    <3>1. j \in 1 .. Len(up') /\ i <= j
      BY <1>4
    <3>2. g[j] \in g[i] .. Len(up) /\ up'[j] = up[g[j]] /\ LiveByte(g[j])
      BY <1>3, <1>4, <2>1, <2>2, <3>1 DEF LiveByte
    <3> QED
      BY <2>1, <2>2, <3>2 DEF IInv, UpInv
  <2>3. UpInv
    BY DEF IInv
  <2> QED
    BY <2>1, <2>2, <2>3 DEF UpInv
<1>6. UpInv'
  BY <1>5 DEF UpInv, targetVars
<1>7. ASSUME \A i \in 1 .. Len(up) : ~LiveByte(i), NEW i \in 1 .. Len(up')
      PROVE  ~LiveByte(i)'
  BY <1>3, <1>7 DEF LiveByte
<1> QED
  BY <1>1, <1>2, <1>6, <1>7

-----------------------------------------------------------------------------
(* Steps of the target.                                                    *)

\* What a step that takes the first packet off the line does to the rest.
LEMMA TailFacts ==
  ASSUME TypeOK, down # <<>>, down' = Tail(down)
  PROVE  /\ down' \in Seq(Packet)
         /\ Len(down) \in Nat \ {0}
         /\ Len(down') = Len(down) - 1
         /\ \A i \in 1 .. Len(down') : down'[i] = down[i + 1]
         /\ Head(down) = down[1] /\ down[1] \in Packet
BY DEF TypeOK

\* Removing the first packet, with the sender and the target as they are.
LEMMA TailStep ==
  ASSUME IInv, down # <<>>, down' = Tail(down),
         UNCHANGED <<senderVars, last_n, checkpoint>>
  PROVE  DownInv'
<1>1. TypeOK /\ DownInv
  BY DEF IInv
<1>2. /\ Len(down) \in Nat \ {0} /\ Len(down') = Len(down) - 1
      /\ \A i \in 1 .. Len(down') : down'[i] = down[i + 1]
  BY <1>1, TailFacts
<1>3. ASSUME NEW i \in 1 .. Len(down'), LivePacket(i)'
      PROVE  /\ i + 1 \in 1 .. Len(down) /\ LivePacket(i + 1) /\ down'[i] = down[i + 1]
             /\ \A j \in i .. Len(down') : j \in 1 .. Len(down') /\ j + 1 \in i + 1 .. Len(down)
  BY <1>2, <1>3 DEF LivePacket
<1> QED
  BY <1>1, <1>2, <1>3 DEF DownInv, LivePacket, senderVars, fileVars, loopVars, Settled, Acc

\* The answer to the first packet: the order of numbers on the line holds.
LEMMA AnswerStep ==
  ASSUME IInv, UNCHANGED senderVars, NEW k \in {"ACK", "NAK", "other"},
         down # <<>>, Head(down).type = "D", down' = Tail(down),
         Answer(k, Head(down).seq),
         last_n = sequence => last_n' = sequence,
         k = "ACK" /\ Head(down).seq = sequence => last_n' = sequence
  PROVE  UpInv'
<1> DEFINE n == down[1].seq
<1>1. TypeOK /\ DownInv /\ UpInv /\ TargetInv
  BY DEF IInv
<1>2. /\ Len(down) \in Nat \ {0} /\ Len(down') = Len(down) - 1
      /\ \A i \in 1 .. Len(down') : down'[i] = down[i + 1]
      /\ Head(down) = down[1] /\ n \in 0 .. SEQ_MAX
  BY <1>1, TailFacts DEF Packet
<1>3. LivePacket(1) /\ 1 \in 1 .. Len(down)
  BY <1>2 DEF LivePacket
<1>4. /\ up' \in Seq(Byte) /\ Len(up') >= Len(up) /\ Len(up) \in Nat /\ Len(up') \in Nat
      /\ \A i \in 1 .. Len(up') : IF i <= Len(up) THEN up'[i] = up[i]
                                  ELSE up'[i].kind = k /\ up'[i].seq = n
  <2>1. Answer(k, n) /\ n \in 0 .. SEQ_MAX
    BY <1>2
  <2>2. up \in Seq(Byte)
    BY <1>1 DEF TypeOK
  <2> HIDE DEF n
  <2>3. /\ up' \in Seq(Byte) /\ Len(up') >= Len(up)
        /\ \A i \in 1 .. Len(up') : IF i <= Len(up) THEN up'[i] = up[i]
                                    ELSE up'[i].kind = k /\ up'[i].seq = n
    BY <1>1, <2>1, AnswerFacts
  <2> QED
    BY <2>2, <2>3
<1>5. n = sequence =>
        /\ ~Settled
        /\ \A j \in 1 .. Len(down') : LivePacket(j)' => down'[j].seq = sequence
  <2>1. ASSUME n = sequence, NEW j \in 1 .. Len(down'), LivePacket(j)'
        PROVE  down'[j].seq = sequence
    <3>1. j + 1 \in 1 .. Len(down) /\ LivePacket(j + 1) /\ down'[j] = down[j + 1]
      BY <1>2, <2>1 DEF LivePacket
    <3> QED
      BY <1>1, <1>3, <2>1, <3>1 DEF DownInv
  <2> QED
    BY <1>1, <1>3, <2>1 DEF DownInv
<1>6. n # sequence =>
        /\ NextSeq(n) = sequence
        /\ \A i \in 1 .. Len(up) : LiveByte(i) => up[i].seq # sequence
  BY <1>1, <1>2, <1>3 DEF DownInv, TargetInv, UpInv
<1>7. UNCHANGED <<sequence, pc, ret, exit>> /\ Settled' = Settled
  BY DEF senderVars, loopVars, Settled
<1>9. k = "ACK" /\ n = sequence => last_n' = sequence
  BY <1>2
<1> HIDE DEF n
<1>8. ASSUME NEW i \in 1 .. Len(up'), LiveByte(i)'
      PROVE  /\ up'[i].seq = sequence =>
                  /\ ~Settled'
                  /\ up'[i].kind = "ACK" => last_n' = sequence
                  /\ \A j \in i .. Len(up') : LiveByte(j)' => up'[j].seq = sequence
                  /\ \A j \in 1 .. Len(down') : LivePacket(j)' => down'[j].seq = sequence
             /\ up'[i].seq # sequence => NextSeq(up'[i].seq) = sequence
  <2>1. CASE i <= Len(up)
    <3>1. up'[i] = up[i] /\ LiveByte(i) /\ i \in 1 .. Len(up)
      BY <1>4, <1>8, <2>1 DEF LiveByte
    <3>2. ASSUME up[i].seq = sequence
          PROVE  n = sequence
      BY <1>6, <3>1, <3>2
    <3>3. ASSUME up[i].seq = sequence, NEW j \in i .. Len(up'), LiveByte(j)'
          PROVE  up'[j].seq = sequence
      <4>1. CASE j <= Len(up)
        <5>1. j \in i .. Len(up) /\ j \in 1 .. Len(up') /\ up'[j] = up[j] /\ LiveByte(j)
          BY <1>4, <3>3, <4>1 DEF LiveByte
        <5> QED
          BY <1>1, <3>1, <3>3, <5>1 DEF UpInv
      <4>2. CASE ~(j <= Len(up))
        BY <1>4, <3>2, <3>3, <4>2
      <4> QED
        BY <4>1, <4>2
    <3>4. /\ up[i].seq = sequence /\ up[i].kind = "ACK" => last_n' = sequence
          /\ up[i].seq # sequence => NextSeq(up[i].seq) = sequence
      BY <1>1, <3>1 DEF UpInv
    <3> QED
      BY <1>5, <1>7, <3>1, <3>2, <3>3, <3>4
  <2>2. CASE ~(i <= Len(up))
    <3>1. up'[i].kind = k /\ up'[i].seq = n
      BY <1>4, <2>2
    <3>2. \A j \in i .. Len(up') : up'[j].seq = n
      BY <1>4, <2>2
    <3> QED
      BY <1>5, <1>6, <1>7, <1>9, <3>1, <3>2
  <2> QED
    BY <2>1, <2>2
<1> QED
  BY <1>7, <1>8 DEF UpInv

\* Facts about the file that most steps use.
LEMMA FileFacts ==
  ASSUME IInv
  PROVE  /\ File \in Seq(Nat) /\ Len(File) \in Nat
         /\ Acc \in 0 .. pos /\ pos \in 0 .. Len(File)
         /\ sequence # -1
         /\ \A b \in 0 .. Len(File) :
              /\ SubSeq(File, 1, b) \in Seq(Nat)
              /\ Len(SubSeq(File, 1, b)) = b
<1>1. Acc \in 0 .. pos /\ pos \in 0 .. Len(File) /\ sequence # -1
  BY KermitAssumption DEF IInv, TypeOK, SenderInv
<1>2. File \in Seq(Nat) /\ Len(File) \in Nat
  BY KermitAssumption
<1>3. ASSUME NEW b \in 0 .. Len(File)
      PROVE  SubSeq(File, 1, b) \in Seq(Nat) /\ Len(SubSeq(File, 1, b)) = b
  BY <1>2, <1>3, PartOfSeq
<1> QED
  BY <1>1, <1>2, <1>3

\* A packet that arrives intact: a new one extends the target, a repeated one
\* changes nothing.
LEMMA AcceptStep ==
  ASSUME IInv, AcceptPacket
  PROVE  /\ IInv'
         /\ target' # target =>
              /\ ~Settled
              /\ target = SubSeq(File, 1, Acc)
              /\ target' = SubSeq(File, 1, pos)
<1> DEFINE p == Head(down)
           keep == IF p.seq = last_n THEN checkpoint ELSE Len(target)
<1>1. /\ TypeOK /\ SenderInv /\ TargetInv /\ DownInv
      /\ down # <<>> /\ p.type = "D" /\ down' = Tail(down)
      /\ checkpoint' = keep /\ target' = SubSeq(target, 1, keep) \o p.data
      /\ last_n' = p.seq /\ Answer("ACK", p.seq)
      /\ UNCHANGED <<senderVars, hung, faults, done>>
  BY DEF AcceptPacket, IInv
<1>2. /\ p = down[1] /\ p.seq \in 0 .. SEQ_MAX /\ down' \in Seq(Packet)
      /\ 1 \in 1 .. Len(down) /\ LivePacket(1)
  BY <1>1, TailFacts DEF Packet, LivePacket
<1>3. /\ UNCHANGED <<sequence, pos, Acc, pc, ret, exit, ori_size, size, fileLen, file, buffer, retry>>
      /\ Settled' = Settled /\ SenderInv'
  <2>1. UNCHANGED <<sequence, pos, Acc, pc, ret, exit, ori_size, size, fileLen, file, buffer, retry>>
    BY <1>1 DEF senderVars, fileVars, loopVars, Acc
  <2>2. pc \notin {"open", "size"}
    BY <1>1 DEF SenderInv
  <2> QED
    BY <1>1, <2>1, <2>2 DEF SenderInv, Settled
<1> HIDE DEF p, keep
<1>4. ASSUME p.seq = sequence
      PROVE  /\ TargetInv' /\ DownInv'
             /\ target' \in Seq(Nat) /\ checkpoint' \in Nat
             /\ last_n = sequence => last_n' = sequence
             /\ target' # target =>
                  /\ ~Settled
                  /\ target = SubSeq(File, 1, Acc)
                  /\ target' = SubSeq(File, 1, pos)
  <2>1. /\ ~Settled /\ p.data = SubSeq(File, Acc + 1, pos)
        /\ \A j \in 1 .. Len(down) : LivePacket(j) => down[j].seq = sequence
    BY <1>1, <1>2, <1>4 DEF DownInv
  <2>2. /\ keep = Acc
        /\ \E m \in 0 .. Len(File) : Acc <= m /\ target = SubSeq(File, 1, m)
    <3>1. CASE last_n = sequence
      BY <1>1, <1>4, <3>1, FileFacts DEF TargetInv, keep
    <3>2. CASE last_n # sequence
      BY <1>1, <1>4, <3>2, FileFacts DEF TargetInv, keep
    <3> QED
      BY <3>1, <3>2
  <2>3. target' = SubSeq(File, 1, pos)
    <3>1. PICK m \in 0 .. Len(File) : Acc <= m /\ target = SubSeq(File, 1, m)
      BY <2>2
    <3>2. Acc \in 0 .. m /\ pos \in Acc .. Len(File) /\ File \in Seq(Nat)
      BY <3>1, FileFacts
    <3>3. SubSeq(SubSeq(File, 1, m), 1, Acc) \o SubSeq(File, Acc + 1, pos) = SubSeq(File, 1, pos)
      BY <3>1, <3>2, GluePrefix
    <3> QED
      BY <1>1, <2>1, <2>2, <3>1, <3>3
  <2>4. TargetInv'
    BY <1>1, <1>3, <1>4, <2>1, <2>2, <2>3 DEF TargetInv
  <2>5. DownInv'
    <3>1. ASSUME NEW i \in 1 .. Len(down'), LivePacket(i)'
          PROVE  down'[i].seq = sequence /\ down'[i].data = SubSeq(File, Acc + 1, pos)
      <4>1. i + 1 \in 1 .. Len(down) /\ LivePacket(i + 1) /\ down'[i] = down[i + 1]
        BY <1>1, <3>1, TailFacts DEF LivePacket
      <4> QED
        BY <1>1, <2>1, <4>1 DEF DownInv
    <3>2. Len(down') \in Nat
      BY <1>2
    <3>3. ASSUME NEW i \in 1 .. Len(down'), NEW j \in i .. Len(down')
          PROVE  j \in 1 .. Len(down')
      BY <3>2
    <3> QED
      BY <1>3, <2>1, <3>1, <3>3 DEF DownInv
  <2>6. target' # target =>
              /\ ~Settled
              /\ target = SubSeq(File, 1, Acc)
              /\ target' = SubSeq(File, 1, pos)
    BY <1>1, <2>1, <2>3 DEF TargetInv
  <2>7. target' \in Seq(Nat) /\ checkpoint' \in Nat
    <3>1. target' \in Seq(Nat)
      BY <2>3, FileFacts
    <3>2. checkpoint' = Acc /\ Acc \in Nat
      BY <1>1, <2>2, FileFacts
    <3> QED
      BY <3>1, <3>2
  <2> QED
    BY <1>1, <1>4, <2>4, <2>5, <2>6, <2>7
<1>5. ASSUME p.seq # sequence
      PROVE  /\ TargetInv' /\ DownInv'
             /\ target' \in Seq(Nat) /\ checkpoint' \in Nat
             /\ last_n = sequence => last_n' = sequence
             /\ target' # target =>
                  /\ ~Settled
                  /\ target = SubSeq(File, 1, Acc)
                  /\ target' = SubSeq(File, 1, pos)
  <2>1. last_n = p.seq /\ p.data = SubSeq(File, checkpoint + 1, Acc)
    BY <1>1, <1>2, <1>5 DEF DownInv
  <2>2. keep = checkpoint /\ checkpoint \in 0 .. Acc /\ target = SubSeq(File, 1, Acc)
    BY <1>1, <1>5, <2>1 DEF TargetInv, keep, TypeOK
  <2>3. target' = target
    <3>1. SubSeq(SubSeq(File, 1, Acc), 1, checkpoint) \o SubSeq(File, checkpoint + 1, Acc)
            = SubSeq(File, 1, Acc)
      <4>1. /\ Acc \in 0 .. Len(File) /\ checkpoint \in 0 .. Acc /\ Acc \in checkpoint .. Len(File)
            /\ File \in Seq(Nat)
        BY <2>2, FileFacts
      <4> QED
        BY <4>1, GluePrefix
    <3> QED
      BY <1>1, <2>1, <2>2, <3>1
  <2>4. UNCHANGED <<last_n, checkpoint>>
    BY <1>1, <2>1, <2>2
  <2>5. TargetInv'
    BY <1>1, <1>3, <2>3, <2>4 DEF TargetInv
  <2>6. DownInv'
    BY <1>1, <2>4, TailStep
  <2>7. target' \in Seq(Nat) /\ checkpoint' \in Nat
    BY <1>1, <2>3, <2>4 DEF TypeOK
  <2> QED
    BY <2>3, <2>4, <2>5, <2>6, <2>7
<1>7. UpInv'
  BY <1>1, <1>4, <1>5, AnswerStep DEF p
<1>8. up' \in Seq(Byte)
  BY <1>1, <1>2, AnswerFacts
<1>9. TypeOK'
  <2>1. target' \in Seq(Nat) /\ checkpoint' \in Nat
    BY <1>4, <1>5
  <2> QED
    BY <1>1, <1>2, <1>3, <1>8, <2>1, SMTT(30) DEF TypeOK
<1> QED
  BY <1>3, <1>4, <1>5, <1>7, <1>9 DEF IInv

\* The first packet goes and nobody else notices.
LEMMA DropFirst ==
  ASSUME IInv, down # <<>>, down' = Tail(down),
         UNCHANGED <<senderVars, up, target, checkpoint, last_n>>
  PROVE  SenderInv' /\ TargetInv' /\ DownInv' /\ UpInv'
<1>1. TypeOK /\ SenderInv /\ TargetInv /\ DownInv /\ UpInv
  BY DEF IInv
<1>2. /\ UNCHANGED <<sequence, pos, Acc, pc, ret, exit, ori_size, size, buffer, retry>>
      /\ Settled' = Settled /\ pc \notin {"open", "size"}
  BY <1>1 DEF senderVars, fileVars, loopVars, Acc, Settled, SenderInv
<1>3. SenderInv' /\ TargetInv'
  BY <1>1, <1>2 DEF SenderInv, TargetInv
<1>4. DownInv'
  BY TailStep
<1>5. UpInv'
  <2>1. ASSUME NEW j \in 1 .. Len(down'), LivePacket(j)'
        PROVE  j + 1 \in 1 .. Len(down) /\ LivePacket(j + 1) /\ down'[j] = down[j + 1]
    BY <1>1, <2>1, TailFacts DEF LivePacket
  <2> QED
    BY <1>1, <1>2, <2>1 DEF UpInv, LiveByte
<1> QED
  BY <1>3, <1>4, <1>5

LEMMA TargetInvariance ==
  ASSUME IInv, TargetStep
  PROVE  IInv'
<1>1. CASE AcceptPacket
  BY <1>1, AcceptStep
<1>2. CASE RefusePacket
  <2>1. /\ down # <<>> /\ Head(down).type = "D" /\ down' = Tail(down)
        /\ UNCHANGED <<senderVars, hung, targetVars>>
    BY <1>2 DEF RefusePacket
  <2>2. PICK k \in {"NAK", "other"}, f \in FaultKind : Strikes(f) /\ Answer(k, Head(down).seq)
    BY <1>2 DEF RefusePacket, FaultKind
  <2>3. TypeOK /\ SenderInv /\ TargetInv
    BY DEF IInv
  <2>4. Head(down).seq \in 0 .. SEQ_MAX /\ down' \in Seq(Packet)
    BY <2>1, <2>3, TailFacts DEF Packet
  <2>5. faults' \in [FaultKind -> Nat] /\ up' \in Seq(Byte)
    BY <2>2, <2>3, <2>4, StrikesFacts, AnswerFacts
  <2>6. TypeOK'
    BY <2>1, <2>3, <2>4, <2>5 DEF TypeOK, senderVars, fileVars, loopVars, targetVars
  <2>7. SenderInv' /\ TargetInv'
    BY <2>1, <2>3 DEF SenderInv, TargetInv, Acc, Settled, senderVars, fileVars, loopVars, targetVars
  <2>8. DownInv'
    BY <2>1, TailStep DEF targetVars
  <2>9. UpInv'
    BY <2>1, <2>2, AnswerStep DEF targetVars
  <2> QED
    BY <2>6, <2>7, <2>8, <2>9 DEF IInv
<1>3. CASE AcceptEtx
  <2>1. /\ down # <<>> /\ down' = Tail(down) /\ done' = TRUE
        /\ UNCHANGED <<senderVars, up, hung, faults, target, checkpoint, last_n>>
    BY <1>3 DEF AcceptEtx
  <2>2. TypeOK
    BY DEF IInv
  <2>3. down' \in Seq(Packet)
    BY <2>1, <2>2, TailFacts
  <2>4. TypeOK'
    BY <2>1, <2>2, <2>3 DEF TypeOK, senderVars, fileVars, loopVars
  <2> QED
    BY <2>1, <2>4, DropFirst DEF IInv
<1> QED
  BY <1>1, <1>2, <1>3 DEF TargetStep

-----------------------------------------------------------------------------
(* Steps of the line and of the file's other users.                        *)

LEMMA EnvironmentInvariance ==
  ASSUME IInv, Environment
  PROVE  IInv'
<1>1. TypeOK /\ SenderInv
  BY DEF IInv
<1>2. ASSUME Thinned, up' \in Seq(Byte), faults' \in [FaultKind -> Nat], hung' \in BOOLEAN,
             UNCHANGED <<senderVars, down, targetVars>>
      PROVE  IInv'
  <2>1. UNCHANGED <<pos, Acc, sequence, targetVars, down>> /\ Settled' = Settled
    BY <1>2 DEF senderVars, fileVars, loopVars, Acc, Settled
  <2>2. /\ TargetInv' /\ DownInv' /\ UpInv'
        /\ (\A i \in 1 .. Len(up) : ~LiveByte(i)) => \A i \in 1 .. Len(up') : ~LiveByte(i)'
    BY <1>2, <2>1, FrameStep
  <2>3. TypeOK'
    BY <1>1, <1>2 DEF TypeOK, senderVars, fileVars, loopVars, targetVars
  <2>4. SenderInv'
    BY <1>1, <1>2, <2>1, <2>2 DEF SenderInv, senderVars, fileVars, loopVars, targetVars
  <2> QED
    BY <2>2, <2>3, <2>4 DEF IInv
<1>3. up \in Seq(Byte) /\ FaultKind = FaultKind \cup {"corrupt", "drop", "hangup", "resize"}
  BY <1>1 DEF TypeOK, FaultKind
<1>4. CASE CorruptByte
  BY <1>1, <1>2, <1>3, <1>4, StrikesFacts, CorruptThins DEF CorruptByte, TypeOK
<1>5. CASE DropByte
  BY <1>1, <1>2, <1>3, <1>5, StrikesFacts, DropThins DEF DropByte, TypeOK
<1>6. CASE DropPacket
  <2>1. /\ down # <<>> /\ down' = Tail(down) /\ faults' \in [FaultKind -> Nat]
        /\ UNCHANGED <<senderVars, up, hung, targetVars>>
    BY <1>1, <1>3, <1>6, StrikesFacts DEF DropPacket
  <2>2. down' \in Seq(Packet)
    BY <1>1, <2>1, TailFacts
  <2>3. TypeOK'
    BY <1>1, <2>1, <2>2 DEF TypeOK, senderVars, fileVars, loopVars, targetVars
  <2> QED
    BY <2>1, <2>3, DropFirst DEF IInv, targetVars
<1>7. CASE HangUp
  <2>1. /\ up' = <<>> /\ hung' = TRUE /\ faults' \in [FaultKind -> Nat]
        /\ UNCHANGED <<senderVars, down, targetVars>>
    BY <1>1, <1>3, <1>7, StrikesFacts DEF HangUp
  <2>2. up' \in Seq(Byte) /\ Len(up') = Len(up) - Len(up) /\ Len(up) \in Nat
        /\ \A i \in 1 .. Len(up') : up'[i] = up[Len(up) + i]
    BY <1>3, <2>1
  <2>3. Thinned
    BY <1>3, <2>2, ReadThins
  <2> QED
    BY <1>2, <2>1, <2>2, <2>3
<1>8. CASE Resize
  <2>1. /\ fileLen' \in 0 .. Len(File) /\ faults' \in [FaultKind -> Nat]
        /\ UNCHANGED <<pc, ret, exit, file, pos, loopVars, down, up, hung, targetVars>>
    BY <1>1, <1>3, <1>8, StrikesFacts DEF Resize
  <2>2. TypeOK'
    BY <1>1, <2>1 DEF TypeOK, loopVars, targetVars
  <2>3. UNCHANGED <<pos, Acc, sequence, targetVars, down>> /\ Settled' = Settled
    BY <2>1 DEF loopVars, Acc, Settled
  <2>4. TargetInv' /\ DownInv' /\ UpInv'
    BY <1>3, <2>1, <2>3, SameThins, FrameStep
  <2>5. SenderInv'
    BY <1>1, <2>1, <2>3 DEF SenderInv, loopVars, targetVars, LiveByte
  <2> QED
    BY <2>2, <2>4, <2>5 DEF IInv
<1> QED
  BY <1>4, <1>5, <1>6, <1>7, <1>8 DEF Environment

-----------------------------------------------------------------------------
(* Steps of the sender.                                                    *)

\* Steps in which main or k_send_data moves on, or gives up, without touching
\* its place in the file.
LEMMA QuietStep ==
  ASSUME IInv,
         OpenPort \/ OpenPortFails \/ SendPacketFails \/ ClosePort \/ ClosePortFails
           \/ \E n \in 0 .. ReplyLen : Retry(n) \/ Unexpected(n)
  PROVE  IInv'
<1>1. TypeOK /\ SenderInv /\ up \in Seq(Byte) /\ Len(up) \in Nat
  BY DEF IInv, TypeOK
<1>2. ASSUME Thinned, up' \in Seq(Byte), Settled' => Settled, TypeOK', SenderInv',
             UNCHANGED <<fileVars, ori_size, size, sequence, down, targetVars>>
      PROVE  IInv'
  <2>1. UNCHANGED <<pos, Acc, sequence, targetVars, down>>
    BY <1>2 DEF fileVars, Acc
  <2> QED
    BY <1>2, <2>1, FrameStep DEF IInv
<1>3. CASE OpenPort
  <2>1. PICK n \in 0 .. Len(up) : up' = SubSeq(up, n + 1, Len(up))
    BY <1>3 DEF OpenPort
  <2>2. /\ pc = "open" /\ pc' = "size"
        /\ UNCHANGED <<ret, exit, fileVars, loopVars, down, hung, faults, targetVars>>
    BY <1>3 DEF OpenPort
  <2>3. up' \in Seq(Byte) /\ Len(up') = Len(up) - n /\ \A i \in 1 .. Len(up') : up'[i] = up[n + i]
    BY <1>1, <2>1, PartOfSeq
  <2>4. Thinned
    BY <1>1, <2>3, ReadThins
  <2>5. TypeOK'
    BY <1>1, <2>2, <2>3 DEF TypeOK, fileVars, loopVars, targetVars
  <2>6. ~Settled' /\ UNCHANGED <<pos, Acc, sequence, targetVars, down>>
    BY <2>2 DEF Settled, Acc, fileVars, loopVars
  <2>7. (\A i \in 1 .. Len(up) : ~LiveByte(i)) => \A i \in 1 .. Len(up') : ~LiveByte(i)'
    BY <2>3, <2>4, <2>6, FrameStep
  <2>8. SenderInv'
    BY <1>1, <2>2, <2>6, <2>7 DEF SenderInv, fileVars, loopVars, targetVars
  <2> QED
    BY <1>2, <2>2, <2>3, <2>4, <2>5, <2>6, <2>8 DEF loopVars
<1>4. CASE OpenPortFails \/ ClosePortFails \/ ClosePort \/ SendPacketFails
  <2>1. /\ UNCHANGED <<fileVars, loopVars, down, up, hung, targetVars>>
        /\ faults' \in [FaultKind -> Nat]
    BY <1>1, <1>4, StrikesFacts
       DEF OpenPortFails, ClosePortFails, ClosePort, SendPacketFails, FaultKind, TypeOK, lineVars
  <2>2. /\ pc' \in {"close", "exited"} /\ pc \in {"open", "send", "close"}
        /\ pc' = "close" => pc = "send" /\ ret' = -1 /\ exit' = exit
        /\ pc' = "exited" =>
             /\ ret' = ret
             /\ exit' = "failed" \/ (pc = "close" /\ exit' = "ok" /\ ret = 0)
    BY <1>4 DEF OpenPortFails, ClosePortFails, ClosePort, SendPacketFails
  <2>3. Settled' => Settled /\ pc = "close"
    BY <1>1, <2>2 DEF Settled, SenderInv
  <2>4. TypeOK'
    BY <1>1, <2>1, <2>2 DEF TypeOK, fileVars, loopVars, targetVars
  <2>5. SenderInv'
    BY <1>1, <2>1, <2>2, <2>3 DEF SenderInv, fileVars, loopVars, targetVars, Acc
  <2>6. Thinned /\ up' \in Seq(Byte)
    BY <1>1, <2>1, SameThins
  <2> QED
    BY <1>2, <2>1, <2>3, <2>4, <2>5, <2>6 DEF loopVars
<1>5. ASSUME NEW n \in 0 .. ReplyLen, Retry(n) \/ Unexpected(n)
      PROVE  IInv'
  <2>1. PICK v \in {"CHK_ERROR", "SEQ_ERROR", "NACK", "unexpected"} : ReadReply(n, v)
    BY <1>5 DEF Retry, Unexpected
  <2>2. /\ pc = "ack" /\ n <= Len(up) /\ up' \in Seq(Byte) /\ Len(up') = Len(up) - n
        /\ \A i \in 1 .. Len(up') : up'[i] = up[n + i]
        /\ faults' \in [FaultKind -> Nat]
    BY <1>1, <2>1, ReadFacts
  <2>3. Thinned
    BY <1>1, <2>2, ReadThins DEF ReplyLen
  <2>4. /\ UNCHANGED <<exit, fileVars, ori_size, size, buffer, sequence, down, hung, targetVars>>
        /\ \/ pc' = "send" /\ ret' = ret /\ retry' = retry + 1 /\ retry' # RETRY_MAX
           \/ pc' = "close" /\ ret' \in {-1, -3} /\ retry' \in {retry, RETRY_MAX}
    BY <1>5 DEF Retry, Unexpected, loopVars
  <2>5. ~Settled'
    BY <2>4 DEF Settled
  <2>6. retry' \in 0 .. RETRY_MAX /\ (pc' = "send" => retry' < RETRY_MAX)
    <3>1. retry \in 0 .. RETRY_MAX /\ retry < RETRY_MAX /\ RETRY_MAX \in Nat
      BY <1>1, <2>2, KermitAssumption DEF TypeOK, SenderInv
    <3>2. retry' \in {retry + 1, retry, RETRY_MAX}
      BY <2>4
    <3> QED
      BY <2>4, <3>1, <3>2
  <2>7. TypeOK'
    BY <1>1, <2>2, <2>4, <2>6 DEF TypeOK, fileVars, targetVars
  <2>8. SenderInv'
    BY <1>1, <2>2, <2>4, <2>5, <2>6 DEF SenderInv, fileVars, Acc
  <2> QED
    BY <1>2, <2>2, <2>3, <2>4, <2>5, <2>7, <2>8
<1> QED
  BY <1>3, <1>4, <1>5

\* Looking up and opening the file, before anything is on the line.
LEMMA StartStep ==
  ASSUME IInv, StartFile \/ StartFileFails
  PROVE  IInv'
<1>1. TypeOK /\ SenderInv /\ TargetInv
  BY DEF IInv
<1>2. /\ pc = "size" /\ ori_size = -1 /\ size = -1 /\ pos = 0 /\ Acc = 0
      /\ down = <<>> /\ last_n = -1 /\ exit = "running"
      /\ \A i \in 1 .. Len(up) : ~LiveByte(i)
  BY <1>1 DEF StartFile, StartFileFails, SenderInv, Acc
<1>3. /\ UNCHANGED <<exit, fileLen, buffer, sequence, retry, down, up, hung, targetVars>>
      /\ pos' = 0 /\ file' \in BOOLEAN /\ faults' \in [FaultKind -> Nat]
      /\ \/ ori_size' = -1 /\ size' = -1
         \/ ori_size' = fileLen /\ size' = fileLen
      /\ \/ pc' = "while" /\ ori_size' = fileLen /\ ret' = ret
         \/ pc' = "close" /\ ret' = -1
  BY <1>1, <1>2, StrikesFacts
     DEF StartFile, StartFileFails, fileVars, lineVars, FaultKind, TypeOK
<1>4. Acc' = 0 /\ fileLen \in Nat /\ sequence # -1
  BY <1>1, <1>3, KermitAssumption DEF TypeOK, Acc
<1>5. TypeOK'
  BY <1>1, <1>2, <1>3, KermitAssumption DEF TypeOK, targetVars
<1>6. SenderInv'
  BY <1>2, <1>3, <1>4 DEF SenderInv, Settled
<1>7. TargetInv'
  BY <1>1, <1>2, <1>3, <1>4 DEF TargetInv, targetVars
<1>8. DownInv' /\ UpInv'
  BY <1>2, <1>3 DEF DownInv, UpInv, LiveByte
<1> QED
  BY <1>5, <1>6, <1>7, <1>8 DEF IInv

\* A new packet is cut from the file where the last one ended.
LEMMA ReadChunkStep ==
  ASSUME IInv, ReadChunk
  PROVE  IInv'
<1> DEFINE left == IF pos < fileLen THEN fileLen - pos ELSE 0
           n == Lesser(Lesser(size, MAX_CHUNK), left)
<1>1. TypeOK /\ SenderInv /\ TargetInv /\ DownInv /\ UpInv
  BY DEF IInv
<1>2. /\ pc = "while" /\ size # 0 /\ pc' = "send" /\ retry' = 0
      /\ buffer' = SubSeq(File, pos + 1, pos + n) /\ pos' = pos + n
      /\ UNCHANGED <<ret, exit, file, fileLen, ori_size, size, sequence, lineVars, targetVars>>
  BY DEF ReadChunk
<1>3. /\ pos \in 0 .. Len(File) /\ pos = Acc /\ size \in Nat /\ ori_size \in Nat
      /\ ori_size - size = pos /\ File \in Seq(Nat) /\ fileLen \in 0 .. Len(File)
      /\ Len(File) \in Nat /\ ori_size # -1 /\ Settled
  BY <1>1, <1>2, KermitAssumption DEF TypeOK, SenderInv, Settled, Acc
<1>4. n \in 0 .. size /\ pos + n <= Len(File)
  <2>1. left \in Nat /\ pos + left <= (IF pos < fileLen THEN fileLen ELSE pos)
    BY <1>3
  <2> HIDE DEF left
  <2> QED
    BY <1>3, <2>1, KermitAssumption DEF Lesser
<1> HIDE DEF n
<1>5. /\ pos' \in pos .. Len(File) /\ pos' <= ori_size /\ pos + 1 \in Nat \ {0}
      /\ pos + n \in 0 .. Len(File)
  BY <1>2, <1>3, <1>4
<1>6. buffer' \in Seq(Nat) /\ buffer' = SubSeq(File, Acc + 1, pos')
  BY <1>2, <1>3, <1>5, PartOfSeq
<1>7. UNCHANGED <<Acc, down, up, hung, faults, target, checkpoint, last_n, done>> /\ ~Settled'
  BY <1>2 DEF lineVars, targetVars, Acc, Settled
<1>8. TypeOK'
  <2>1. pos' \in 0 .. Len(File) /\ retry' \in 0 .. RETRY_MAX
    BY <1>2, <1>3, <1>5, KermitAssumption
  <2>2. pc' = "send" /\ UNCHANGED <<ret, exit, file, fileLen, ori_size, size, sequence>>
    BY <1>2
  <2> QED
    BY <1>1, <1>6, <1>7, <2>1, <2>2 DEF TypeOK
<1>9. SenderInv'
  BY <1>1, <1>2, <1>3, <1>5, <1>6, <1>7, KermitAssumption DEF SenderInv
<1>10. TargetInv'
  BY <1>1, <1>2, <1>3, <1>7 DEF TargetInv
<1>11. DownInv'
  BY <1>1, <1>2, <1>3, <1>7 DEF DownInv, LivePacket
<1>12. UpInv'
  <2>1. \A i \in 1 .. Len(up) : LiveByte(i) => up[i].seq # sequence
    BY <1>1, <1>3 DEF UpInv
  <2> QED
    BY <1>1, <1>2, <1>7, <2>1 DEF UpInv, LiveByte
<1> QED
  BY <1>8, <1>9, <1>10, <1>11, <1>12 DEF IInv

\* Appending a packet to the line.
LEMMA AppendFacts ==
  ASSUME TypeOK, NEW p \in Packet, down' = Append(down, p)
  PROVE  /\ down' \in Seq(Packet)
         /\ Len(down) \in Nat /\ Len(down') = Len(down) + 1
         /\ \A i \in 1 .. Len(down') : down'[i] = IF i <= Len(down) THEN down[i] ELSE p
BY DEF TypeOK

LEMMA SendPacketStep ==
  ASSUME IInv, SendPacket
  PROVE  IInv'
<1> DEFINE p == Data(sequence, buffer)
<1>1. TypeOK /\ SenderInv /\ TargetInv /\ DownInv /\ UpInv
  BY DEF IInv
<1>2. /\ pc = "send" /\ pc' = "ack"
      /\ down' = IF hung THEN down ELSE Append(down, p)
      /\ UNCHANGED <<ret, exit, fileVars, loopVars, up, hung, faults, targetVars>>
  BY DEF SendPacket
<1>3. /\ UNCHANGED <<Acc, pos, sequence, up, last_n, target, checkpoint>>
      /\ ~Settled /\ ~Settled'
      /\ buffer = SubSeq(File, Acc + 1, pos)
  BY <1>1, <1>2 DEF fileVars, loopVars, targetVars, Acc, Settled, SenderInv
<1>4. /\ p \in Packet /\ p.type = "D" /\ p.seq = sequence
      /\ p.data = SubSeq(File, Acc + 1, pos)
  BY <1>1, <1>3 DEF Data, Packet, TypeOK
<1> HIDE DEF p
<1>5. \/ down' = down
      \/ /\ down' \in Seq(Packet) /\ Len(down) \in Nat /\ Len(down') = Len(down) + 1
         /\ \A i \in 1 .. Len(down') : down'[i] = IF i <= Len(down) THEN down[i] ELSE p
  BY <1>1, <1>2, <1>4, AppendFacts
<1>6. down' \in Seq(Packet) /\ Len(down) \in Nat /\ Len(down') \in Nat
  BY <1>1, <1>5 DEF TypeOK
<1>7. TypeOK'
  BY <1>1, <1>2, <1>6 DEF TypeOK, fileVars, loopVars, targetVars
<1>8. SenderInv'
  BY <1>1, <1>2, <1>3 DEF SenderInv, fileVars, loopVars
<1>9. TargetInv'
  BY <1>1, <1>3 DEF TargetInv
<1>10. ASSUME NEW i \in 1 .. Len(down'), LivePacket(i)'
       PROVE  \/ i \in 1 .. Len(down) /\ LivePacket(i) /\ down'[i] = down[i]
              \/ down'[i] = p
  BY <1>5, <1>6, <1>10 DEF LivePacket
<1>11. DownInv'
  <2>1. ASSUME NEW i \in 1 .. Len(down'), LivePacket(i)'
        PROVE  /\ down'[i].seq = sequence =>
                    /\ down'[i].data = SubSeq(File, Acc + 1, pos)
                    /\ \A j \in i .. Len(down') : LivePacket(j)' => down'[j].seq = sequence
               /\ down'[i].seq # sequence =>
                    /\ last_n = down'[i].seq
                    /\ down'[i].data = SubSeq(File, checkpoint + 1, Acc)
    <3>1. ASSUME down'[i].seq = sequence, NEW j \in i .. Len(down'), LivePacket(j)'
          PROVE  down'[j].seq = sequence
      <4>1. j \in 1 .. Len(down')
        BY <1>6
      <4>2. CASE down'[j] = p
        BY <1>4, <4>2
      <4>3. CASE down'[j] # p
        <5>1. j \in i .. Len(down) /\ LivePacket(j) /\ down'[j] = down[j] /\ i \in 1 .. Len(down)
          BY <1>6, <1>10, <3>1, <4>1, <4>3
        <5>2. down'[i] = down[i] /\ LivePacket(i)
          BY <1>5, <2>1, <5>1 DEF LivePacket
        <5> QED
          BY <1>1, <3>1, <5>1, <5>2 DEF DownInv
      <4> QED
        BY <4>2, <4>3
    <3>2. CASE down'[i] = p
      BY <1>4, <3>1, <3>2
    <3>3. CASE down'[i] # p
      <4>1. i \in 1 .. Len(down) /\ LivePacket(i) /\ down'[i] = down[i]
        BY <1>10, <2>1, <3>3
      <4> QED
        BY <1>1, <3>1, <4>1 DEF DownInv
    <3> QED
      BY <3>2, <3>3
  <2> QED
    BY <1>3, <2>1 DEF DownInv
<1>12. UpInv'
  <2>1. ASSUME NEW i \in 1 .. Len(up), LiveByte(i), up[i].seq = sequence,
               NEW j \in 1 .. Len(down'), LivePacket(j)'
        PROVE  down'[j].seq = sequence
    BY <1>1, <1>4, <1>10, <2>1 DEF UpInv
  <2> QED
    BY <1>1, <1>3, <2>1 DEF UpInv, LiveByte
<1> QED
  BY <1>7, <1>8, <1>9, <1>11, <1>12 DEF IInv

\* The end of transmission is no packet to be numbered or acknowledged.
LEMMA SendEtxStep ==
  ASSUME IInv, SendEtx
  PROVE  IInv'
<1>1. TypeOK /\ SenderInv /\ TargetInv /\ DownInv /\ UpInv
  BY DEF IInv
<1>2. /\ pc = "while" /\ size = 0 /\ pc' = "close" /\ ret' = 0 /\ file' = FALSE
      /\ down' = IF hung THEN down ELSE Append(down, Etx)
      /\ UNCHANGED <<exit, fileLen, pos, loopVars, up, hung, faults, targetVars>>
  BY DEF SendEtx
<1>3. /\ UNCHANGED <<Acc, pos, sequence, up, last_n, target, checkpoint>>
      /\ Settled /\ Settled'
  BY <1>1, <1>2 DEF loopVars, targetVars, Acc, Settled, SenderInv
<1>4. Etx \in Packet /\ Etx.type = "ETX"
  BY KermitAssumption DEF Etx, Packet
<1>5. \/ down' = down
      \/ /\ down' \in Seq(Packet) /\ Len(down) \in Nat /\ Len(down') = Len(down) + 1
         /\ \A i \in 1 .. Len(down') : down'[i] = IF i <= Len(down) THEN down[i] ELSE Etx
  BY <1>1, <1>2, <1>4, AppendFacts
<1>6. down' \in Seq(Packet) /\ Len(down) \in Nat /\ Len(down') \in Nat
  BY <1>1, <1>5 DEF TypeOK
<1>7. ASSUME NEW i \in 1 .. Len(down'), LivePacket(i)'
      PROVE  i \in 1 .. Len(down) /\ LivePacket(i) /\ down'[i] = down[i]
  BY <1>4, <1>5, <1>6, <1>7 DEF LivePacket
<1>8. TypeOK'
  BY <1>1, <1>2, <1>6 DEF TypeOK, loopVars, targetVars
<1>9. SenderInv'
  BY <1>1, <1>2, <1>3 DEF SenderInv, loopVars
<1>10. TargetInv'
  BY <1>1, <1>3 DEF TargetInv
<1>11. DownInv'
  BY <1>1, <1>3, <1>6, <1>7 DEF DownInv
<1>12. UpInv'
  BY <1>1, <1>3, <1>7 DEF UpInv, LiveByte
<1> QED
  BY <1>8, <1>9, <1>10, <1>11, <1>12 DEF IInv

LEMMA NextSeqFacts ==
  ASSUME NEW n \in 0 .. SEQ_MAX
  PROVE  NextSeq(n) \in 0 .. SEQ_MAX /\ NextSeq(n) # n
BY KermitAssumption DEF NextSeq

\* The ACK of the current packet: all of the line belongs to that packet, which
\* becomes the previous one.
LEMMA AckedStep ==
  ASSUME IInv, NEW n \in 0 .. ReplyLen, Acked(n)
  PROVE  IInv'
<1>1. TypeOK /\ SenderInv /\ TargetInv /\ DownInv /\ UpInv
  BY DEF IInv
<1>2. /\ ReadReply(n, "ACK") /\ sequence' = NextSeq(sequence) /\ size' = size - Len(buffer)
      /\ pc' = "while"
      /\ UNCHANGED <<ret, exit, fileVars, ori_size, buffer, retry, down, hung, targetVars>>
  BY DEF Acked
<1>3. /\ pc = "ack" /\ n \in Nat /\ n <= Len(up) /\ up' \in Seq(Byte)
      /\ Len(up) \in Nat /\ Len(up') = Len(up) - n
      /\ \A i \in 1 .. Len(up') : up'[i] = up[n + i]
      /\ faults' \in [FaultKind -> Nat]
      /\ \E i \in 1 .. n : up[i].kind = "ACK" /\ up[i].seq = sequence
  <2>1. n \in Nat /\ Len(up) \in Nat
    BY <1>1 DEF TypeOK, ReplyLen
  <2> QED
    BY <1>1, <1>2, <2>1, ReadFacts
<1>4. PICK k \in 1 .. n : up[k].kind = "ACK" /\ up[k].seq = sequence
  BY <1>3
<1>5. k \in 1 .. Len(up) /\ LiveByte(k)
  BY <1>3, <1>4 DEF LiveByte
<1>6. /\ last_n = sequence
      /\ \A j \in k .. Len(up) : LiveByte(j) => up[j].seq = sequence
      /\ \A j \in 1 .. Len(down) : LivePacket(j) => down[j].seq = sequence
  BY <1>1, <1>4, <1>5 DEF UpInv
<1>7. target = SubSeq(File, 1, pos) /\ checkpoint = Acc
  BY <1>1, <1>6 DEF TargetInv
<1>8. /\ Acc \in 0 .. pos /\ pos \in 0 .. Len(File) /\ buffer = SubSeq(File, Acc + 1, pos)
      /\ size \in Nat /\ ori_size \in Nat /\ ori_size <= Len(File) /\ pos <= ori_size
      /\ File \in Seq(Nat) /\ Len(File) \in Nat /\ Acc = ori_size - size
      /\ sequence \in 0 .. SEQ_MAX
  <2>1. Acc \in 0 .. pos /\ pos \in 0 .. Len(File) /\ File \in Seq(Nat) /\ Len(File) \in Nat
    BY FileFacts
  <2>2. /\ buffer = SubSeq(File, Acc + 1, pos) /\ ori_size # -1 /\ size \in Nat
        /\ pos <= ori_size
    BY <1>1, <1>3 DEF SenderInv
  <2>3. ori_size \in -1 .. Len(File) /\ sequence \in 0 .. SEQ_MAX
    BY <1>1 DEF TypeOK
  <2> QED
    BY <2>1, <2>2, <2>3 DEF Acc
<1>9. Len(buffer) = pos - Acc
  <2>1. Acc + 1 \in Nat \ {0}
    BY <1>8
  <2> QED
    BY <1>8, <2>1, PartOfSeq
<1>10. /\ size' \in Nat /\ size' <= Len(File) /\ Acc' = pos
  BY <1>2, <1>8, <1>9 DEF Acc
<1>11. sequence' \in 0 .. SEQ_MAX /\ sequence' # sequence
  BY <1>2, <1>8, NextSeqFacts
<1>12. UNCHANGED <<pos, ret, exit, file, fileLen, ori_size, buffer, retry, down, hung,
                   target, checkpoint, last_n, done>>
  BY <1>2 DEF fileVars, targetVars
<1>13. TypeOK'
  <2>1. size' \in -1 .. Len(File)
    BY <1>8, <1>10
  <2> QED
    BY <1>1, <1>2, <1>3, <1>11, <1>12, <2>1 DEF TypeOK
<1>14. SenderInv'
  <2>1. Acc' \in Nat /\ Acc' <= pos' /\ size' \in Nat /\ pos' <= ori_size'
    BY <1>8, <1>10, <1>12
  <2>2. ori_size' # -1
    BY <1>8, <1>12
  <2>3. exit' = "running"
    BY <1>1, <1>3, <1>12 DEF SenderInv
  <2> QED
    BY <1>2, <1>10, <1>12, <2>1, <2>2, <2>3 DEF SenderInv, Settled
<1>15. TargetInv'
  BY <1>2, <1>6, <1>7, <1>8, <1>10, <1>11, <1>12 DEF TargetInv
<1>16. DownInv'
  BY <1>1, <1>6, <1>7, <1>10, <1>11, <1>12 DEF DownInv, LivePacket
<1>17. UpInv'
  <2>1. ASSUME NEW i \in 1 .. Len(up'), LiveByte(i)'
        PROVE  up'[i].seq = sequence
    <3>1. n + i \in k .. Len(up) /\ up'[i] = up[n + i] /\ LiveByte(n + i)
      BY <1>3, <1>4, <2>1 DEF LiveByte
    <3> QED
      BY <1>6, <3>1
  <2> QED
    BY <1>2, <1>11, <2>1 DEF UpInv
<1> QED
  BY <1>13, <1>14, <1>15, <1>16, <1>17 DEF IInv

-----------------------------------------------------------------------------
(* The theorems.                                                           *)

LEMMA InitIInv == Init => IInv
<1> SUFFICES ASSUME Init PROVE IInv
  OBVIOUS
<1>1. PICK m \in 0 .. MaxFaults["noise"] :
        /\ up = [i \in 1 .. m |-> Garbage]
        /\ faults = [k \in FaultKind |-> IF k = "noise" THEN m ELSE 0]
  BY DEF Init
<1>2. m \in Nat
  BY KermitAssumption DEF FaultKind
<1>3. Garbage \in Byte /\ Garbage.kind = "noise"
  BY KermitAssumption DEF Garbage, Byte, ReplyLen
<1>4. up \in Seq(Byte) /\ Len(up) = m /\ \A i \in 1 .. Len(up) : ~LiveByte(i)
  BY <1>1, <1>2, <1>3 DEF LiveByte
<1>5. faults \in [FaultKind -> Nat]
  BY <1>1, <1>2
<1>6. SubSeq(File, 1, 0) = <<>> /\ Len(File) \in Nat
  BY KermitAssumption
<1>7. TypeOK
  <2>1. /\ pc = "open" /\ ret = 0 /\ exit = "running" /\ file = FALSE /\ hung = FALSE
        /\ done = FALSE /\ checkpoint = 0 /\ last_n = -1 /\ sequence = 0 /\ retry = 0
        /\ fileLen = Len(File) /\ pos = 0 /\ ori_size = -1 /\ size = -1
        /\ buffer = <<>> /\ target = <<>> /\ down = <<>>
    BY DEF Init
  <2>2. /\ fileLen \in 0 .. Len(File) /\ pos \in 0 .. Len(File) /\ ori_size \in -1 .. Len(File)
        /\ size \in -1 .. Len(File) /\ sequence \in 0 .. SEQ_MAX /\ retry \in 0 .. RETRY_MAX
        /\ last_n \in -1 .. SEQ_MAX
    BY <1>6, <2>1, KermitAssumption
  <2>3. buffer \in Seq(Nat) /\ target \in Seq(Nat) /\ down \in Seq(Packet)
    BY <2>1
  <2> QED
    BY <1>4, <1>5, <2>1, <2>2, <2>3 DEF TypeOK
<1>8. SenderInv
  BY <1>4 DEF Init, SenderInv, Settled, Acc
<1>9. TargetInv
  BY <1>6 DEF Init, TargetInv, Acc
<1>10. DownInv /\ UpInv
  <2>1. down = <<>>
    BY DEF Init
  <2> QED
    BY <1>4, <2>1 DEF DownInv, UpInv
<1> QED
  BY <1>7, <1>8, <1>9, <1>10 DEF IInv

LEMMA StutterStep ==
  ASSUME IInv, UNCHANGED vars
  PROVE  IInv'
<1>1. /\ UNCHANGED <<pos, Acc, sequence, targetVars, down, up>> /\ Settled' = Settled
      /\ TypeOK /\ SenderInv /\ up \in Seq(Byte)
  BY DEF IInv, TypeOK, vars, senderVars, lineVars, fileVars, loopVars, Acc, Settled
<1>2. TargetInv' /\ DownInv' /\ UpInv'
  BY <1>1, SameThins, FrameStep
<1>3. TypeOK'
  BY <1>1 DEF TypeOK, vars, senderVars, lineVars, fileVars, loopVars, targetVars
<1>4. SenderInv'
  BY <1>1 DEF SenderInv, vars, senderVars, lineVars, fileVars, loopVars, targetVars, LiveByte
<1> QED
  BY <1>2, <1>3, <1>4 DEF IInv

LEMMA NextIInv == IInv /\ [Next]_vars => IInv'
<1> SUFFICES ASSUME IInv, [Next]_vars PROVE IInv'
  OBVIOUS
<1>1. CASE SenderStep
  <2>1. CASE OpenPort \/ ClosePort
    BY <2>1, QuietStep
  <2>2. CASE StartFile
    BY <2>2, StartStep
  <2>3. CASE ReadChunk
    BY <2>3, ReadChunkStep
  <2>4. CASE SendPacket
    BY <2>4, SendPacketStep
  <2>5. CASE GetReply
    BY <2>5, AckedStep, QuietStep DEF GetReply
  <2>6. CASE SendEtx
    BY <2>6, SendEtxStep
  <2> QED
    BY <1>1, <2>1, <2>2, <2>3, <2>4, <2>5, <2>6 DEF SenderStep
<1>2. CASE SenderFails
  BY <1>2, QuietStep, StartStep DEF SenderFails
<1>3. CASE TargetStep
  BY <1>3, TargetInvariance
<1>4. CASE Environment
  BY <1>4, EnvironmentInvariance
<1>5. CASE Over \/ UNCHANGED vars
  BY <1>5, StutterStep DEF Over
<1> QED
  BY <1>1, <1>2, <1>3, <1>4, <1>5 DEF Next

(* The inductive invariant holds in every reachable state.                 *)
THEOREM Invariance == Spec => []IInv
<1>1. Init => IInv
  BY InitIInv
<1>2. IInv /\ [Next]_vars => IInv'
  BY NextIInv
<1> QED
  BY <1>1, <1>2, PTL DEF Spec

(* The variables keep their types.                                         *)
THEOREM TypeCorrect == Spec => []TypeOK
<1>1. IInv => TypeOK
  BY DEF IInv
<1> QED
  BY <1>1, Invariance, PTL

(* What the sender has ticked off is stored at the target, in order.       *)
THEOREM AckedStored == Spec => []AckedIsStored
<1>1. ASSUME IInv PROVE AckedIsStored
  <2>1. PICK b \in {Acc, pos} : target = SubSeq(File, 1, b)
    BY <1>1 DEF IInv, TargetInv
  <2>2. b \in 0 .. Len(File) /\ Acc <= b /\ Len(target) = b
    BY <1>1, <2>1, FileFacts
  <2> QED
    BY <2>1, <2>2 DEF AckedIsStored, Acc
<1> QED
  BY <1>1, Invariance, PTL

(* k_send_data returns 0 only when the target holds the whole file.        *)
THEOREM SuccessWhole == Spec => []SuccessMeansWhole
<1>1. ASSUME IInv PROVE SuccessMeansWhole
  BY <1>1 DEF IInv, SenderInv, TargetInv, TypeOK, SuccessMeansWhole, Settled, Acc
<1> QED
  BY <1>1, Invariance, PTL

(* Only the current and the previous number are live on the line, the      *)
(* previous one first, so a number may be reused after the roll-over.      *)
THEOREM OnlyTwoNumbers == Spec => []LineWindow
<1>1. ASSUME IInv PROVE LineWindow
  <2>1. /\ TypeOK /\ TargetInv /\ DownInv /\ UpInv
        /\ Len(up) \in Nat /\ Len(down) \in Nat
    BY <1>1 DEF IInv, TypeOK
  <2> DEFINE u == [i \in 1 .. Len(up) |-> up[i].seq]
             d == [i \in 1 .. Len(down) |-> down[i].seq]
  <2>2. ASSUME NEW i \in 1 .. Len(up) + Len(down)
        PROVE  Numbers[i] = IF i <= Len(up) THEN up[i].seq ELSE down[i - Len(up)].seq
    <3>1. u \in Seq(Nat) /\ Len(u) = Len(up) /\ d \in Seq(Nat) /\ Len(d) = Len(down)
      <4>0. up \in Seq(Byte) /\ down \in Seq(Packet)
        BY <2>1 DEF TypeOK
      <4>1. /\ \A j \in 1 .. Len(up) : up[j].seq \in Nat
            /\ \A j \in 1 .. Len(down) : down[j].seq \in Nat
        <5>1. \A j \in 1 .. Len(up) : up[j] \in Byte
          BY <2>1, <4>0
        <5>2. \A j \in 1 .. Len(down) : down[j] \in Packet
          BY <2>1, <4>0
        <5> QED
          BY <5>1, <5>2, KermitAssumption DEF Packet, Byte
      <4> QED
        BY <2>1, <4>1
    <3>2. (u \o d)[i] = IF i <= Len(u) THEN u[i] ELSE d[i - Len(u)]
      <4> HIDE DEF u, d
      <4> QED
        BY <2>1, <3>1, ConcatProperties
    <3>3. Numbers = u \o d
      BY DEF Numbers
    <3>4. CASE i <= Len(up)
      BY <2>1, <3>1, <3>2, <3>3, <3>4
    <3>5. CASE ~(i <= Len(up))
      <4>1. i - Len(up) \in 1 .. Len(down)
        BY <2>1, <3>5
      <4> QED
        BY <3>1, <3>2, <3>3, <3>5, <4>1
    <3> QED
      BY <3>4, <3>5
  <2> HIDE DEF u, d
  <2>3. ASSUME NEW i \in 1 .. Len(up) + Len(down), Live(i), Numbers[i] # sequence
        PROVE  NextSeq(Numbers[i]) = sequence
    <3>1. CASE i <= Len(up)
      BY <2>1, <2>2, <2>3, <3>1 DEF Live, LiveByte, UpInv
    <3>2. CASE ~(i <= Len(up))
      <4>1. /\ i - Len(up) \in 1 .. Len(down) /\ LivePacket(i - Len(up))
            /\ Numbers[i] = down[i - Len(up)].seq
        BY <2>1, <2>2, <2>3, <3>2 DEF Live, LivePacket
      <4>2. down[i - Len(up)].seq # -1
        <5>1. down \in Seq(Packet)
          BY <2>1 DEF TypeOK
        <5>2. down[i - Len(up)] \in Packet
          BY <4>1, <5>1
        <5> QED
          BY <5>2, KermitAssumption DEF Packet
      <4> QED
        BY <2>1, <2>3, <4>1, <4>2 DEF DownInv, TargetInv
    <3> QED
      BY <3>1, <3>2
  <2>4. ASSUME NEW i \in 1 .. Len(up) + Len(down), NEW j \in 1 .. Len(up) + Len(down),
               Live(i), Live(j), i < j, Numbers[i] = sequence
        PROVE  Numbers[j] = sequence
    <3>1. CASE j <= Len(up)
      <4>1. i \in 1 .. Len(up) /\ j \in i .. Len(up) /\ LiveByte(i) /\ LiveByte(j)
        BY <2>1, <2>4, <3>1 DEF Live, LiveByte
      <4> QED
        BY <2>1, <2>2, <2>4, <3>1, <4>1 DEF UpInv
    <3>2. CASE ~(j <= Len(up))
      <4>1. /\ j - Len(up) \in 1 .. Len(down) /\ LivePacket(j - Len(up))
            /\ Numbers[j] = down[j - Len(up)].seq
        BY <2>1, <2>2, <2>4, <3>2 DEF Live, LivePacket
      <4>2. CASE i <= Len(up)
        <5>1. i \in 1 .. Len(up) /\ LiveByte(i) /\ up[i].seq = sequence
          BY <2>1, <2>2, <2>4, <4>2 DEF Live, LiveByte
        <5> QED
          BY <2>1, <4>1, <5>1 DEF UpInv
      <4>3. CASE ~(i <= Len(up))
        <5>1. /\ i - Len(up) \in 1 .. Len(down) /\ LivePacket(i - Len(up))
              /\ down[i - Len(up)].seq = sequence
              /\ j - Len(up) \in i - Len(up) .. Len(down)
          BY <2>1, <2>2, <2>4, <4>1, <4>3 DEF Live, LivePacket
        <5> QED
          BY <2>1, <4>1, <5>1 DEF DownInv
      <4> QED
        BY <4>2, <4>3
    <3> QED
      BY <3>1, <3>2
  <2> QED
    BY <2>3, <2>4 DEF LineWindow
<1> QED
  BY <1>1, Invariance, PTL

-----------------------------------------------------------------------------
(* The balance of packets written and bytes read.                          *)

LEMMA BalanceStep == IInv /\ BalanceInv /\ [Next]_vars => BalanceInv'
<1> SUFFICES ASSUME IInv, BalanceInv, [Next]_vars PROVE BalanceInv'
  OBVIOUS
<1> DEFINE NoEtx == \A i \in 1 .. Len(down) : down[i].type # "ETX"
<1>1. /\ TypeOK /\ Len(up) \in Nat /\ Len(down) \in Nat /\ ReplyLen = 6
      /\ up \in Seq(Byte) /\ faults["drop"] \in Nat
  <2>1. TypeOK
    BY DEF IInv
  <2>2. /\ up \in Seq(Byte) /\ down \in Seq(Packet)
        /\ faults \in [FaultKind -> Nat]
    BY <2>1 DEF TypeOK
  <2> QED
    BY <2>1, <2>2 DEF ReplyLen, FaultKind
<1>2. pc \notin {"close", "exited"} => NoEtx
  BY DEF BalanceInv
<1>3. ASSUME pc' # "ack", UNCHANGED down, pc \in {"close", "exited"} => pc' \in {"close", "exited"}
      PROVE  BalanceInv'
  BY <1>3 DEF BalanceInv, NoStarvation
<1>4. CASE SenderStep
  <2>1. CASE OpenPort \/ StartFile \/ ReadChunk \/ ClosePort
    BY <1>3, <2>1 DEF OpenPort, StartFile, ReadChunk, ClosePort, lineVars
  <2>2. CASE GetReply
    BY <1>3, <2>2 DEF GetReply, Acked, Retry, Unexpected, ReadReply
  <2>3. CASE SendEtx
    BY <2>3 DEF SendEtx, BalanceInv, NoStarvation
  <2>4. CASE SendPacket
    <3> DEFINE p == Data(sequence, buffer)
    <3>1. /\ pc = "send" /\ pc' = "ack" /\ UNCHANGED <<up, hung, faults>>
          /\ down' = IF hung THEN down ELSE Append(down, p)
      BY <2>4 DEF SendPacket
    <3>2. p \in Packet /\ p.type = "D"
      BY <1>1 DEF Data, Packet, TypeOK
    <3> HIDE DEF p
    <3>3. CASE hung
      BY <1>2, <3>1, <3>3 DEF BalanceInv, NoStarvation
    <3>4. CASE ~hung
      <4>1. /\ Len(down') = Len(down) + 1
            /\ \A i \in 1 .. Len(down') : down'[i] = IF i <= Len(down) THEN down[i] ELSE p
        BY <1>1, <3>1, <3>2, <3>4, AppendFacts
      <4>2. \A i \in 1 .. Len(down') : down'[i].type # "ETX"
        BY <1>1, <1>2, <3>1, <3>2, <4>1
      <4>3. InFlight' >= ReplyLen
        BY <1>1, <3>1, <4>1 DEF InFlight
      <4> QED
        BY <4>2, <4>3 DEF BalanceInv, NoStarvation
    <3> QED
      BY <3>3, <3>4
  <2> QED
    BY <1>4, <2>1, <2>2, <2>3, <2>4 DEF SenderStep
<1>5. CASE SenderFails
  BY <1>3, <1>5
     DEF SenderFails, OpenPortFails, StartFileFails, SendPacketFails, ClosePortFails
<1>6. CASE TargetStep
  <2>1. /\ down # <<>> /\ down' = Tail(down) /\ UNCHANGED <<pc, hung>>
    BY <1>6 DEF TargetStep, AcceptPacket, RefusePacket, AcceptEtx, senderVars
  <2>2. /\ Len(down') = Len(down) - 1 /\ \A i \in 1 .. Len(down') : down'[i] = down[i + 1]
        /\ Head(down) = down[1] /\ down[1] \in Packet /\ Len(down) \in Nat \ {0}
    BY <1>1, <2>1, TailFacts
  <2>3. \A i \in 1 .. Len(down') : down'[i].type = "ETX" => pc' \in {"close", "exited"}
    BY <1>1, <2>1, <2>2 DEF BalanceInv
  <2>4. CASE AcceptEtx
    <3>1. pc \in {"close", "exited"}
      BY <2>2, <2>4 DEF AcceptEtx, BalanceInv
    <3> QED
      BY <2>1, <2>3, <3>1 DEF BalanceInv, NoStarvation
  <2>5. CASE AcceptPacket \/ RefusePacket
    <3>1. /\ \E k \in {"ACK", "NAK", "other"} : Answer(k, Head(down).seq)
          /\ Head(down).seq \in 0 .. SEQ_MAX
      BY <2>2, <2>5 DEF AcceptPacket, RefusePacket, Packet
    <3>2. ~hung => Len(up') = Len(up) + ReplyLen
      BY <1>1, <3>1, AnswerFacts
    <3>3. faults'["drop"] = faults["drop"]
      <4>1. CASE AcceptPacket
        BY <4>1 DEF AcceptPacket
      <4>2. CASE RefusePacket
        BY <1>1, <4>2, StrikesFacts DEF RefusePacket, FaultKind
      <4> QED
        BY <2>5, <4>1, <4>2
    <3>4. ~hung => InFlight' = InFlight
      <4>1. /\ Len(up) \in Nat /\ Len(down) \in Nat /\ Len(down') = Len(down) - 1
            /\ ~hung => Len(up') = Len(up) + 6
        BY <1>1, <2>2, <3>2
      <4>2. InFlight = Len(up) + 6 * Len(down) /\ InFlight' = Len(up') + 6 * Len(down')
        BY DEF InFlight, ReplyLen
      <4> QED
        BY <4>1, <4>2
    <3> QED
      BY <2>1, <2>3, <3>3, <3>4 DEF BalanceInv, NoStarvation
  <2> QED
    BY <1>6, <2>4, <2>5 DEF TargetStep
<1>7. CASE Environment
  <2>1. UNCHANGED pc
    BY <1>7 DEF Environment, CorruptByte, DropByte, DropPacket, HangUp, Resize, senderVars
  <2>2. CASE CorruptByte
    <3>1. Len(up') = Len(up) /\ UNCHANGED <<down, hung>> /\ faults'["drop"] = faults["drop"]
      BY <1>1, <2>2, CorruptThins, StrikesFacts DEF CorruptByte, FaultKind
    <3> QED
      BY <2>1, <3>1 DEF BalanceInv, NoStarvation, InFlight
  <2>3. CASE DropByte
    <3>1. UNCHANGED down /\ faults'["drop"] # 0
      BY <1>1, <2>3, StrikesFacts DEF DropByte, FaultKind
    <3> QED
      BY <2>1, <3>1 DEF BalanceInv, NoStarvation
  <2>4. CASE DropPacket
    <3>1. down # <<>> /\ down' = Tail(down) /\ faults'["drop"] # 0
      BY <1>1, <2>4, StrikesFacts DEF DropPacket, FaultKind
    <3>2. \A i \in 1 .. Len(down') : i + 1 \in 1 .. Len(down) /\ down'[i] = down[i + 1]
      BY <1>1, <3>1, TailFacts
    <3> QED
      BY <2>1, <3>1, <3>2 DEF BalanceInv, NoStarvation
  <2>5. CASE HangUp
    BY <2>1, <2>5 DEF HangUp, BalanceInv, NoStarvation
  <2>6. CASE Resize
    <3>1. UNCHANGED <<down, up, hung>> /\ faults'["drop"] = faults["drop"]
      BY <1>1, <2>6, StrikesFacts DEF Resize, FaultKind
    <3> QED
      BY <2>1, <3>1 DEF BalanceInv, NoStarvation, InFlight
  <2> QED
    BY <1>7, <2>2, <2>3, <2>4, <2>5, <2>6 DEF Environment
<1>8. CASE Over \/ UNCHANGED vars
  BY <1>8 DEF Over, vars, senderVars, lineVars, BalanceInv, NoStarvation, InFlight
<1> QED
  BY <1>4, <1>5, <1>6, <1>7, <1>8 DEF Next

(* The read that waits for a reply is not starved unless something is lost. *)
THEOREM NeverStarved == Spec => []NoStarvation
<1>1. Init => BalanceInv
  BY DEF Init, BalanceInv, NoStarvation
<1>2. IInv /\ BalanceInv /\ [Next]_vars => BalanceInv'
  BY BalanceStep
<1>3. BalanceInv => NoStarvation
  BY DEF BalanceInv
<1> QED
  BY <1>1, <1>2, <1>3, Invariance, PTL DEF Spec

-----------------------------------------------------------------------------
(* Damage alone is repaired.                                               *)

\* A step counts at most one fault, and none is ever taken back.
LEMMA FaultStep ==
  ASSUME TypeOK, [Next]_vars
  PROVE  /\ (UNCHANGED faults) \/ \E k \in FaultKind : Strikes(k)
         /\ Undisturbed' => Undisturbed
<1>1. (UNCHANGED faults) \/ \E k \in FaultKind : Strikes(k)
  <2>1. CASE SenderStep
    <3>1. CASE GetReply
      <4>1. PICK n \in 0 .. ReplyLen, v \in {"ACK", "CHK_ERROR", "SEQ_ERROR", "NACK", "unexpected"} :
              ReadReply(n, v)
        BY <3>1 DEF GetReply, Acked, Retry, Unexpected
      <4> QED
        BY <4>1 DEF ReadReply, Arrives, FaultKind
    <3> QED
      BY <2>1, <3>1
         DEF SenderStep, OpenPort, StartFile, ReadChunk, SendPacket, SendEtx, ClosePort, lineVars
  <2>2. CASE SenderFails
    BY <2>2 DEF SenderFails, OpenPortFails, StartFileFails, SendPacketFails, ClosePortFails, FaultKind
  <2>3. CASE TargetStep
    BY <2>3 DEF TargetStep, AcceptPacket, RefusePacket, AcceptEtx, FaultKind
  <2>4. CASE Environment
    BY <2>4 DEF Environment, CorruptByte, DropByte, DropPacket, HangUp, Resize, FaultKind
  <2>5. CASE Over \/ UNCHANGED vars
    BY <2>5 DEF Over, vars, lineVars
  <2> QED
    BY <2>1, <2>2, <2>3, <2>4, <2>5 DEF Next
<1>2. ASSUME Undisturbed', NEW j \in FaultKind \ {"corrupt"}
      PROVE  faults[j] = 0
  <2>1. faults'[j] = 0 /\ faults[j] \in Nat
    BY <1>2 DEF Undisturbed, TypeOK
  <2>2. CASE UNCHANGED faults
    BY <2>1, <2>2
  <2>3. ASSUME NEW k \in FaultKind, Strikes(k)
        PROVE  faults[j] = 0
    BY <2>1, <2>3, StrikesFacts
  <2> QED
    BY <1>1, <2>2, <2>3
<1> QED
  BY <1>1, <1>2 DEF Undisturbed

\* Undisturbed, a kind of fault other than damage cannot strike.
LEMMA OnlyDamage ==
  ASSUME TypeOK, Undisturbed', NEW k \in FaultKind, Strikes(k)
  PROVE  k = "corrupt" /\ faults'["corrupt"] = faults["corrupt"] + 1
<1>1. faults'[k] = faults[k] + 1 /\ faults[k] \in Nat
  BY StrikesFacts DEF TypeOK
<1> QED
  BY <1>1 DEF Undisturbed

\* A reply as it was sent is judged to be what it is.
LEMMA PristineAck ==
  ASSUME NEW n \in 0 .. SEQ_MAX
  PROVE  AckType(Reply("ACK", n), n) = "ACK"
<1> DEFINE r == Reply("ACK", n)
<1>1. Len(r) = 6 /\ \A i \in 1 .. 6 : r[i] = [kind |-> "ACK", seq |-> n, at |-> i]
  BY ReplyFacts DEF ReplyLen
<1> HIDE DEF r
<1>2. ChecksumOK(r) /\ r[3].seq = n /\ r[4].kind = "ACK"
  BY <1>1 DEF ChecksumOK
<1> QED
  BY <1>2 DEF AckType, r

\* Undisturbed, a read takes the whole reply and nothing is left on the line.
LEMMA WholeRead ==
  ASSUME TypeOK, InStep, Undisturbed', NEW n \in 0 .. ReplyLen, NEW v, ReadReply(n, v)
  PROVE  /\ pc = "ack" /\ down = <<>> /\ up' = <<>> /\ UNCHANGED faults
         /\ AckType(up, sequence) = v
         /\ up # <<>> /\ Len(up) = ReplyLen
         /\ \A i \in 1 .. ReplyLen : up[i] = Garbage \/ up[i].kind \in {"ACK", "NAK"}
<1>1. up \in Seq(Byte) /\ Len(up) \in Nat /\ ReplyLen = 6 /\ n \in 0 .. 6
  BY DEF TypeOK, ReplyLen
<1>2. pc = "ack" /\ up' = SubSeq(up, n + 1, Len(up)) /\ AckType(SubSeq(up, 1, n), sequence) = v
  BY DEF ReadReply
<1>3. ~Strikes("gap")
  BY OnlyDamage DEF FaultKind
<1>4. n <= Len(up) /\ n # 0 /\ (n = 6 \/ n = Len(up)) /\ UNCHANGED faults
  BY <1>1, <1>3 DEF ReadReply, Arrives, InStep
<1>5. /\ down = <<>> /\ Len(up) = 6 /\ n = 6
      /\ \A i \in 1 .. 6 : up[i] = Garbage \/ up[i].kind \in {"ACK", "NAK"}
  <2>1. up # <<>>
    BY <1>1, <1>4
  <2> QED
    BY <1>1, <1>2, <1>4, <2>1 DEF InStep
<1>6. up' = <<>> /\ up # <<>>
  <2>1. up' \in Seq(Byte) /\ Len(up') = 0
    <3>1. n + 1 \in Nat \ {0} /\ Len(up) \in 0 .. Len(up) /\ ~(n + 1 <= Len(up))
      BY <1>1, <1>5
    <3> QED
      BY <1>1, <1>2, <3>1, PartOfSeq
  <2>2. up # <<>>
    BY <1>5
  <2> QED
    BY <2>1, <2>2
<1>7. SubSeq(up, 1, n) = up
  <2> DEFINE p == SubSeq(up, 1, n)
  <2>1. p \in Seq(Byte) /\ Len(p) = 6 /\ \A i \in 1 .. 6 : p[i] = up[i]
    <3>1. 6 \in 0 .. Len(up) /\ 1 \in Nat \ {0}
      BY <1>5
    <3>2. /\ SubSeq(up, 1, 6) \in Seq(Byte) /\ Len(SubSeq(up, 1, 6)) = 6
          /\ \A i \in 1 .. 6 : SubSeq(up, 1, 6)[i] = up[i]
      BY <1>1, <3>1, PartOfSeq
    <3> QED
      BY <1>5, <3>2
  <2> HIDE DEF p
  <2>2. p = up
    BY <1>1, <1>5, <2>1, SeqEqual
  <2> QED
    BY <2>2 DEF p
<1> QED
  BY <1>1, <1>2, <1>4, <1>5, <1>6, <1>7

\* Reading a reply: a failure counted is one that was paid for.
LEMMA RepairRead ==
  ASSUME IInv, InStep, Charged, Undisturbed', GetReply
  PROVE  InStep' /\ Charged'
<1>1. /\ TypeOK /\ retry \in Nat /\ faults["corrupt"] \in Nat /\ RETRY_MAX \in Nat
      /\ sequence \in 0 .. SEQ_MAX
  <2>1. TypeOK /\ SenderInv
    BY DEF IInv
  <2>2. retry \in 0 .. RETRY_MAX /\ faults \in [FaultKind -> Nat] /\ "corrupt" \in FaultKind
    BY <2>1 DEF TypeOK, FaultKind
  <2> QED
    BY <2>1, <2>2, KermitAssumption DEF TypeOK
<1>2. ASSUME NEW n \in 0 .. ReplyLen, Acked(n)
      PROVE  InStep' /\ Charged'
  <2>1. ReadReply(n, "ACK") /\ pc' = "while" /\ UNCHANGED <<retry, down, hung>>
    BY <1>2 DEF Acked
  <2>2. down = <<>> /\ up' = <<>> /\ UNCHANGED faults
    BY <1>1, <2>1, WholeRead
  <2> QED
    BY <1>1, <2>1, <2>2 DEF InStep, Charged
<1>3. ASSUME NEW n \in 0 .. ReplyLen, Retry(n)
      PROVE  InStep' /\ Charged'
  <2>1. PICK v \in {"CHK_ERROR", "SEQ_ERROR", "NACK"} : ReadReply(n, v)
    BY <1>3 DEF Retry
  <2>2. /\ retry' = retry + 1 /\ UNCHANGED <<exit, down, hung>>
        /\ \/ retry' = RETRY_MAX /\ pc' = "close"
           \/ pc' = "send"
    BY <1>3 DEF Retry
  <2>3. /\ pc = "ack" /\ down = <<>> /\ up' = <<>> /\ up # <<>> /\ UNCHANGED faults
        /\ AckType(up, sequence) = v
    BY <1>1, <2>1, WholeRead
  <2>4. up # Reply("ACK", sequence)
    BY <1>1, <2>3, PristineAck
  <2>5. retry < faults["corrupt"]
    BY <2>3, <2>4 DEF Charged
  <2>6. retry' <= faults'["corrupt"] /\ (pc' = "close" => RETRY_MAX <= faults'["corrupt"])
    BY <1>1, <2>2, <2>3, <2>5
  <2> QED
    BY <2>2, <2>3, <2>6 DEF InStep, Charged
<1>4. ASSUME NEW n \in 0 .. ReplyLen, Unexpected(n)
      PROVE  FALSE
  <2>1. /\ AckType(up, sequence) = "unexpected"
        /\ \A i \in 1 .. ReplyLen : up[i] = Garbage \/ up[i].kind \in {"ACK", "NAK"}
    BY <1>1, <1>4, WholeRead DEF Unexpected
  <2>2. ChecksumOK(up) /\ up[4].kind # "NAK" /\ up[4].kind # "ACK"
    BY <2>1 DEF AckType
  <2>3. up[4].at = 4 /\ up[4] = Garbage
    BY <2>1, <2>2 DEF ChecksumOK, ReplyLen
  <2> QED
    BY <2>3 DEF Garbage
<1> QED
  BY <1>2, <1>3, <1>4 DEF GetReply

LEMMA RepairStep == IInv /\ BalanceInv /\ RepairInv /\ [Next]_vars => RepairInv'
<1> SUFFICES ASSUME IInv, BalanceInv, RepairInv, [Next]_vars, Undisturbed'
             PROVE  InStep' /\ Charged'
  BY DEF RepairInv
<1>1. TypeOK /\ InStep /\ Charged
  BY FaultStep DEF IInv, RepairInv
<1>2. /\ faults["corrupt"] \in Nat /\ retry \in Nat /\ RETRY_MAX \in Nat /\ ReplyLen = 6
      /\ up \in Seq(Byte) /\ down \in Seq(Packet) /\ Len(up) \in Nat /\ Len(down) \in Nat
      /\ sequence \in 0 .. SEQ_MAX
      /\ exit = "running" <=> pc # "exited"
  <2>1. retry \in 0 .. RETRY_MAX /\ faults \in [FaultKind -> Nat] /\ "corrupt" \in FaultKind
    BY <1>1 DEF TypeOK, FaultKind
  <2> QED
    BY <1>1, <2>1, KermitAssumption DEF IInv, TypeOK, SenderInv, ReplyLen
<1>3. \A k \in FaultKind \ {"corrupt"} : ~Strikes(k)
  BY <1>1, OnlyDamage
<1>4. CASE SenderStep
  <2>1. CASE OpenPort
    <3>1. /\ pc = "open" /\ pc' = "size" /\ UNCHANGED <<exit, retry, down, hung, faults>>
          /\ \E n \in 0 .. Len(up) : up' = SubSeq(up, n + 1, Len(up))
      BY <2>1 DEF OpenPort, loopVars
    <3>2. up' = <<>>
      BY <1>1, <3>1 DEF InStep
    <3> QED
      BY <1>1, <3>1, <3>2 DEF InStep, Charged, LivePacket
  <2>2. CASE StartFile \/ ReadChunk \/ ClosePort
    <3>1. /\ pc \in {"size", "while", "close"} /\ UNCHANGED <<up, down, hung, faults>>
          /\ retry' \in {retry, 0} /\ pc' \notin {"ack", "close"}
          /\ pc' = "exited" => pc = "close" /\ ret' = ret /\ (exit' = "failed" => ret # 0)
      BY <2>2 DEF StartFile, ReadChunk, ClosePort, lineVars, loopVars
    <3> QED
      BY <1>1, <1>2, <3>1 DEF InStep, Charged, LivePacket
  <2>3. CASE SendPacket
    <3> DEFINE p == Data(sequence, buffer)
    <3>1. /\ pc = "send" /\ pc' = "ack" /\ UNCHANGED <<up, hung, faults, retry, sequence>>
          /\ down' = Append(down, p)
      BY <1>1, <2>3 DEF SendPacket, InStep, loopVars
    <3>2. p \in Packet /\ p.type = "D" /\ p.seq = sequence
      BY <1>1 DEF Data, Packet, TypeOK
    <3> HIDE DEF p
    <3>3. Len(down) = 0
      <4>1. \A i \in 1 .. Len(down) : down[i] \in Packet /\ down[i].type # "ETX" /\ ~LivePacket(i)
        BY <1>1, <1>2, <3>1 DEF BalanceInv, InStep
      <4>2. \A i \in 1 .. Len(down) : FALSE
        BY <4>1 DEF Packet, LivePacket
      <4> QED
        BY <1>2, <4>2
    <3>4. Len(down') = 1 /\ down'[1] = p
      BY <1>1, <3>1, <3>2, <3>3, AppendFacts
    <3> QED
      BY <1>1, <3>1, <3>2, <3>4 DEF InStep, Charged, LivePacket
  <2>4. CASE GetReply
    BY <1>1, <2>4, RepairRead
  <2>5. CASE SendEtx
    <3>1. /\ pc = "while" /\ pc' = "close" /\ ret' = 0 /\ UNCHANGED <<exit, retry, up, hung, faults>>
          /\ down' = Append(down, Etx) /\ exit # "failed"
      BY <1>1, <1>2, <2>5 DEF SendEtx, InStep, loopVars
    <3>2. Etx \in Packet /\ Etx.type = "ETX"
      BY KermitAssumption DEF Etx, Packet
    <3>3. \A i \in 1 .. Len(down') : down'[i] = IF i <= Len(down) THEN down[i] ELSE Etx
      BY <1>1, <3>1, <3>2, AppendFacts
    <3>4. \A i \in 1 .. Len(down') : down'[i].type # "D"
      BY <1>1, <1>2, <3>1, <3>2, <3>3 DEF InStep, LivePacket
    <3> QED
      BY <1>1, <3>1, <3>4 DEF InStep, Charged, LivePacket
  <2> QED
    BY <1>4, <2>1, <2>2, <2>3, <2>4, <2>5 DEF SenderStep
<1>5. CASE SenderFails
  <2>1. ~Strikes("system") /\ ~hung
    BY <1>1, <1>3 DEF FaultKind, InStep
  <2> QED
    BY <1>5, <2>1
       DEF SenderFails, OpenPortFails, StartFileFails, SendPacketFails, ClosePortFails
<1>6. CASE TargetStep
  <2>1. /\ down # <<>> /\ down' = Tail(down)
        /\ UNCHANGED <<pc, ret, exit, retry, sequence, hung>>
    BY <1>6 DEF TargetStep, AcceptPacket, RefusePacket, AcceptEtx, senderVars, loopVars
  <2>2. /\ Len(down) \in Nat \ {0} /\ Len(down') = Len(down) - 1
        /\ \A i \in 1 .. Len(down') : down'[i] = down[i + 1]
        /\ Head(down) = down[1] /\ down' \in Seq(Packet)
    BY <1>1, <2>1, TailFacts
  <2>3. CASE AcceptEtx
    <3>1. UNCHANGED <<up, faults>> /\ ~LivePacket(1) /\ 1 \in 1 .. Len(down)
      BY <2>2, <2>3 DEF AcceptEtx, LivePacket
    <3>2. pc # "ack"
      BY <1>1, <2>1, <3>1 DEF InStep
    <3>3. \A i \in 1 .. Len(down') : i + 1 \in 1 .. Len(down) /\ down'[i] = down[i + 1]
      BY <2>2
    <3> QED
      BY <1>1, <2>1, <3>1, <3>2, <3>3 DEF InStep, Charged, LivePacket
  <2>4. CASE AcceptPacket \/ RefusePacket
    <3>1. LivePacket(1) /\ 1 \in 1 .. Len(down)
      BY <2>2, <2>4 DEF AcceptPacket, RefusePacket, LivePacket
    <3>2. pc = "ack" /\ up = <<>> /\ Len(down) = 1 /\ Head(down).seq = sequence
      BY <1>1, <2>1, <2>2, <3>1 DEF InStep
    <3>3. down' = <<>>
      BY <2>2, <3>2
    <3>4. \E k \in {"ACK", "NAK"} :
            /\ up' = Reply(k, sequence)
            /\ IF k = "ACK" THEN UNCHANGED faults
               ELSE faults'["corrupt"] = faults["corrupt"] + 1
      <4>1. \A k : Answer(k, sequence) => up' = Reply(k, sequence)
        <5>1. ASSUME NEW k, Answer(k, sequence)
              PROVE  up' = Reply(k, sequence)
          <6>1. up' = <<>> \o Reply(k, sequence)
            BY <1>1, <3>2, <5>1 DEF Answer, InStep
          <6>2. Reply(k, sequence) \in Seq([kind : {k}, seq : {sequence}, at : 1 .. ReplyLen])
            BY DEF Reply, ReplyLen
          <6> QED
            BY <6>1, <6>2
        <5> QED
          BY <5>1
      <4>2. CASE AcceptPacket
        BY <3>2, <4>1, <4>2 DEF AcceptPacket
      <4>3. CASE RefusePacket
        <5>1. Strikes("corrupt") /\ Answer("NAK", sequence)
          BY <1>3, <3>2, <4>3 DEF RefusePacket, FaultKind
        <5> QED
          BY <1>1, <4>1, <5>1, OnlyDamage DEF FaultKind
      <4> QED
        BY <2>4, <4>2, <4>3
    <3>5. PICK k \in {"ACK", "NAK"} :
            /\ up' = Reply(k, sequence)
            /\ IF k = "ACK" THEN UNCHANGED faults
               ELSE faults'["corrupt"] = faults["corrupt"] + 1
      BY <3>4
    <3>6. Len(up') = ReplyLen /\ \A i \in 1 .. ReplyLen : up'[i].kind \in {"ACK", "NAK"}
      <4>1. k \in {"ACK", "NAK", "other"}
        OBVIOUS
      <4>2. /\ Len(Reply(k, sequence)) = ReplyLen
            /\ \A i \in 1 .. ReplyLen : Reply(k, sequence)[i] = [kind |-> k, seq |-> sequence, at |-> i]
        BY <1>2, <4>1, ReplyFacts, Zenon
      <4>3. up' = Reply(k, sequence)
        BY <3>5
      <4>4. \A i \in 1 .. ReplyLen : up'[i].kind = k
        BY <4>2, <4>3, SMT
      <4>5. Len(up') = ReplyLen
        BY <4>2, <4>3, Zenon
      <4> QED
        BY <4>1, <4>4, <4>5
    <3>7. InStep'
      BY <1>1, <2>1, <3>2, <3>3, <3>6 DEF InStep
    <3>8. Charged'
      BY <1>1, <1>2, <2>1, <3>2, <3>5 DEF Charged
    <3> QED
      BY <3>7, <3>8
  <2> QED
    BY <1>6, <2>3, <2>4 DEF TargetStep
<1>7. CASE Environment
  <2>1. CorruptByte
    BY <1>3, <1>7 DEF Environment, CorruptByte, DropByte, DropPacket, HangUp, Resize, FaultKind
  <2>2. PICK k \in 1 .. Len(up) : up' = [up EXCEPT ![k] = Garbage]
    BY <2>1 DEF CorruptByte
  <2>3. /\ UNCHANGED <<pc, ret, exit, retry, sequence, down, hung>>
        /\ faults'["corrupt"] = faults["corrupt"] + 1
    BY <1>1, <2>1, OnlyDamage DEF CorruptByte, senderVars, loopVars, FaultKind
  <2>4. up # <<>> /\ pc = "ack"
    BY <1>1, <1>2, <2>2 DEF InStep
  <2>5. /\ down = <<>> /\ Len(up) = ReplyLen
        /\ \A i \in 1 .. ReplyLen : up[i] = Garbage \/ up[i].kind \in {"ACK", "NAK"}
    BY <1>1, <2>4 DEF InStep
  <2>6. Len(up') = ReplyLen /\ \A i \in 1 .. ReplyLen : up'[i] = up[i] \/ up'[i] = Garbage
    BY <1>2, <2>2, <2>5
  <2>7. InStep'
    BY <1>1, <2>3, <2>4, <2>5, <2>6 DEF InStep
  <2>8. Charged'
    BY <1>1, <1>2, <2>3, <2>4 DEF Charged
  <2> QED
    BY <2>7, <2>8
<1>8. CASE Over \/ UNCHANGED vars
  BY <1>1, <1>8 DEF Over, vars, senderVars, lineVars, loopVars, InStep, Charged, LivePacket
<1> QED
  BY <1>4, <1>5, <1>6, <1>7, <1>8 DEF Next

(* As long as nothing but damage happens, it takes RETRY_MAX damaged       *)
(* packets or replies to make the transfer fail.                           *)
THEOREM DamageIsRepaired == Spec => []FewCorruptionsTolerated
<1>1. Init => BalanceInv /\ RepairInv
  <2> SUFFICES ASSUME Init PROVE BalanceInv /\ RepairInv
    OBVIOUS
  <2>1. BalanceInv
    BY DEF Init, BalanceInv, NoStarvation
  <2>2. ASSUME Undisturbed PROVE InStep /\ Charged
    <3>1. PICK m \in 0 .. MaxFaults["noise"] :
            /\ up = [i \in 1 .. m |-> Garbage]
            /\ faults = [k \in FaultKind |-> IF k = "noise" THEN m ELSE 0]
      BY DEF Init
    <3>2. faults["noise"] = m /\ faults["noise"] = 0 /\ faults["corrupt"] = 0
      BY <2>2, <3>1 DEF FaultKind, Undisturbed
    <3>3. up = <<>>
      BY <3>1, <3>2
    <3> QED
      BY <3>2, <3>3 DEF Init, InStep, Charged
  <2> QED
    BY <2>1, <2>2 DEF RepairInv
<1>2. IInv /\ BalanceInv /\ RepairInv /\ [Next]_vars => (BalanceInv /\ RepairInv)'
  BY BalanceStep, RepairStep
<1>3. IInv /\ RepairInv => FewCorruptionsTolerated
  <2> SUFFICES ASSUME IInv, RepairInv, exit = "failed",
                      ~\E k \in FaultKind \ {"corrupt"} : faults[k] > 0
               PROVE  faults["corrupt"] >= RETRY_MAX
    BY DEF FewCorruptionsTolerated
  <2>0. Undisturbed
    <3>1. faults \in [FaultKind -> Nat]
      BY DEF IInv, TypeOK
    <3>2. \A k \in FaultKind : faults[k] \in Nat
      BY <3>1
    <3> QED
      BY <3>2 DEF Undisturbed
  <2>1. pc = "exited"
    BY DEF IInv, SenderInv, TypeOK
  <2>2. RETRY_MAX <= faults["corrupt"]
    BY <2>0, <2>1 DEF RepairInv, Charged
  <2>3. faults["corrupt"] \in Nat
    BY DEF IInv, TypeOK, FaultKind
  <2> QED
    BY <2>2, <2>3, KermitAssumption
<1> QED
  BY <1>1, <1>2, <1>3, Invariance, PTL DEF Spec

-----------------------------------------------------------------------------
(* Refinement.                                                             *)

LEMMA TransferStep ==
  ASSUME IInv, [Next]_vars
  PROVE  [Transfer!Next]_Transfer!vars
<1>1. TypeOK /\ SenderInv /\ TargetInv
  BY DEF IInv
<1> USE DEF Transfer!vars
<1>2. CASE SenderStep \/ SenderFails
  <2>1. CASE StartFile \/ StartFileFails
    <3>1. /\ UNCHANGED <<target, exit>> /\ ori_size' \in {ori_size, fileLen}
          /\ ori_size = -1 /\ exit = "running"
      BY <1>1, <2>1 DEF StartFile, StartFileFails, targetVars, SenderInv
    <3>2. fileLen \in 0 .. Len(File)
      BY <1>1 DEF TypeOK
    <3> QED
      BY <3>1, <3>2 DEF Transfer!Next, Transfer!Announce, Transfer!Unknown
  <2>2. CASE OpenPortFails \/ ClosePortFails
    <3>1. UNCHANGED <<target, ori_size>> /\ exit = "running" /\ exit' = "failed"
      BY <1>1, <2>2 DEF OpenPortFails, ClosePortFails, targetVars, loopVars, SenderInv
    <3> QED
      BY <3>1 DEF Transfer!Next, Transfer!Fail
  <2>3. CASE ClosePort
    <3>1. /\ UNCHANGED <<target, ori_size>> /\ exit = "running" /\ pc = "close"
          /\ exit' = IF ret = 0 THEN "ok" ELSE "failed"
      BY <1>1, <2>3 DEF ClosePort, targetVars, loopVars, SenderInv
    <3>2. CASE ret = 0
      <4>1. Settled /\ size = 0 /\ ori_size \in Int /\ ori_size # -1
        BY <1>1, <3>1, <3>2 DEF Settled, SenderInv, TypeOK
      <4>2. target = SubSeq(File, 1, ori_size)
        BY <1>1, <4>1 DEF TargetInv, Acc
      <4> QED
        BY <3>1, <3>2, <4>1, <4>2
           DEF Transfer!Next, Transfer!Succeed, Transfer!Unknown, Transfer!Prefix
    <3>3. CASE ret # 0
      BY <3>1, <3>3 DEF Transfer!Next, Transfer!Fail
    <3> QED
      BY <3>2, <3>3
  <2>4. CASE OpenPort \/ ReadChunk \/ SendPacket \/ SendPacketFails \/ GetReply \/ SendEtx
    <3>1. UNCHANGED <<ori_size, target, exit>>
      BY <2>4 DEF OpenPort, ReadChunk, SendPacket, SendPacketFails, GetReply, Acked, Retry,
                  Unexpected, SendEtx, loopVars, targetVars
    <3> QED
      BY <3>1
  <2> QED
    BY <1>2, <2>1, <2>2, <2>3, <2>4 DEF SenderStep, SenderFails
<1>3. CASE TargetStep
  <2>1. CASE AcceptPacket
    <3>1. UNCHANGED <<ori_size, exit>>
      BY <2>1 DEF AcceptPacket, senderVars, loopVars
    <3>2. CASE target' = target
      BY <3>1, <3>2
    <3>3. CASE target' # target
      <4>1. ~Settled /\ target = SubSeq(File, 1, Acc) /\ target' = SubSeq(File, 1, pos)
        BY <2>1, <3>3, AcceptStep
      <4>2. Acc \in 0 .. pos /\ pos \in 0 .. Len(File) /\ Len(target) = Acc /\ Acc # pos
        BY <3>3, <4>1, FileFacts
      <4>3. pos <= ori_size /\ ori_size \in Int
        BY <1>1, <4>2 DEF SenderInv, TypeOK
      <4>4. exit # "ok"
        BY <1>1, <4>1 DEF SenderInv, Settled
      <4>5. pos \in Len(target) + 1 .. ori_size
        BY <4>2, <4>3
      <4> QED
        BY <3>1, <4>1, <4>4, <4>5 DEF Transfer!Next, Transfer!Deliver, Transfer!Prefix
    <3> QED
      BY <3>2, <3>3
  <2>2. CASE RefusePacket \/ AcceptEtx
    BY <2>2 DEF RefusePacket, AcceptEtx, senderVars, loopVars, targetVars
  <2> QED
    BY <1>3, <2>1, <2>2 DEF TargetStep
<1>4. CASE Environment
  BY <1>4 DEF Environment, CorruptByte, DropByte, DropPacket, HangUp, Resize,
              senderVars, loopVars, targetVars
<1>5. CASE Over \/ UNCHANGED vars
  BY <1>5 DEF Over, vars, senderVars, loopVars, targetVars
<1> QED
  BY <1>2, <1>3, <1>4, <1>5 DEF Next

(* ukermit keeps the promise of FileTransfer: the target only ever grows   *)
(* from one prefix of the file to a longer one, and success is reported    *)
(* only when it holds everything that was announced.                       *)
THEOREM KermitImplementsTransfer == Spec => ImplementsTransfer
<1>1. Init => Transfer!Init
  BY DEF Init, Transfer!Init, Transfer!Unknown
<1>2. IInv /\ [Next]_vars => [Transfer!Next]_Transfer!vars
  BY TransferStep
<1> QED
  BY <1>1, <1>2, Invariance, PTL DEF Spec, ImplementsTransfer, Transfer!Spec
=============================================================================
