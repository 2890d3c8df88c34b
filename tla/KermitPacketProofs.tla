------------------------- MODULE KermitPacketProofs -------------------------
(***************************************************************************)
(* Proofs about the bytes of a data packet, for every content of the file, *)
(* every number and every packet size the length character can express,    *)
(* and about the bytes of its replies (module KermitAck), for every number *)
(* and every sequence of replies.                                          *)
(***************************************************************************)
EXTENDS KermitPacket, KermitAck, SequenceTheorems, WellFoundedInduction, TLAPS

-----------------------------------------------------------------------------
(* Single characters.                                                      *)

(* ktrans undoes k_escape on every byte that should_escape picks.          *)
THEOREM EscapeUndone ==
  \A b \in Char : should_escape(b) => k_escape(b) \in Char /\ ktrans(k_escape(b)) = b
BY SMTT(60) DEF Char, should_escape, k_escape, escape_it, ktrans, K_ESCAPE, SPACE

(* What goes on the wire for a byte of the file is never a control         *)
(* character.                                                              *)
LEMMA EscapePrintable ==
  ASSUME NEW b \in Char
  PROVE  LET out == IF should_escape(b) THEN k_escape(b) ELSE b
         IN  out \in Char /\ out % 128 >= SPACE /\ out % 128 # 127
BY SMTT(60) DEF Char, should_escape, k_escape, escape_it, K_ESCAPE, SPACE

(* A number below 0x80 survives the trip through its character.            *)
LEMMA NumberUndone == \A n \in 0 .. 223 : untochar(tochar(n)) = n
BY DEF untochar, tochar, SPACE

(* A sum over signed chars has the same check character as the sum of the  *)
(* same chars taken as unsigned.                                           *)
LEMMA ChecksumPeriodic == \A s \in Int, m \in Int : Checksum(s + 256 * m) = Checksum(s)
BY SMTT(60) DEF Checksum, tochar, SPACE

(* The check character notices every single bit error in the sum.          *)
THEOREM ChecksumSeesBits ==
  \A s \in Int : \A d \in {1, 2, 4, 8, 16, 32, 64, 128} :
    Checksum(s + d) # Checksum(s)
BY SMTT(60) DEF Checksum, tochar, SPACE

-----------------------------------------------------------------------------
(* The escape loop.                                                        *)

\* Where the loop over the chunk stands.
LoopInv ==
  /\ buffer \in Seq(Bytes) /\ Len(buffer) <= MAX_CHUNK
  /\ my_new_buffer \in Seq(Char) /\ Len(my_new_buffer) <= 2 * Len(buffer)
  /\ NoControlInData

\* A byte that goes out as it is.
LEMMA AppendPlain ==
  ASSUME LoopInv, NEW c \in Char, c % 128 >= SPACE, c % 128 # 127,
         my_new_buffer' = Append(my_new_buffer, c)
  PROVE  /\ my_new_buffer' \in Seq(Char) /\ Len(my_new_buffer') = Len(my_new_buffer) + 1
         /\ NoControlInData'
<1>1. my_new_buffer \in Seq(Char) /\ Len(my_new_buffer) \in Nat /\ NoControlInData
  BY DEF LoopInv
<1>2. /\ my_new_buffer' \in Seq(Char) /\ Len(my_new_buffer') = Len(my_new_buffer) + 1
      /\ \A i \in 1 .. Len(my_new_buffer) + 1 :
           my_new_buffer'[i] = IF i <= Len(my_new_buffer) THEN my_new_buffer[i] ELSE c
  BY <1>1, AppendProperties
<1>3. ASSUME NEW i \in 1 .. Len(my_new_buffer')
      PROVE  my_new_buffer'[i] % 128 >= SPACE /\ my_new_buffer'[i] % 128 # 127
  <2>1. CASE i <= Len(my_new_buffer)
    <3>1. i \in 1 .. Len(my_new_buffer) /\ my_new_buffer'[i] = my_new_buffer[i]
      BY <1>1, <1>2, <2>1
    <3> QED
      BY <1>1, <3>1 DEF NoControlInData
  <2>2. CASE ~(i <= Len(my_new_buffer))
    <3>1. my_new_buffer'[i] = c
      BY <1>1, <1>2, <2>2
    <3> QED
      BY <3>1
  <2> QED
    BY <2>1, <2>2
<1> QED
  BY <1>2, <1>3 DEF NoControlInData

\* A byte that goes out behind the prefix.
LEMMA AppendEscaped ==
  ASSUME LoopInv, NEW c \in Char, c % 128 >= SPACE, c % 128 # 127,
         my_new_buffer' = my_new_buffer \o <<K_ESCAPE, c>>
  PROVE  /\ my_new_buffer' \in Seq(Char) /\ Len(my_new_buffer') = Len(my_new_buffer) + 2
         /\ NoControlInData'
<1> DEFINE pair == <<K_ESCAPE, c>>
<1>1. my_new_buffer \in Seq(Char) /\ Len(my_new_buffer) \in Nat /\ NoControlInData
  BY DEF LoopInv
<1>2. /\ pair \in Seq(Char) /\ Len(pair) = 2
      /\ \A i \in 1 .. 2 : pair[i] % 128 >= SPACE /\ pair[i] % 128 # 127
  BY DEF Char, K_ESCAPE, SPACE
<1> HIDE DEF pair
<1>3. /\ my_new_buffer' \in Seq(Char) /\ Len(my_new_buffer') = Len(my_new_buffer) + 2
      /\ \A i \in 1 .. Len(my_new_buffer) + 2 :
           my_new_buffer'[i] = IF i <= Len(my_new_buffer) THEN my_new_buffer[i]
                               ELSE pair[i - Len(my_new_buffer)]
  <2>1. my_new_buffer' = my_new_buffer \o pair
    BY DEF pair
  <2> QED
    BY <1>1, <1>2, <2>1, ConcatProperties
<1>4. ASSUME NEW i \in 1 .. Len(my_new_buffer')
      PROVE  my_new_buffer'[i] % 128 >= SPACE /\ my_new_buffer'[i] % 128 # 127
  <2>1. CASE i <= Len(my_new_buffer)
    <3>1. i \in 1 .. Len(my_new_buffer) /\ my_new_buffer'[i] = my_new_buffer[i]
      BY <1>1, <1>3, <2>1
    <3> QED
      BY <1>1, <3>1 DEF NoControlInData
  <2>2. CASE ~(i <= Len(my_new_buffer))
    <3>1. i - Len(my_new_buffer) \in 1 .. 2 /\ my_new_buffer'[i] = pair[i - Len(my_new_buffer)]
      BY <1>1, <1>3, <2>2
    <3> QED
      BY <1>2, <3>1
  <2> QED
    BY <2>1, <2>2
<1> QED
  BY <1>3, <1>4 DEF NoControlInData

LEMMA LoopInvariance == Spec => []LoopInv
<1>1. Init => LoopInv
  <2> SUFFICES ASSUME Init PROVE LoopInv
    OBVIOUS
  <2>1. buffer = <<>> /\ my_new_buffer = <<>>
    BY DEF Init
  <2> QED
    BY <2>1, KermitPacketAssumption DEF LoopInv, NoControlInData
<1>2. LoopInv /\ [Next]_vars => LoopInv'
  <2> SUFFICES ASSUME LoopInv, [Next]_vars PROVE LoopInv'
    OBVIOUS
  <2>1. CASE EscapeByte
    <3>1. PICK b \in Bytes :
            /\ buffer' = Append(buffer, b)
            /\ IF should_escape(b)
                 THEN my_new_buffer' = my_new_buffer \o <<K_ESCAPE, k_escape(b)>>
                 ELSE my_new_buffer' = Append(my_new_buffer, b)
      BY <2>1 DEF EscapeByte
    <3>2. b \in Char
      BY KermitPacketAssumption
    <3>3. /\ my_new_buffer' \in Seq(Char) /\ NoControlInData'
          /\ Len(my_new_buffer') <= Len(my_new_buffer) + 2
      <4>1. CASE should_escape(b)
        <5>1. k_escape(b) \in Char /\ k_escape(b) % 128 >= SPACE /\ k_escape(b) % 128 # 127
          BY <3>2, <4>1, EscapePrintable
        <5> QED
          <6>1. my_new_buffer' = my_new_buffer \o <<K_ESCAPE, k_escape(b)>>
            BY <3>1, <4>1
          <6>2. Len(my_new_buffer') = Len(my_new_buffer) + 2
            BY <5>1, <6>1, AppendEscaped
          <6>3. my_new_buffer' \in Seq(Char) /\ NoControlInData'
            BY <5>1, <6>1, AppendEscaped
          <6>4. Len(my_new_buffer) \in Nat
            BY DEF LoopInv
          <6> QED
            BY <6>2, <6>3, <6>4
      <4>2. CASE ~should_escape(b)
        <5>1. b % 128 >= SPACE /\ b % 128 # 127
          BY <3>2, <4>2, EscapePrintable
        <5> QED
          BY <3>1, <3>2, <4>2, <5>1, AppendPlain DEF LoopInv
      <4> QED
        BY <4>1, <4>2
    <3>4. /\ buffer' \in Seq(Bytes) /\ Len(buffer') = Len(buffer) + 1
          /\ Len(buffer) \in Nat /\ Len(buffer) < MAX_CHUNK
      BY <2>1, <3>1 DEF LoopInv, EscapeByte
    <3>5. Len(my_new_buffer) \in Nat /\ Len(my_new_buffer') \in Nat /\ MAX_CHUNK \in Int
      BY <3>3, KermitPacketAssumption DEF LoopInv
    <3>6. Len(my_new_buffer') <= 2 * Len(buffer')
      BY <3>3, <3>4, <3>5 DEF LoopInv
    <3>7. Len(buffer') <= MAX_CHUNK
      BY <3>4, <3>5
    <3> QED
      BY <3>3, <3>4, <3>6, <3>7 DEF LoopInv
  <2>2. CASE SendPacket \/ FlipBit \/ ReceivePacket \/ UNCHANGED vars
    <3>1. UNCHANGED <<buffer, my_new_buffer>>
      BY <2>2 DEF SendPacket, FlipBit, ReceivePacket, vars
    <3> QED
      BY <3>1 DEF LoopInv, NoControlInData
  <2> QED
    BY <2>1, <2>2 DEF Next
<1> QED
  BY <1>1, <1>2, PTL DEF Spec

(* The allocation suffices and the length fits into its character.         *)
THEOREM BufferEnough == Spec => []BufferSuffices
<1>1. ASSUME LoopInv PROVE BufferSuffices
  <2>1. /\ Len(buffer) \in Nat /\ Len(my_new_buffer) \in Nat /\ Len(buffer) <= 110
        /\ Len(my_new_buffer) <= 2 * Len(buffer)
    BY <1>1, KermitPacketAssumption DEF LoopInv
  <2> SUFFICES ASSUME NEW m \in Nat, NEW n \in Nat, n <= 110, m <= 2 * n
               PROVE  m + 2 <= 2 * n + 3 /\ untochar(tochar(m + 3)) = m + 3
    BY <2>1 DEF BufferSuffices
  <2>2. m + 3 \in 0 .. 223
    OBVIOUS
  <2> QED
    BY <2>2, NumberUndone
<1> QED
  BY <1>1, LoopInvariance, PTL

(* No control character of the file travels as it is.                      *)
THEOREM ControlsEscaped == Spec => []NoControlInData
<1>1. LoopInv => NoControlInData
  BY DEF LoopInv
<1> QED
  BY <1>1, LoopInvariance, PTL

-----------------------------------------------------------------------------
(* Sums of bytes. A sum is read off a function of partial sums, which is   *)
(* unique: of two that differ, take the first place where they do.         *)

LEMMA Least ==
  ASSUME NEW T \in SUBSET Nat, T # {}
  PROVE  \E e \in T : \A m \in T : e <= m
<1> DEFINE R == {ss \in Nat \X Nat : ss[1] < ss[2]}
<1>1. IsWellFoundedOn(R, Nat)
  BY NatLessThanWellFounded, Zenon DEF OpToRel
<1>2. \A x, y \in T : x \in Nat /\ y \in Nat /\ (<<y, x>> \notin R => x <= y)
  OBVIOUS
<1> HIDE DEF R
<1>3. \E x \in T : \A y \in T : <<y, x>> \notin R
  BY <1>1, WFMin, Zenon
<1> QED
  BY <1>2, <1>3, Zenon

\* g holds the sums of the first bytes.
Sums(g, bytes) ==
  g = [i \in 0 .. Len(bytes) |-> IF i = 0 THEN 0 ELSE g[i - 1] + bytes[i]]

LEMMA SumsAgree ==
  ASSUME NEW bytes, Len(bytes) \in Nat, NEW g, NEW h, Sums(g, bytes), Sums(h, bytes)
  PROVE  \A i \in 0 .. Len(bytes) : g[i] = h[i]
<1> DEFINE n == Len(bytes)
           T == {i \in 0 .. n : g[i] # h[i]}
<1>1. SUFFICES ASSUME T # {} PROVE FALSE
  OBVIOUS
<1>2. PICK e \in T : \A m \in T : e <= m
  <2>1. T \in SUBSET Nat
    OBVIOUS
  <2> HIDE DEF T
  <2> QED
    BY <1>1, <2>1, Least, Zenon
<1>3. \A i \in 0 .. n : g[i] = IF i = 0 THEN 0 ELSE g[i - 1] + bytes[i]
  BY Zenon DEF Sums
<1>4. \A i \in 0 .. n : h[i] = IF i = 0 THEN 0 ELSE h[i - 1] + bytes[i]
  BY Zenon DEF Sums
<1>5. e # 0 /\ e \in 0 .. n /\ g[e] # h[e]
  BY <1>3, <1>4
<1>6. e - 1 \in 0 .. n /\ e - 1 < e
  BY <1>5
<1>7. g[e - 1] = h[e - 1]
  BY <1>2, <1>6
<1> HIDE DEF T
<1> QED
  BY <1>3, <1>4, <1>5, <1>7

LEMMA SumIs ==
  ASSUME NEW bytes, Len(bytes) \in Nat, NEW g, Sums(g, bytes)
  PROVE  SumOf(bytes) = g[Len(bytes)]
<1> DEFINE s == CHOOSE s : Sums(s, bytes)
<1>1. Sums(s, bytes)
  BY Zenon
<1>2. SumOf(bytes) = s[Len(bytes)]
  BY Zenon DEF SumOf, Sums
<1> HIDE DEF s
<1> QED
  BY <1>1, <1>2, SumsAgree

\* bytes add up to total.
AddUpTo(bytes, total) ==
  \E g \in [0 .. Len(bytes) -> Int] : Sums(g, bytes) /\ g[Len(bytes)] = total

LEMMA SumsByEntry ==
  ASSUME NEW bytes \in Seq(Int), NEW g \in [0 .. Len(bytes) -> Int],
         g[0] = 0, \A i \in 1 .. Len(bytes) : g[i] = g[i - 1] + bytes[i]
  PROVE  Sums(g, bytes)
<1>1. \A i \in 0 .. Len(bytes) : g[i] = IF i = 0 THEN 0 ELSE g[i - 1] + bytes[i]
  OBVIOUS
<1> QED
  BY <1>1, SMT DEF Sums

LEMMA EntriesOfSums ==
  ASSUME NEW bytes \in Seq(Int), NEW g \in [0 .. Len(bytes) -> Int], Sums(g, bytes)
  PROVE  g[0] = 0 /\ \A i \in 1 .. Len(bytes) : g[i] = g[i - 1] + bytes[i]
<1>1. \A i \in 0 .. Len(bytes) : g[i] = IF i = 0 THEN 0 ELSE g[i - 1] + bytes[i]
  BY Zenon DEF Sums
<1> QED
  BY <1>1

LEMMA SumValue ==
  ASSUME NEW bytes \in Seq(Int), NEW total, AddUpTo(bytes, total)
  PROVE  SumOf(bytes) = total
BY SumIs, Zenon, LenProperties DEF AddUpTo

LEMMA NothingAddsUp == AddUpTo(<<>>, 0)
<1> DEFINE g == [i \in 0 .. 0 |-> 0]
<1>1. <<>> \in Seq(Int) /\ Len(<<>>) = 0
  OBVIOUS
<1>2. g \in [0 .. 0 -> Int] /\ g[0] = 0
  OBVIOUS
<1> HIDE DEF g
<1>3. Sums(g, <<>>)
  BY <1>1, <1>2, SumsByEntry
<1> QED
  BY <1>1, <1>2, <1>3, Zenon DEF AddUpTo

LEMMA OneAddsUp == ASSUME NEW c \in Int PROVE AddUpTo(<<c>>, c)
<1> DEFINE g == [i \in 0 .. 1 |-> IF i = 0 THEN 0 ELSE c]
           b == <<c>>
<1>1. b \in Seq(Int) /\ Len(b) = 1 /\ b[1] = c
  OBVIOUS
<1>2. g \in [0 .. 1 -> Int] /\ g[0] = 0 /\ g[1] = c
  OBVIOUS
<1> HIDE DEF g, b
<1>3. Sums(g, b)
  BY <1>1, <1>2, SumsByEntry
<1>4. AddUpTo(b, c)
  BY <1>1, <1>2, <1>3, Zenon DEF AddUpTo
<1> QED
  BY <1>4, Zenon DEF b

LEMMA BothAddUp ==
  ASSUME NEW a \in Seq(Int), NEW b \in Seq(Int), NEW s \in Int, NEW t \in Int,
         AddUpTo(a, s), AddUpTo(b, t)
  PROVE  AddUpTo(a \o b, s + t)
<1> DEFINE ab == a \o b
           total == s + t
<1>1. PICK g \in [0 .. Len(a) -> Int] : Sums(g, a) /\ g[Len(a)] = s
  BY Zenon DEF AddUpTo
<1>2. PICK h \in [0 .. Len(b) -> Int] : Sums(h, b) /\ h[Len(b)] = t
  BY Zenon DEF AddUpTo
<1> DEFINE k == [i \in 0 .. Len(ab) |-> IF i <= Len(a) THEN g[i] ELSE s + h[i - Len(a)]]
<1>3. /\ ab \in Seq(Int) /\ Len(ab) = Len(a) + Len(b) /\ Len(a) \in Nat /\ Len(b) \in Nat
      /\ \A i \in 1 .. Len(ab) : ab[i] = IF i <= Len(a) THEN a[i] ELSE b[i - Len(a)]
  BY ConcatProperties
<1>4. g[0] = 0 /\ \A i \in 1 .. Len(a) : g[i] = g[i - 1] + a[i]
  BY <1>1, EntriesOfSums
<1>5. h[0] = 0 /\ \A i \in 1 .. Len(b) : h[i] = h[i - 1] + b[i]
  BY <1>2, EntriesOfSums
<1> HIDE DEF ab
<1>6. /\ k \in [0 .. Len(ab) -> Int]
      /\ \A i \in 0 .. Len(a) : k[i] = g[i]
      /\ \A i \in 0 .. Len(ab) : i > Len(a) => k[i] = s + h[i - Len(a)]
  <2>1. ASSUME NEW i \in 0 .. Len(ab)
        PROVE  (IF i <= Len(a) THEN g[i] ELSE s + h[i - Len(a)]) \in Int
    <3>1. CASE i <= Len(a)
      <4>1. i \in 0 .. Len(a)
        BY <1>3, <3>1
      <4> QED
        BY <3>1, <4>1
    <3>2. CASE ~(i <= Len(a))
      <4>1. i - Len(a) \in 0 .. Len(b)
        BY <1>3, <3>2
      <4>2. h[i - Len(a)] \in Int
        BY <4>1
      <4> QED
        BY <3>2, <4>2
    <3> QED
      BY <3>1, <3>2
  <2>2. \A i \in 0 .. Len(a) : i \in 0 .. Len(ab) /\ i <= Len(a)
    BY <1>3
  <2>3. \A i \in 0 .. Len(ab) : k[i] = IF i <= Len(a) THEN g[i] ELSE s + h[i - Len(a)]
    OBVIOUS
  <2>4. k \in [0 .. Len(ab) -> Int]
    BY <2>1
  <2> HIDE DEF k
  <2>5. \A i \in 0 .. Len(ab) : i > Len(a) => ~(i <= Len(a))
    BY <1>3
  <2> QED
    BY <2>2, <2>3, <2>4, <2>5, Zenon
<1> HIDE DEF k
<1>7. k[0] = 0
  BY <1>3, <1>4, <1>6
<1>8. ASSUME NEW i \in 1 .. Len(ab) PROVE k[i] = k[i - 1] + ab[i]
  <2>1. CASE i <= Len(a)
    <3>1. i \in 1 .. Len(a) /\ i \in 0 .. Len(a) /\ i - 1 \in 0 .. Len(a)
      BY <1>3, <2>1
    <3> QED
      BY <1>3, <1>4, <1>6, <2>1, <3>1
  <2>2. CASE ~(i <= Len(a))
    <3> DEFINE j == i - Len(a)
    <3>1. j \in 1 .. Len(b) /\ i > Len(a) /\ i \in 0 .. Len(ab) /\ i - 1 \in 0 .. Len(ab)
      BY <1>3, <2>2
    <3>2. k[i] = s + h[j] /\ ab[i] = b[j] /\ h[j] = h[j - 1] + b[j]
      BY <1>3, <1>5, <1>6, <2>2, <3>1
    <3>3. k[i - 1] = s + h[j - 1]
      <4>1. CASE i - 1 = Len(a)
        BY <1>1, <1>3, <1>5, <1>6, <3>1, <4>1
      <4>2. CASE i - 1 > Len(a)
        <5>1. (i - 1) - Len(a) = j - 1
          BY <1>3, <3>1
        <5>2. k[i - 1] = s + h[(i - 1) - Len(a)]
          BY <1>6, <3>1, <4>2, Zenon
        <5> QED
          BY <5>1, <5>2, Zenon
      <4> QED
        BY <1>3, <3>1, <4>1, <4>2
    <3>4. b[j] \in Int /\ h[j - 1] \in Int
      <4>1. j \in 1 .. Len(b) /\ j - 1 \in 0 .. Len(b)
        BY <1>3, <3>1
      <4> HIDE DEF j
      <4>2. b[j] \in Int
        BY <4>1, ElementOfSeq
      <4> QED
        BY <4>1, <4>2
    <3> HIDE DEF j
    <3> QED
      BY <3>2, <3>3, <3>4
  <2> QED
    BY <2>1, <2>2
<1>9. Sums(k, ab)
  BY <1>3, <1>6, <1>7, <1>8, SumsByEntry
<1>10. k[Len(ab)] = total
  <2>1. CASE Len(b) = 0
    BY <1>1, <1>2, <1>3, <1>5, <1>6, <2>1
  <2>2. CASE Len(b) > 0
    <3>1. Len(ab) > Len(a) /\ Len(ab) \in 0 .. Len(ab) /\ Len(ab) - Len(a) = Len(b)
      BY <1>3, <2>2
    <3> QED
      BY <1>2, <1>6, <3>1
  <2> QED
    BY <1>3, <2>1, <2>2
<1> HIDE DEF total
<1>11. AddUpTo(ab, total)
  BY <1>6, <1>9, <1>10, Zenon DEF AddUpTo
<1> QED
  BY <1>11, Zenon DEF ab, total

LEMMA ChangeAddsUp ==
  ASSUME NEW a \in Seq(Int), NEW s \in Int, AddUpTo(a, s), NEW j \in 1 .. Len(a), NEW v \in Int
  PROVE  AddUpTo([a EXCEPT ![j] = v], (s + v) - a[j])
<1> DEFINE b == [a EXCEPT ![j] = v]
           total == (s + v) - a[j]
<1>1. PICK g \in [0 .. Len(a) -> Int] : Sums(g, a) /\ g[Len(a)] = s
  BY Zenon DEF AddUpTo
<1> DEFINE k == [i \in 0 .. Len(a) |-> IF i < j THEN g[i] ELSE (g[i] + v) - a[j]]
<1>2. /\ b \in Seq(Int) /\ Len(b) = Len(a) /\ Len(a) \in Nat /\ a[j] \in Int
      /\ \A i \in 1 .. Len(a) : b[i] = IF i = j THEN v ELSE a[i]
  BY ExceptSeq
<1>3. g[0] = 0 /\ \A i \in 1 .. Len(a) : g[i] = g[i - 1] + a[i]
  BY <1>1, EntriesOfSums
<1> HIDE DEF b
<1>4. /\ k \in [0 .. Len(a) -> Int]
      /\ \A i \in 0 .. Len(a) : k[i] = IF i < j THEN g[i] ELSE (g[i] + v) - a[j]
  BY <1>2
<1> HIDE DEF k
<1>5. k[0] = 0
  BY <1>2, <1>3, <1>4
<1>6. ASSUME NEW i \in 1 .. Len(a) PROVE k[i] = k[i - 1] + b[i]
  <2>1. i \in 0 .. Len(a) /\ i - 1 \in 0 .. Len(a) /\ a[i] \in Int
    BY <1>2
  <2>2. g[i] \in Int /\ g[i - 1] \in Int /\ g[i] = g[i - 1] + a[i]
    BY <1>3, <2>1
  <2>6. /\ k[i] = IF i < j THEN g[i] ELSE (g[i] + v) - a[j]
        /\ k[i - 1] = IF i - 1 < j THEN g[i - 1] ELSE (g[i - 1] + v) - a[j]
        /\ b[i] = IF i = j THEN v ELSE a[i]
    BY <1>2, <1>4, <2>1, Zenon
  <2> DEFINE p == i - 1
             gi == g[i]
             gp == g[p]
  <2>7. j \in Int /\ i \in Int /\ p = i - 1 /\ a[j] \in Int
    BY <1>2
  <2>8. gi \in Int /\ gp \in Int /\ gi = gp + a[i]
    BY <2>2
  <2>9. /\ k[i] = IF i < j THEN gi ELSE (gi + v) - a[j]
        /\ k[p] = IF p < j THEN gp ELSE (gp + v) - a[j]
    BY <2>6
  <2> SUFFICES k[i] = k[p] + b[i]
    BY Zenon
  <2> HIDE DEF p, gi, gp
  <2>3. CASE i < j
    BY <2>1, <2>6, <2>7, <2>8, <2>9, <2>3
  <2>4. CASE i = j
    <3>1. ~(i < j) /\ p < j
      BY <2>4, <2>7
    <3>2. k[i] = (gi + v) - a[j] /\ k[p] = gp /\ b[i] = v /\ a[j] = a[i]
      BY <2>4, <2>6, <2>9, <3>1, Zenon
    <3> DEFINE aj == a[j]
    <3>3. aj \in Int /\ gi = gp + aj
      BY <2>7, <2>8, <3>2, Zenon
    <3> HIDE DEF aj
    <3>4. (gi + v) - aj = gp + v
      BY <2>8, <3>3
    <3> QED
      BY <3>2, <3>4, Zenon DEF aj
  <2>5. CASE i > j
    <3>1. i # j /\ ~(i < j) /\ ~(p < j)
      BY <2>5, <2>7
    <3>2. k[i] = (gi + v) - a[j] /\ k[p] = (gp + v) - a[j] /\ b[i] = a[i]
      BY <2>6, <2>9, <3>1, Zenon
    <3> DEFINE ai == a[i]
               aj == a[j]
    <3>3. ai \in Int /\ aj \in Int /\ gi = gp + ai
      BY <2>1, <2>7, <2>8
    <3> HIDE DEF ai, aj
    <3>4. (gi + v) - aj = ((gp + v) - aj) + ai
      BY <2>8, <3>3
    <3> QED
      BY <3>2, <3>4, Zenon DEF ai, aj
  <2> QED
    BY <2>3, <2>4, <2>5, <2>7
<1>7. Sums(k, b)
  BY <1>2, <1>4, <1>5, <1>6, SumsByEntry
<1>8. k[Len(b)] = total
  <2>1. Len(a) \in 0 .. Len(a) /\ ~(Len(a) < j)
    BY <1>2
  <2> QED
    BY <1>1, <1>2, <1>4, <2>1
<1> HIDE DEF total
<1>9. AddUpTo(b, total)
  <2>1. k \in [0 .. Len(b) -> Int]
    BY <1>2, <1>4
  <2> QED
    BY <1>7, <1>8, <2>1, Zenon DEF AddUpTo
<1> QED
  BY <1>9, Zenon DEF b, total

-----------------------------------------------------------------------------
(* The decoding.                                                           *)

Start == [data |-> <<>>, prefix |-> 0]

\* g holds the states of the decoding behind the first bytes.
Undoes(g, bytes) ==
  g = [i \in 0 .. Len(bytes) |-> IF i = 0 THEN Start ELSE Undo(g[i - 1], bytes[i])]

\* bytes decode to state.
DecodeTo(bytes, state) == \E g : Undoes(g, bytes) /\ g[Len(bytes)] = state

LEMMA UndoesAgree ==
  ASSUME NEW bytes, Len(bytes) \in Nat, NEW g, NEW h, Undoes(g, bytes), Undoes(h, bytes)
  PROVE  \A i \in 0 .. Len(bytes) : g[i] = h[i]
<1> DEFINE n == Len(bytes)
           T == {i \in 0 .. n : g[i] # h[i]}
<1>1. SUFFICES ASSUME T # {} PROVE FALSE
  OBVIOUS
<1>2. PICK e \in T : \A m \in T : e <= m
  <2>1. T \in SUBSET Nat
    OBVIOUS
  <2> HIDE DEF T
  <2> QED
    BY <1>1, <2>1, Least, Zenon
<1>3. \A i \in 0 .. n : g[i] = IF i = 0 THEN Start ELSE Undo(g[i - 1], bytes[i])
  BY Zenon DEF Undoes
<1>4. \A i \in 0 .. n : h[i] = IF i = 0 THEN Start ELSE Undo(h[i - 1], bytes[i])
  BY Zenon DEF Undoes
<1>5. e # 0 /\ e \in 0 .. n /\ g[e] # h[e]
  BY <1>3, <1>4
<1>6. e - 1 \in 0 .. n /\ e - 1 < e
  BY <1>5
<1>7. g[e - 1] = h[e - 1]
  BY <1>2, <1>6
<1> HIDE DEF T
<1> QED
  BY <1>3, <1>4, <1>5, <1>7

LEMMA Decoded ==
  ASSUME NEW bytes, Len(bytes) \in Nat, NEW state, DecodeTo(bytes, state)
  PROVE  Unescape(bytes) = state.data
<1>1. PICK g : Undoes(g, bytes) /\ g[Len(bytes)] = state
  BY Zenon DEF DecodeTo
<1> DEFINE u == CHOOSE u : Undoes(u, bytes)
<1>2. Undoes(u, bytes)
  BY <1>1, Zenon
<1>3. Unescape(bytes) = u[Len(bytes)].data
  BY Zenon DEF Unescape, Undoes, Start
<1> HIDE DEF u
<1>4. u[Len(bytes)] = g[Len(bytes)]
  BY <1>1, <1>2, UndoesAgree
<1> QED
  BY <1>1, <1>3, <1>4, Zenon

LEMMA NothingDecodes == DecodeTo(<<>>, Start)
<1> DEFINE g == [i \in 0 .. 0 |-> Start]
<1>1. Len(<<>>) = 0 /\ g[0] = Start /\ DOMAIN g = 0 .. 0
  OBVIOUS
<1>2. \A i \in 0 .. 0 : i = 0
  OBVIOUS
<1>3. g = [i \in 0 .. 0 |-> IF i = 0 THEN Start ELSE Undo(g[i - 1], <<>>[i])]
  BY <1>2
<1> HIDE DEF g
<1> QED
  BY <1>1, <1>3, Zenon DEF DecodeTo, Undoes

LEMMA OneMoreDecodes ==
  ASSUME NEW bytes \in Seq(Int), NEW state, DecodeTo(bytes, state), NEW c \in Int
  PROVE  DecodeTo(Append(bytes, c), Undo(state, c))
<1> DEFINE n == Len(bytes)
           more == Append(bytes, c)
<1>1. PICK g : Undoes(g, bytes) /\ g[n] = state
  BY Zenon DEF DecodeTo
<1>2. /\ n \in Nat /\ Len(more) = n + 1 /\ more[n + 1] = c
      /\ \A i \in 1 .. n : more[i] = bytes[i]
  OBVIOUS
<1>3. \A i \in 0 .. n : g[i] = IF i = 0 THEN Start ELSE Undo(g[i - 1], bytes[i])
  BY <1>1, Zenon DEF Undoes
<1> HIDE DEF more
<1> DEFINE h == [i \in 0 .. n + 1 |-> IF i <= n THEN g[i] ELSE Undo(state, c)]
<1>4. /\ \A i \in 0 .. n : h[i] = g[i]
      /\ h[n + 1] = Undo(state, c)
  BY <1>2
<1>5. ASSUME NEW i \in 0 .. n + 1
      PROVE  h[i] = IF i = 0 THEN Start ELSE Undo(h[i - 1], more[i])
  <2> HIDE DEF h
  <2>1. CASE i = 0
    <3>1. 0 \in 0 .. n
      BY <1>2
    <3> QED
      BY <1>3, <1>4, <2>1, <3>1, Zenon
  <2>2. CASE i \in 1 .. n
    <3>1. i \in 0 .. n /\ i - 1 \in 0 .. n /\ i # 0
      BY <1>2, <2>2
    <3> QED
      BY <1>2, <1>3, <1>4, <2>2, <3>1, Zenon
  <2>3. CASE i = n + 1
    <3>1. i - 1 = n /\ i # 0 /\ n \in 0 .. n
      BY <1>2, <2>3
    <3>2. h[i - 1] = state
      BY <1>1, <1>4, <3>1, Zenon
    <3> QED
      BY <1>2, <1>4, <2>3, <3>1, <3>2, Zenon
  <2> QED
    BY <1>2, <2>1, <2>2, <2>3
<1>6. h = [i \in 0 .. n + 1 |-> IF i = 0 THEN Start ELSE Undo(h[i - 1], more[i])]
  <2> DEFINE R(i) == IF i = 0 THEN Start ELSE Undo(h[i - 1], more[i])
             L(i) == IF i <= n THEN g[i] ELSE Undo(state, c)
  <2>1. \A i \in 0 .. n + 1 : h[i] = R(i)
    BY <1>5, Zenon
  <2>2. h = [i \in 0 .. n + 1 |-> h[i]]
    OBVIOUS
  <2> HIDE DEF h, L
  <2> QED
    BY <2>1, <2>2, Zenon
<1> HIDE DEF h
<1>7. Undoes(h, more)
  BY <1>2, <1>6, Zenon DEF Undoes
<1>8. h[Len(more)] = Undo(state, c)
  BY <1>2, <1>4, Zenon
<1>9. DecodeTo(more, Undo(state, c))
  BY <1>7, <1>8, Zenon DEF DecodeTo
<1> QED
  BY <1>9, Zenon DEF more

-----------------------------------------------------------------------------
(* The receiver.                                                           *)

Bits == {1, 2, 4, 8, 16, 32, 64, 128}

LEMMA BitValues == ASSUME NEW k \in 0 .. 7 PROVE 2^k \in Bits
<1>1. 2^0 = 1 /\ 2^1 = 2 /\ 2^2 = 4 /\ 2^3 = 8
  OBVIOUS
<1>2. 2^4 = 16 /\ 2^5 = 32 /\ 2^6 = 64 /\ 2^7 = 128
  OBVIOUS
<1>3. k = 0 \/ k = 1 \/ k = 2 \/ k = 3 \/ k = 4 \/ k = 5 \/ k = 6 \/ k = 7
  OBVIOUS
<1>4. /\ k = 0 => 2^k = 1
      /\ k = 1 => 2^k = 2
      /\ k = 2 => 2^k = 4
      /\ k = 3 => 2^k = 8
  BY <1>1, Zenon
<1>5. /\ k = 4 => 2^k = 16
      /\ k = 5 => 2^k = 32
      /\ k = 6 => 2^k = 64
      /\ k = 7 => 2^k = 128
  BY <1>2, Zenon
<1> DEFINE p == 2^k
<1>6. /\ k = 0 => p = 1
      /\ k = 1 => p = 2
      /\ k = 2 => p = 4
      /\ k = 3 => p = 8
      /\ k = 4 => p = 16
      /\ k = 5 => p = 32
      /\ k = 6 => p = 64
      /\ k = 7 => p = 128
  BY <1>4, <1>5, Zenon
<1> SUFFICES p \in Bits
  BY Zenon
<1> HIDE DEF p
<1> QED
  BY <1>3, <1>6 DEF Bits

LEMMA FlipMoves ==
  ASSUME NEW x \in Int, NEW k \in 0 .. 7
  PROVE  \E d \in Bits : Flip(x, k) = x + d \/ Flip(x, k) = x - d
BY BitValues, Zenon DEF Flip

LEMMA CheckSees ==
  ASSUME NEW s \in Int, NEW d \in Bits
  PROVE  Checksum(s + d) # Checksum(s) /\ Checksum(s - d) # Checksum(s)
<1>1. \A x \in Int : \A e \in Bits : Checksum(x + e) # Checksum(x)
  BY ChecksumSeesBits, Zenon DEF Bits
<1>2. s - d \in Int /\ (s - d) + d = s
  BY DEF Bits
<1>3. Checksum((s - d) + d) # Checksum(s - d)
  BY <1>1, <1>2, Zenon
<1> QED
  BY <1>1, <1>2, <1>3, Zenon

LEMMA ChecksumIsInt == \A s \in Int : Checksum(s) \in Int
BY DEF Checksum, tochar, SPACE

-----------------------------------------------------------------------------
(* What SendPacket puts on the line.                                       *)

N == Len(my_new_buffer)
Head3 == <<tochar(N + 3), tochar(sequence), DATA_TYPE>>
Covered == Head3 \o my_new_buffer
Sum3 == ((sum + tochar(N + 3)) + tochar(sequence)) + DATA_TYPE
Packet ==
  <<START_CHAR, tochar(N + 3), tochar(sequence), DATA_TYPE>>
    \o my_new_buffer \o <<Checksum(Sum3), END_CHAR>>

\* The data on its way: it adds up as the sender counted it, but for the signs,
\* and it decodes to the chunk.
DataInv ==
  /\ LoopInv
  /\ sum \in Int /\ sequence \in Seqs
  /\ \E m \in Int : AddUpTo(my_new_buffer, sum + (256 * m))
  /\ DecodeTo(my_new_buffer, [data |-> buffer, prefix |-> 0])

LEMMA PacketFacts ==
  ASSUME DataInv
  PROVE  /\ N \in 0 .. 220 /\ my_new_buffer \in Seq(Int) /\ Sum3 \in Int
         /\ Packet \in Seq(Int) /\ Len(Packet) = N + 6
         /\ Packet[2] = tochar(N + 3) /\ Packet[3] = tochar(sequence)
         /\ Packet[N + 5] = Checksum(Sum3)
         /\ Covered \in Seq(Int) /\ Len(Covered) = N + 3
         /\ \A i \in 1 .. N + 3 : Covered[i] = Packet[i + 1]
         /\ \A i \in 1 .. N : my_new_buffer[i] = Packet[i + 4]
<1> DEFINE L == tochar(N + 3)
           S == tochar(sequence)
           C == Checksum(Sum3)
           head == <<START_CHAR, L, S, DATA_TYPE>>
           tail == <<C, END_CHAR>>
           body == my_new_buffer
<1>1. body \in Seq(Int) /\ N \in 0 .. 220 /\ Len(body) = N
  <2>1. body \in Seq(Char) /\ N \in Nat /\ Len(buffer) \in Nat /\ N <= 2 * Len(buffer)
        /\ Len(buffer) <= MAX_CHUNK
    BY DEF DataInv, LoopInv, N
  <2>2. MAX_CHUNK \in Nat /\ MAX_CHUNK <= 110
    BY KermitPacketAssumption
  <2>3. body \in Seq(Int)
    <3>1. Char \subseteq Int
      BY DEF Char
    <3> QED
      BY <2>1, <3>1, SeqMonotonic, Zenon
  <2>4. N <= 220
    BY <2>1, <2>2
  <2>5. Len(body) = N
    BY DEF N
  <2> QED
    BY <2>1, <2>3, <2>4, <2>5
<1>2. L \in Int /\ S \in Int /\ Sum3 \in Int
  <2>1. sequence \in Int
    BY KermitPacketAssumption DEF DataInv
  <2> QED
    BY <1>1, <2>1 DEF tochar, SPACE, Sum3, DataInv, DATA_TYPE
<1>3. C \in Int
  BY <1>2, ChecksumIsInt
<1>4. Packet = (head \o body) \o tail
  BY Zenon DEF Packet
<1>5. Covered = Head3 \o body /\ Head3 = <<L, S, DATA_TYPE>>
  BY Zenon DEF Covered, Head3
<1> HIDE DEF L, S, C, body
<1>6. /\ head \in Seq(Int) /\ Len(head) = 4 /\ head[2] = L /\ head[3] = S /\ head[4] = DATA_TYPE
      /\ tail \in Seq(Int) /\ Len(tail) = 2 /\ tail[1] = C
      /\ Head3 \in Seq(Int) /\ Len(Head3) = 3 /\ Head3[1] = L /\ Head3[2] = S
      /\ Head3[3] = DATA_TYPE
  BY <1>2, <1>3, <1>5 DEF START_CHAR, DATA_TYPE, END_CHAR
<1> HIDE DEF head, tail
<1> DEFINE hb == head \o body
<1>7. /\ hb \in Seq(Int) /\ Len(hb) = N + 4
      /\ \A i \in 1 .. N + 4 : hb[i] = IF i <= 4 THEN head[i] ELSE body[i - 4]
  <2>1. /\ hb \in Seq(Int) /\ Len(hb) = Len(head) + Len(body)
        /\ \A i \in 1 .. Len(head) + Len(body) :
             hb[i] = IF i <= Len(head) THEN head[i] ELSE body[i - Len(head)]
    BY <1>1, <1>6, ConcatProperties
  <2> HIDE DEF hb
  <2>2. Len(head) + Len(body) = N + 4
    BY <1>1, <1>6
  <2> QED
    BY <1>6, <2>1, <2>2, Zenon
<1>8. /\ Packet \in Seq(Int) /\ Len(Packet) = N + 6
      /\ \A i \in 1 .. N + 6 : Packet[i] = IF i <= N + 4 THEN hb[i] ELSE tail[i - (N + 4)]
  <2> HIDE DEF hb
  <2>1. /\ hb \o tail \in Seq(Int) /\ Len(hb \o tail) = Len(hb) + Len(tail)
        /\ \A i \in 1 .. Len(hb) + Len(tail) :
             (hb \o tail)[i] = IF i <= Len(hb) THEN hb[i] ELSE tail[i - Len(hb)]
    BY <1>6, <1>7, ConcatProperties
  <2>2. Len(hb) + Len(tail) = N + 6
    BY <1>1, <1>6, <1>7
  <2>3. Packet = hb \o tail
    BY <1>4 DEF hb
  <2> QED
    BY <1>7, <2>1, <2>2, <2>3, Zenon
<1>9. /\ Covered \in Seq(Int) /\ Len(Covered) = N + 3
      /\ \A i \in 1 .. N + 3 : Covered[i] = IF i <= 3 THEN Head3[i] ELSE body[i - 3]
  <2>1. /\ Covered \in Seq(Int) /\ Len(Covered) = Len(Head3) + Len(body)
        /\ \A i \in 1 .. Len(Head3) + Len(body) :
             Covered[i] = IF i <= Len(Head3) THEN Head3[i] ELSE body[i - Len(Head3)]
    BY <1>1, <1>5, <1>6, ConcatProperties
  <2>2. Len(Head3) + Len(body) = N + 3
    BY <1>1, <1>6
  <2> QED
    BY <1>6, <2>1, <2>2, Zenon
<1> HIDE DEF hb
<1>10. Packet[2] = L /\ Packet[3] = S /\ Packet[4] = DATA_TYPE
  <2>1. /\ 2 \in 1 .. N + 6 /\ 3 \in 1 .. N + 6 /\ 4 \in 1 .. N + 6
        /\ 2 <= N + 4 /\ 3 <= N + 4 /\ 4 <= N + 4
    BY <1>1
  <2>2. 2 \in 1 .. N + 4 /\ 3 \in 1 .. N + 4 /\ 4 \in 1 .. N + 4
    BY <1>1
  <2>3. hb[2] = L /\ hb[3] = S /\ hb[4] = DATA_TYPE
    BY <1>6, <1>7, <2>2
  <2> QED
    BY <1>8, <2>1, <2>3, Zenon
<1>11. Packet[N + 5] = C
  <2>1. N + 5 \in 1 .. N + 6 /\ ~(N + 5 <= N + 4) /\ (N + 5) - (N + 4) = 1
    BY <1>1
  <2> QED
    BY <1>6, <1>8, <2>1, Zenon
<1>12. ASSUME NEW i \in 1 .. N PROVE body[i] = Packet[i + 4]
  <2>1. /\ i + 4 \in 1 .. N + 6 /\ i + 4 \in 1 .. N + 4 /\ i + 4 <= N + 4
        /\ ~(i + 4 <= 4) /\ (i + 4) - 4 = i
    BY <1>1
  <2> QED
    BY <1>7, <1>8, <2>1, Zenon
<1>13. ASSUME NEW i \in 1 .. N + 3 PROVE Covered[i] = Packet[i + 1]
  <2>1. CASE i <= 3
    <3>1. i = 1 \/ i = 2 \/ i = 3
      BY <1>1, <2>1
    <3>2. 1 + 1 = 2 /\ 2 + 1 = 3 /\ 3 + 1 = 4
      OBVIOUS
    <3> QED
      BY <1>6, <1>9, <1>10, <2>1, <3>1, <3>2, Zenon
  <2>2. CASE ~(i <= 3)
    <3>1. i - 3 \in 1 .. N /\ (i - 3) + 4 = i + 1
      BY <1>1, <2>2
    <3> QED
      BY <1>9, <1>12, <2>2, <3>1, Zenon
  <2> QED
    BY <2>1, <2>2
<1> QED
  BY <1>1, <1>2, <1>8, <1>9, <1>10, <1>11, <1>12, <1>13, Zenon DEF L, S, C, body

-----------------------------------------------------------------------------
(* One turn of the escape loop keeps the count and the decoding.           *)

LEMMA OneMoreAddsUp ==
  ASSUME NEW a \in Seq(Int), NEW s \in Int, AddUpTo(a, s), NEW c \in Int
  PROVE  AddUpTo(Append(a, c), s + c)
<1> DEFINE one == <<c>>
<1>1. one \in Seq(Int) /\ AddUpTo(one, c)
  BY OneAddsUp
<1>2. Append(a, c) = a \o one
  BY AppendIsConcat
<1> HIDE DEF one
<1>3. AddUpTo(a \o one, s + c)
  BY <1>1, BothAddUp
<1> QED
  BY <1>2, <1>3, Zenon

LEMMA PairAddsUp ==
  ASSUME NEW c \in Int, NEW d \in Int PROVE AddUpTo(<<c, d>>, c + d)
<1> DEFINE one == <<c>>
<1>1. one \in Seq(Int) /\ AddUpTo(one, c)
  BY OneAddsUp
<1> DEFINE more == Append(one, d)
           both == <<c, d>>
<1>2. more = both
  <2>1. more \in Seq(Int) /\ Len(more) = 2 /\ more[1] = c /\ more[2] = d
    OBVIOUS
  <2>2. both \in Seq(Int) /\ Len(both) = 2 /\ both[1] = c /\ both[2] = d
    OBVIOUS
  <2> HIDE DEF more, both
  <2>3. \A i \in 1 .. Len(more) : more[i] = both[i]
    BY <2>1, <2>2
  <2> QED
    BY <2>1, <2>2, <2>3, SeqEqual
<1> HIDE DEF one
<1>3. AddUpTo(Append(one, d), c + d)
  BY <1>1, OneMoreAddsUp
<1> QED
  BY <1>2, <1>3, Zenon

LEMMA PairDecodes ==
  ASSUME NEW bytes \in Seq(Int), NEW chunk, DecodeTo(bytes, [data |-> chunk, prefix |-> 0]),
         NEW c \in Int
  PROVE  DecodeTo(bytes \o <<K_ESCAPE, c>>, [data |-> Append(chunk, ktrans(c)), prefix |-> 0])
<1> DEFINE s0 == [data |-> chunk, prefix |-> 0]
           s1 == [data |-> chunk, prefix |-> K_ESCAPE]
           s2 == [data |-> Append(chunk, ktrans(c)), prefix |-> 0]
           b1 == Append(bytes, K_ESCAPE)
           b2 == Append(b1, c)
<1>1. Undo(s0, K_ESCAPE) = s1
  BY DEF Undo, K_ESCAPE
<1>2. Undo(s1, c) = s2
  BY DEF Undo, K_ESCAPE
<1>3. b1 \in Seq(Int) /\ K_ESCAPE \in Int
  BY DEF K_ESCAPE
<1>4. b2 = bytes \o <<K_ESCAPE, c>>
  BY DEF K_ESCAPE
<1> HIDE DEF s0, s1, s2
<1>5. DecodeTo(bytes, s0)
  BY Zenon DEF s0
<1>6. DecodeTo(b1, s1)
  <2>1. DecodeTo(b1, Undo(s0, K_ESCAPE))
    BY <1>3, <1>5, OneMoreDecodes
  <2> QED
    BY <1>1, <2>1, Zenon
<1> HIDE DEF b1
<1>7. DecodeTo(b2, s2)
  <2>1. DecodeTo(b2, Undo(s1, c))
    BY <1>3, <1>6, OneMoreDecodes
  <2> QED
    BY <1>2, <2>1, Zenon
<1> QED
  BY <1>4, <1>7, Zenon DEF s2

LEMMA PlainDecodes ==
  ASSUME NEW bytes \in Seq(Int), NEW chunk, DecodeTo(bytes, [data |-> chunk, prefix |-> 0]),
         NEW c \in Int, c # K_ESCAPE
  PROVE  DecodeTo(Append(bytes, c), [data |-> Append(chunk, c), prefix |-> 0])
<1> DEFINE s0 == [data |-> chunk, prefix |-> 0]
           s1 == [data |-> Append(chunk, c), prefix |-> 0]
<1>1. Undo(s0, c) = s1
  BY DEF Undo, K_ESCAPE
<1>2. DecodeTo(bytes, s0)
  OBVIOUS
<1> HIDE DEF s0
<1>3. DecodeTo(Append(bytes, c), Undo(s0, c))
  BY <1>2, OneMoreDecodes
<1> QED
  BY <1>1, <1>3, Zenon

LEMMA EscapeKeepsData ==
  ASSUME DataInv, LoopInv', EscapeByte
  PROVE  DataInv'
<1> DEFINE pair(b) == <<K_ESCAPE, k_escape(b)>>
           S(bytes, s) == \E m \in Int : AddUpTo(bytes, s + (256 * m))
           D(bytes, chunk) == DecodeTo(bytes, [data |-> chunk, prefix |-> 0])
<1>1. PICK b \in Bytes :
        /\ buffer' = Append(buffer, b)
        /\ IF should_escape(b)
             THEN /\ my_new_buffer' = my_new_buffer \o pair(b)
                  /\ sum' = (sum + K_ESCAPE) + Signed(k_escape(b))
             ELSE /\ my_new_buffer' = Append(my_new_buffer, b)
                  /\ sum' = sum + Signed(b)
  BY DEF EscapeByte
<1>2. b \in Char
  BY KermitPacketAssumption
<1>3. my_new_buffer \in Seq(Int) /\ sum \in Int /\ sequence' \in Seqs
  BY PacketFacts DEF DataInv, EscapeByte
<1>4. S(my_new_buffer, sum) /\ D(my_new_buffer, buffer)
  BY DEF DataInv
<1>5. PICK m \in Int : AddUpTo(my_new_buffer, sum + (256 * m))
  BY <1>4
<1>6. \A c \in Char : c \in Int /\ Signed(c) \in Int /\ (Signed(c) = c \/ Signed(c) = c - 256)
  BY DEF Char, Signed
<1>7. CASE should_escape(b)
  <2> DEFINE e == k_escape(b)
  <2>1. e \in Char /\ ktrans(e) = b
    BY <1>2, <1>7, EscapeUndone
  <2>2. e \in Int /\ Signed(e) \in Int /\ (Signed(e) = e \/ Signed(e) = e - 256)
    BY <1>6, <2>1
  <2>3. /\ my_new_buffer' = my_new_buffer \o <<K_ESCAPE, e>>
        /\ sum' = (sum + K_ESCAPE) + Signed(e)
    BY <1>1, <1>7
  <2> HIDE DEF e
  <2>4. sum' \in Int
    BY <1>3, <2>2, <2>3 DEF K_ESCAPE
  <2>5. D(my_new_buffer', buffer')
    <3>1. D(my_new_buffer \o <<K_ESCAPE, e>>, Append(buffer, ktrans(e)))
      <4>1. DecodeTo(my_new_buffer, [data |-> buffer, prefix |-> 0])
        BY <1>4
      <4> QED
        BY <1>3, <2>2, <4>1, PairDecodes
    <3> HIDE DEF D
    <3> QED
      BY <1>1, <2>1, <2>3, <3>1, Zenon
  <2>6. S(my_new_buffer', sum')
    <3> DEFINE total == sum + (256 * m)
    <3>1. total \in Int /\ K_ESCAPE \in Int /\ K_ESCAPE + e \in Int
      BY <1>3, <2>2 DEF K_ESCAPE
    <3>2. <<K_ESCAPE, e>> \in Seq(Int) /\ AddUpTo(<<K_ESCAPE, e>>, K_ESCAPE + e)
      BY <2>2, <3>1, PairAddsUp
    <3>3. AddUpTo(my_new_buffer, total)
      BY <1>5
    <3> HIDE DEF total
    <3> DEFINE two == <<K_ESCAPE, e>>
               more == K_ESCAPE + e
    <3>5. two \in Seq(Int) /\ AddUpTo(two, more) /\ more \in Int
      BY <3>1, <3>2
    <3> HIDE DEF two, more
    <3>4. AddUpTo(my_new_buffer \o two, total + more)
      BY <1>3, <3>1, <3>3, <3>5, BothAddUp
    <3>6. \E n \in Int : total + more = sum' + (256 * n)
      <4>1. CASE Signed(e) = e
        <5>1. total + more = sum' + (256 * m)
          BY <1>3, <2>2, <2>3, <4>1 DEF total, more, K_ESCAPE
        <5> QED
          BY <5>1
      <4>2. CASE Signed(e) = e - 256
        <5>1. m + 1 \in Int /\ total + more = sum' + (256 * (m + 1))
          BY <1>3, <2>2, <2>3, <4>2 DEF total, more, K_ESCAPE
        <5> QED
          BY <5>1
      <4> QED
        BY <2>2, <4>1, <4>2
    <3>7. PICK n \in Int : total + more = sum' + (256 * n)
      BY <3>6
    <3>8. AddUpTo(my_new_buffer', sum' + (256 * n))
      BY <2>3, <3>4, <3>7, Zenon DEF two
    <3> QED
      BY <3>8
  <2> HIDE DEF S, D
  <2> QED
    BY <1>3, <2>4, <2>5, <2>6, Zenon DEF DataInv, S, D
<1>8. CASE ~should_escape(b)
  <2>1. b # K_ESCAPE
    BY <1>8 DEF should_escape, K_ESCAPE
  <2>2. b \in Int /\ Signed(b) \in Int /\ (Signed(b) = b \/ Signed(b) = b - 256)
    BY <1>2, <1>6
  <2>3. my_new_buffer' = Append(my_new_buffer, b) /\ sum' = sum + Signed(b)
    BY <1>1, <1>8
  <2>4. sum' \in Int
    BY <1>3, <2>2, <2>3
  <2>5. D(my_new_buffer', buffer')
    <3>1. D(Append(my_new_buffer, b), Append(buffer, b))
      <4>1. DecodeTo(my_new_buffer, [data |-> buffer, prefix |-> 0])
        BY <1>4
      <4> QED
        BY <1>3, <2>1, <2>2, <4>1, PlainDecodes
    <3> HIDE DEF D
    <3> QED
      BY <1>1, <2>3, <3>1, Zenon
  <2>6. S(my_new_buffer', sum')
    <3> DEFINE total == sum + (256 * m)
               one == <<b>>
    <3>1. total \in Int /\ one \in Seq(Int) /\ AddUpTo(one, b) /\ AddUpTo(my_new_buffer, total)
      BY <1>3, <1>5, <2>2, OneAddsUp
    <3>2. my_new_buffer' = my_new_buffer \o one
      BY <1>3, <2>2, <2>3, AppendIsConcat
    <3> HIDE DEF total, one
    <3>3. AddUpTo(my_new_buffer \o one, total + b)
      BY <1>3, <2>2, <3>1, BothAddUp
    <3>4. \E n \in Int : total + b = sum' + (256 * n)
      <4>1. CASE Signed(b) = b
        <5>1. total + b = sum' + (256 * m)
          BY <1>3, <2>2, <2>3, <4>1 DEF total
        <5> QED
          BY <5>1
      <4>2. CASE Signed(b) = b - 256
        <5>1. m + 1 \in Int /\ total + b = sum' + (256 * (m + 1))
          BY <1>3, <2>2, <2>3, <4>2 DEF total
        <5> QED
          BY <5>1
      <4> QED
        BY <2>2, <4>1, <4>2
    <3>5. PICK n \in Int : total + b = sum' + (256 * n)
      BY <3>4
    <3>6. AddUpTo(my_new_buffer', sum' + (256 * n))
      BY <3>2, <3>3, <3>5, Zenon
    <3> QED
      BY <3>6
  <2> HIDE DEF S, D
  <2> QED
    BY <1>3, <2>4, <2>5, <2>6, Zenon DEF DataInv, S, D
<1> QED
  BY <1>7, <1>8

-----------------------------------------------------------------------------
(* The line.                                                               *)

\* The packet on the line is the one that was sent, or that with one bit changed.
LineInv ==
  /\ pc \in {"escape", "sent", "received"}
  /\ pc = "escape" => fault = "none"
  /\ pc = "sent" =>
       \/ fault = "none" /\ wire = Packet
       \/ /\ fault = "flip"
          /\ \E i \in 3 .. N + 5, k \in 0 .. 7 : wire = [Packet EXCEPT ![i] = Flip(Packet[i], k)]

\* The sum of what the checksum covers.
LEMMA CoveredAddsUp ==
  ASSUME DataInv
  PROVE  \E m \in Int : AddUpTo(Covered, Sum3 + (256 * m))
<1> DEFINE L == tochar(N + 3)
           S == tochar(sequence)
           T == DATA_TYPE
           pair == <<L, S>>
<1>1. PICK m \in Int : AddUpTo(my_new_buffer, sum + (256 * m))
  BY DEF DataInv
<1>2. /\ L \in Int /\ S \in Int /\ T \in Int /\ sum \in Int /\ my_new_buffer \in Seq(Int)
  <2>1. N \in Int /\ my_new_buffer \in Seq(Int)
    <3>1. N \in 0 .. 220 /\ my_new_buffer \in Seq(Int)
      BY PacketFacts, Zenon
    <3> QED
      BY <3>1
  <2>2. sequence \in Int
    BY KermitPacketAssumption DEF DataInv
  <2> QED
    BY <2>1, <2>2 DEF tochar, SPACE, DATA_TYPE, DataInv
<1> HIDE DEF L, S, T
<1>3. pair \in Seq(Int) /\ AddUpTo(pair, L + S)
  BY <1>2, PairAddsUp
<1>4. Append(pair, T) = Head3
  <2>1. Head3 = <<L, S, T>>
    BY Zenon DEF Head3, L, S, T
  <2> DEFINE more == Append(pair, T)
             all == <<L, S, T>>
  <2>2. more \in Seq(Int) /\ Len(more) = 3 /\ more[1] = L /\ more[2] = S /\ more[3] = T
    BY <1>2
  <2>3. all \in Seq(Int) /\ Len(all) = 3 /\ all[1] = L /\ all[2] = S /\ all[3] = T
    BY <1>2
  <2> HIDE DEF more, all
  <2>4. \A i \in 1 .. Len(more) : more[i] = all[i]
    BY <2>2, <2>3
  <2>5. more = all
    BY <2>2, <2>3, <2>4, SeqEqual
  <2> QED
    BY <2>1, <2>5, Zenon DEF more, all
<1> DEFINE p == L + S
           h == p + T
           t == sum + (256 * m)
<1>5. p \in Int /\ h \in Int /\ t \in Int
  BY <1>2
<1> HIDE DEF pair
<1>6. AddUpTo(pair, p)
  BY <1>3
<1> HIDE DEF p
<1>7. AddUpTo(Append(pair, T), h)
  BY <1>2, <1>3, <1>5, <1>6, OneMoreAddsUp
<1>8. Append(pair, T) \in Seq(Int)
  BY <1>2, <1>3
<1>9. Head3 \in Seq(Int) /\ AddUpTo(Head3, h)
  BY <1>4, <1>7, <1>8, Zenon
<1> HIDE DEF h
<1>10. AddUpTo(my_new_buffer, t)
  BY <1>1
<1> HIDE DEF t
<1>11. AddUpTo(Head3 \o my_new_buffer, h + t)
  BY <1>2, <1>5, <1>9, <1>10, BothAddUp
<1>12. h + t = Sum3 + (256 * m)
  <2>1. Sum3 = ((sum + L) + S) + T
    BY Zenon DEF Sum3, L, S, T
  <2> QED
    BY <1>2, <2>1 DEF h, t, p
<1>13. AddUpTo(Covered, Sum3 + (256 * m))
  BY <1>11, <1>12, Zenon DEF Covered
<1> QED
  BY <1>13

\* What the receiver cuts out of the packet on the line.
LEMMA PiecesOfPacket ==
  ASSUME DataInv
  PROVE  SubSeq(Packet, 2, N + 4) = Covered /\ SubSeq(Packet, 5, N + 4) = my_new_buffer
<1> DEFINE c == SubSeq(Packet, 2, N + 4)
           d == SubSeq(Packet, 5, N + 4)
           body == my_new_buffer
<1>1. /\ N \in Nat /\ body \in Seq(Int) /\ Len(body) = N
      /\ Packet \in Seq(Int) /\ Len(Packet) = N + 6
      /\ Covered \in Seq(Int) /\ Len(Covered) = N + 3
  BY PacketFacts DEF N
<1>2. /\ \A i \in 1 .. N + 3 : Covered[i] = Packet[i + 1]
      /\ \A i \in 1 .. N : body[i] = Packet[i + 4]
  BY PacketFacts, Zenon
<1>3. \A i \in 1 .. N + 6 : Packet[i] \in Int
  BY <1>1, ElementOfSeq
<1>4. /\ c \in Seq(Int) /\ Len(c) = N + 3
      /\ \A i \in 1 .. N + 3 : c[i] = Packet[i + 1]
  <2>1. \A i \in 2 .. N + 4 : Packet[i] \in Int
    BY <1>1, <1>3
  <2>2. /\ c \in Seq(Int) /\ Len(c) = IF 2 <= N + 4 THEN ((N + 4) - 2) + 1 ELSE 0
        /\ \A i \in 1 .. ((N + 4) - 2) + 1 : c[i] = Packet[(2 + i) - 1]
    <3>1. 2 \in Int /\ N + 4 \in Int
      BY <1>1
    <3> QED
      BY <2>1, <3>1, SubSeqProperties
  <2>3. 2 <= N + 4 /\ ((N + 4) - 2) + 1 = N + 3 /\ \A i \in 1 .. N + 3 : (2 + i) - 1 = i + 1
    BY <1>1
  <2> HIDE DEF c
  <2> QED
    BY <2>2, <2>3, Zenon
<1>5. /\ d \in Seq(Int) /\ Len(d) = N
      /\ \A i \in 1 .. N : d[i] = Packet[i + 4]
  <2>1. \A i \in 5 .. N + 4 : Packet[i] \in Int
    BY <1>1, <1>3
  <2>2. /\ d \in Seq(Int) /\ Len(d) = IF 5 <= N + 4 THEN ((N + 4) - 5) + 1 ELSE 0
        /\ \A i \in 1 .. ((N + 4) - 5) + 1 : d[i] = Packet[(5 + i) - 1]
    <3>1. 5 \in Int /\ N + 4 \in Int
      BY <1>1
    <3> QED
      BY <2>1, <3>1, SubSeqProperties
  <2>3. ((N + 4) - 5) + 1 = N /\ \A i \in 1 .. N : (5 + i) - 1 = i + 4
    BY <1>1
  <2> HIDE DEF d
  <2>4. Len(d) = N
    BY <1>1, <2>2
  <2> QED
    BY <2>2, <2>3, <2>4, Zenon
<1> HIDE DEF c, d, body
<1>6. c = Covered
  BY <1>1, <1>2, <1>4, SeqEqual
<1>7. d = body
  <2>1. Len(d) = Len(body) /\ \A i \in 1 .. Len(d) : d[i] = body[i]
    BY <1>1, <1>2, <1>5, Zenon
  <2> QED
    BY <1>1, <1>5, <2>1, SeqEqual
<1> QED
  BY <1>6, <1>7, Zenon DEF c, d, body

\* The packet as it was sent.
LEMMA Intact ==
  ASSUME DataInv, pc = "sent", wire = Packet, ReceivePacket
  PROVE  accepted' /\ data' = buffer /\ untochar(wire[3]) = sequence
<1> DEFINE n == untochar(wire[2]) - 3
           whole == n >= 0 /\ n + 5 <= Len(wire)
<1>1. /\ N \in 0 .. 220 /\ Len(Packet) = N + 6
      /\ Packet[2] = tochar(N + 3) /\ Packet[3] = tochar(sequence)
      /\ Packet[N + 5] = Checksum(Sum3) /\ Sum3 \in Int
  BY PacketFacts, Zenon
<1>2. n = N /\ whole
  <2>1. untochar(Packet[2]) = N + 3
    <3>1. N + 3 \in 0 .. 223
      BY <1>1
    <3>2. untochar(tochar(N + 3)) = N + 3
      BY <3>1, NumberUndone
    <3> QED
      BY <1>1, <3>2, Zenon
  <2> QED
    BY <1>1, <2>1
<1>3. /\ accepted' = (whole /\ wire[n + 5] = Checksum(SumOf(SubSeq(wire, 2, n + 4))))
      /\ data' = IF whole THEN Unescape(SubSeq(wire, 5, n + 4)) ELSE <<>>
  BY Zenon DEF ReceivePacket
<1> HIDE DEF n, whole
<1>4. SubSeq(wire, 2, n + 4) = Covered /\ SubSeq(wire, 5, n + 4) = my_new_buffer
  BY <1>2, PiecesOfPacket, Zenon
<1>5. Checksum(SumOf(Covered)) = Checksum(Sum3)
  <2>1. PICK m \in Int : AddUpTo(Covered, Sum3 + (256 * m))
    BY CoveredAddsUp
  <2>2. Covered \in Seq(Int)
    BY PacketFacts
  <2>3. SumOf(Covered) = Sum3 + (256 * m)
    BY <2>1, <2>2, SumValue, Zenon
  <2>4. Checksum(Sum3 + (256 * m)) = Checksum(Sum3)
    BY <1>1, ChecksumPeriodic
  <2> QED
    BY <2>3, <2>4, Zenon
<1>6. Unescape(my_new_buffer) = buffer
  <2>1. Len(my_new_buffer) \in Nat
    BY DEF DataInv, LoopInv
  <2>2. DecodeTo(my_new_buffer, [data |-> buffer, prefix |-> 0])
    BY DEF DataInv
  <2>3. Unescape(my_new_buffer) = [data |-> buffer, prefix |-> 0].data
    BY <2>1, <2>2, Decoded, Zenon
  <2> QED
    BY <2>3
<1>7. untochar(wire[3]) = sequence
  <2>1. sequence \in 0 .. 223
    BY KermitPacketAssumption DEF DataInv
  <2>2. untochar(tochar(sequence)) = sequence
    BY <2>1, NumberUndone
  <2> QED
    BY <1>1, <2>2, Zenon
<1>8. accepted'
  BY <1>1, <1>2, <1>3, <1>4, <1>5, Zenon
<1> QED
  BY <1>2, <1>3, <1>4, <1>6, <1>7, <1>8, Zenon

\* The packet with one bit changed.
LEMMA Damaged ==
  ASSUME DataInv, pc = "sent", NEW j \in 3 .. N + 5, NEW k \in 0 .. 7,
         wire = [Packet EXCEPT ![j] = Flip(Packet[j], k)], ReceivePacket
  PROVE  ~accepted'
<1> DEFINE n == untochar(wire[2]) - 3
           whole == n >= 0 /\ n + 5 <= Len(wire)
           v == Flip(Packet[j], k)
<1>1. /\ N \in 0 .. 220 /\ Packet \in Seq(Int) /\ Len(Packet) = N + 6
      /\ Packet[2] = tochar(N + 3) /\ Packet[N + 5] = Checksum(Sum3) /\ Sum3 \in Int
  BY PacketFacts, Zenon
<1>2. Packet[j] \in Int /\ j \in 1 .. Len(Packet)
  <2>1. j \in 1 .. Len(Packet)
    BY <1>1
  <2> QED
    BY <1>1, <2>1, ElementOfSeq
<1>3. PICK d \in Bits : v = Packet[j] + d \/ v = Packet[j] - d
  BY <1>2, FlipMoves
<1>4. d \in Int /\ d # 0
  BY DEF Bits
<1>5. v \in Int /\ v # Packet[j]
  <2> HIDE DEF v
  <2> QED
    BY <1>2, <1>3, <1>4
<1> HIDE DEF v
<1>6. wire = [Packet EXCEPT ![j] = v]
  BY Zenon DEF v
<1>7. /\ wire \in Seq(Int) /\ Len(wire) = N + 6
      /\ \A i \in 1 .. N + 6 : wire[i] = IF i = j THEN v ELSE Packet[i]
  <2>1. /\ [Packet EXCEPT ![j] = v] \in Seq(Int)
        /\ Len([Packet EXCEPT ![j] = v]) = Len(Packet)
        /\ \A i \in 1 .. Len(Packet) : [Packet EXCEPT ![j] = v][i] = IF i = j THEN v ELSE Packet[i]
    BY <1>1, <1>2, <1>5, ExceptSeq
  <2> QED
    BY <1>1, <1>6, <2>1, Zenon
<1>8. n = N
  <2>1. 2 \in 1 .. N + 6 /\ 2 # j
    BY <1>1
  <2>2. wire[2] = tochar(N + 3)
    BY <1>1, <1>7, <2>1, Zenon
  <2>3. untochar(wire[2]) = N + 3
    <3>1. N + 3 \in 0 .. 223
      BY <1>1
    <3>2. untochar(tochar(N + 3)) = N + 3
      BY <3>1, NumberUndone
    <3> QED
      BY <2>2, <3>2, Zenon
  <2> QED
    BY <1>1, <2>3
<1>9. accepted' => wire[n + 5] = Checksum(SumOf(SubSeq(wire, 2, n + 4)))
  BY Zenon DEF ReceivePacket
<1> HIDE DEF n, whole
<1> DEFINE cut == SubSeq(wire, 2, N + 4)
<1>10. SUFFICES wire[N + 5] # Checksum(SumOf(cut))
  BY <1>8, <1>9, Zenon
<1>11. PICK m \in Int : AddUpTo(Covered, Sum3 + (256 * m))
  BY CoveredAddsUp
<1> DEFINE total == Sum3 + (256 * m)
<1>12. total \in Int /\ AddUpTo(Covered, total) /\ Checksum(total) = Checksum(Sum3)
  <2>1. total \in Int
    BY <1>1
  <2>2. Checksum(Sum3 + (256 * m)) = Checksum(Sum3)
    BY <1>1, ChecksumPeriodic
  <2> QED
    BY <1>11, <2>1, <2>2, Zenon
<1> HIDE DEF total
<1>13. /\ Covered \in Seq(Int) /\ Len(Covered) = N + 3
       /\ \A i \in 1 .. N + 3 : Covered[i] = Packet[i + 1]
  BY PacketFacts
<1>14. /\ cut \in Seq(Int) /\ Len(cut) = N + 3
       /\ \A i \in 1 .. N + 3 : cut[i] = wire[i + 1]
  <2>1. \A i \in 2 .. N + 4 : wire[i] \in Int
    <3>1. \A i \in 2 .. N + 4 : i \in 1 .. Len(wire)
      BY <1>1, <1>7
    <3> QED
      BY <1>7, <3>1, ElementOfSeq
  <2>2. /\ cut \in Seq(Int) /\ Len(cut) = IF 2 <= N + 4 THEN ((N + 4) - 2) + 1 ELSE 0
        /\ \A i \in 1 .. ((N + 4) - 2) + 1 : cut[i] = wire[(2 + i) - 1]
    <3>1. 2 \in Int /\ N + 4 \in Int
      BY <1>1
    <3> QED
      BY <2>1, <3>1, SubSeqProperties
  <2>3. 2 <= N + 4 /\ ((N + 4) - 2) + 1 = N + 3 /\ \A i \in 1 .. N + 3 : (2 + i) - 1 = i + 1
    BY <1>1
  <2> HIDE DEF cut
  <2> QED
    BY <2>2, <2>3, Zenon
<1> HIDE DEF cut
<1>15. CASE j = N + 5
  <2>1. \A i \in 1 .. N + 3 : i + 1 \in 1 .. N + 6 /\ i + 1 # j
    BY <1>1, <1>15
  <2>2. \A i \in 1 .. N + 3 : cut[i] = Covered[i]
    BY <1>7, <1>13, <1>14, <2>1, Zenon
  <2>3. cut = Covered
    BY <1>13, <1>14, <2>2, SeqEqual
  <2>4. SumOf(cut) = total
    BY <1>12, <1>13, <2>3, SumValue, Zenon
  <2>5. N + 5 \in 1 .. N + 6
    BY <1>1
  <2>6. wire[N + 5] = v
    BY <1>7, <1>15, <2>5, Zenon
  <2> QED
    BY <1>1, <1>5, <1>12, <1>15, <2>4, <2>6, Zenon
<1>16. CASE j # N + 5
  <2> DEFINE i == j - 1
             other == [Covered EXCEPT ![i] = v]
  <2>1. i \in 1 .. N + 3 /\ i + 1 = j
    BY <1>1, <1>16
  <2>2. Covered[i] = Packet[j]
    BY <1>13, <2>1, Zenon
  <2> HIDE DEF i
  <2>3. /\ other \in Seq(Int) /\ Len(other) = N + 3
        /\ \A l \in 1 .. N + 3 : other[l] = IF l = i THEN v ELSE Covered[l]
    BY <1>5, <1>13, <2>1, ExceptSeq
  <2>4. AddUpTo(other, (total + v) - Packet[j])
    <3>1. i \in 1 .. Len(Covered)
      BY <1>13, <2>1
    <3>2. AddUpTo([Covered EXCEPT ![i] = v], (total + v) - Covered[i])
      BY <1>5, <1>12, <1>13, <3>1, ChangeAddsUp
    <3> QED
      BY <2>2, <3>2, Zenon
  <2> HIDE DEF other
  <2>5. ASSUME NEW l \in 1 .. N + 3 PROVE cut[l] = other[l]
    <3>1. l + 1 \in 1 .. N + 6 /\ (l + 1 = j <=> l = i)
      BY <1>1, <2>1
    <3> QED
      BY <1>7, <1>13, <1>14, <2>3, <3>1, Zenon
  <2>6. cut = other
    BY <1>14, <2>3, <2>5, SeqEqual
  <2>7. SumOf(cut) = (total + v) - Packet[j]
    BY <2>3, <2>4, <2>6, SumValue, Zenon
  <2>8. SumOf(cut) = total + d \/ SumOf(cut) = total - d
    <3>1. (total + v) - Packet[j] = total + d \/ (total + v) - Packet[j] = total - d
      BY <1>2, <1>3, <1>4, <1>12
    <3> QED
      BY <2>7, <3>1, Zenon
  <2>9. Checksum(SumOf(cut)) # Checksum(total)
    <3>1. Checksum(total + d) # Checksum(total) /\ Checksum(total - d) # Checksum(total)
      BY <1>12, CheckSees
    <3> QED
      BY <2>8, <3>1, Zenon
  <2>10. N + 5 \in 1 .. N + 6 /\ N + 5 # j
    BY <1>1, <1>16
  <2>11. wire[N + 5] = Checksum(Sum3)
    BY <1>1, <1>7, <2>10, Zenon
  <2> QED
    BY <1>12, <2>9, <2>11, Zenon
<1> QED
  BY <1>15, <1>16

LEMMA DataInvariance == Spec => []DataInv
<1>1. Init => DataInv
  <2> SUFFICES ASSUME Init PROVE DataInv
    OBVIOUS
  <2>1. buffer = <<>> /\ my_new_buffer = <<>> /\ sum = 0 /\ sequence \in Seqs
    BY DEF Init
  <2>2. LoopInv
    BY <2>1, KermitPacketAssumption DEF LoopInv, NoControlInData
  <2>3. AddUpTo(my_new_buffer, sum + (256 * 0))
    <3>1. sum + (256 * 0) = 0
      BY <2>1
    <3> QED
      BY <2>1, <3>1, NothingAddsUp, Zenon
  <2>4. DecodeTo(my_new_buffer, [data |-> buffer, prefix |-> 0])
    BY <2>1, NothingDecodes, Zenon DEF Start
  <2>5. \E m \in Int : AddUpTo(my_new_buffer, sum + (256 * m))
    BY <2>3
  <2> QED
    BY <2>1, <2>2, <2>4, <2>5 DEF DataInv
<1>2. LoopInv' /\ DataInv /\ [Next]_vars => DataInv'
  <2> SUFFICES ASSUME LoopInv', DataInv, [Next]_vars PROVE DataInv'
    OBVIOUS
  <2>1. CASE EscapeByte
    BY <2>1, EscapeKeepsData
  <2>2. CASE SendPacket \/ FlipBit \/ ReceivePacket \/ UNCHANGED vars
    <3>1. UNCHANGED <<sequence, buffer, my_new_buffer, sum>>
      BY <2>2 DEF SendPacket, FlipBit, ReceivePacket, vars
    <3> QED
      BY <3>1, Zenon DEF DataInv
  <2> QED
    BY <2>1, <2>2 DEF Next
<1> QED
  BY <1>1, <1>2, LoopInvariance, PTL DEF Spec

\* What arrived is judged rightly.
Judged == RoundTrip /\ DamageRefused

LEMMA LineInvariance == Spec => [](LineInv /\ Judged)
<1>1. Init => LineInv /\ Judged
  BY DEF Init, LineInv, Judged, RoundTrip, DamageRefused
<1>2. DataInv /\ LineInv /\ Judged /\ [Next]_vars => LineInv' /\ Judged'
  <2> SUFFICES ASSUME DataInv, LineInv, Judged, [Next]_vars PROVE LineInv' /\ Judged'
    OBVIOUS
  <2>1. CASE EscapeByte
    <3>1. pc = "escape" /\ pc' = "escape" /\ fault' = fault
      BY <2>1 DEF EscapeByte
    <3> QED
      BY <3>1 DEF LineInv, Judged, RoundTrip, DamageRefused
  <2>2. CASE SendPacket
    <3>1. pc = "escape" /\ pc' = "sent" /\ fault' = fault
      BY <2>2 DEF SendPacket
    <3>2. UNCHANGED <<sequence, my_new_buffer, sum>>
      BY <2>2 DEF SendPacket
    <3>3. wire' = Packet
      BY <2>2, Zenon DEF SendPacket, Packet, N, Sum3
    <3>4. Packet' = Packet
      BY <3>2 DEF Packet, Sum3, N
    <3> QED
      BY <3>1, <3>3, <3>4 DEF LineInv, Judged, RoundTrip, DamageRefused
  <2>3. CASE FlipBit
    <3>1. pc = "sent" /\ pc' = "sent" /\ fault = "none" /\ fault' = "flip"
      BY <2>3 DEF FlipBit
    <3>2. UNCHANGED <<sequence, my_new_buffer, sum>>
      BY <2>3 DEF FlipBit
    <3>3. wire = Packet
      BY <3>1 DEF LineInv
    <3>4. Packet' = Packet /\ N' = N
      BY <3>2 DEF Packet, Sum3, N
    <3>5. N \in Int /\ Len(wire) - 1 = N + 5
      <4>1. N \in 0 .. 220 /\ Len(Packet) = N + 6
        BY PacketFacts, Zenon
      <4> QED
        BY <3>3, <4>1
    <3>6. PICK i \in 3 .. Len(wire) - 1, k \in 0 .. 7 :
            wire' = [wire EXCEPT ![i] = Flip(wire[i], k)]
      BY <2>3 DEF FlipBit
    <3>7. \E l \in 3 .. N' + 5, b \in 0 .. 7 :
            wire' = [Packet' EXCEPT ![l] = Flip(Packet'[l], b)]
      BY <3>3, <3>4, <3>5, <3>6, Zenon
    <3> QED
      BY <3>1, <3>7, Zenon DEF LineInv, Judged, RoundTrip, DamageRefused
  <2>4. CASE ReceivePacket
    <3>1. pc = "sent" /\ pc' = "received" /\ fault' = fault
          /\ UNCHANGED <<sequence, buffer, wire>>
      BY <2>4 DEF ReceivePacket
    <3>2. LineInv'
      BY <3>1 DEF LineInv
    <3>3. CASE fault = "none" /\ wire = Packet
      <4>1. accepted' /\ data' = buffer /\ untochar(wire[3]) = sequence
        BY <2>4, <3>1, <3>3, Intact
      <4> QED
        BY <3>1, <3>2, <3>3, <4>1 DEF Judged, RoundTrip, DamageRefused
    <3>4. CASE /\ fault = "flip"
               /\ \E i \in 3 .. N + 5, k \in 0 .. 7 :
                    wire = [Packet EXCEPT ![i] = Flip(Packet[i], k)]
      <4>1. ~accepted'
        BY <2>4, <3>1, <3>4, Damaged
      <4> QED
        BY <3>1, <3>2, <3>4, <4>1 DEF Judged, RoundTrip, DamageRefused
    <3> QED
      BY <3>1, <3>3, <3>4, Zenon DEF LineInv
  <2>5. CASE UNCHANGED vars
    <3>1. /\ UNCHANGED <<pc, sequence, buffer, my_new_buffer, sum, wire, fault, data, accepted>>
          /\ Packet' = Packet /\ N' = N
      BY <2>5 DEF vars, Packet, Sum3, N
    <3> QED
      BY <3>1, Zenon DEF LineInv, Judged, RoundTrip, DamageRefused
  <2> QED
    BY <2>1, <2>2, <2>3, <2>4, <2>5 DEF Next
<1> QED
  BY <1>1, <1>2, DataInvariance, PTL DEF Spec

(* An undamaged packet is accepted and yields the chunk it was made from,  *)
(* whatever the chunk holds: the receiver's sum differs from the sender's  *)
(* by a multiple of 256, which the check character does not show, and the  *)
(* decoding undoes the escapes one by one.                                 *)
THEOREM PacketSurvives == Spec => []RoundTrip
BY LineInvariance, PTL DEF Judged

(* A packet of any size and content is refused when one bit of its number, *)
(* its type, its data or its check character is flipped.                   *)
THEOREM FlipRefused == Spec => []DamageRefused
BY LineInvariance, PTL DEF Judged

-----------------------------------------------------------------------------
(* The replies.                                                            *)

\* Where a byte of a reply comes from.
Token == [kind : Kinds, seq : 0 .. 127, at : 1 .. 6]
LEMMA TypeChars ==
  \A k \in Kinds :
    TypeChar(k) = IF k = "ACK" THEN 89 ELSE IF k = "NAK" THEN 78 ELSE 69
BY DEF Kinds, TypeChar, ACK_TYPE, NACK_TYPE

\* The checksum of the reply t belongs to.
CheckOf(t) == Checksum((35 + (t.seq + 32)) + TypeChar(t.kind))

\* The six bytes of a reply.
LEMMA BytesOf ==
  ASSUME NEW t \in Token
  PROVE  /\ t.at = 1 => ByteOf(t) = 1
         /\ t.at = 2 => ByteOf(t) = 35
         /\ t.at = 3 => ByteOf(t) = t.seq + 32
         /\ t.at = 4 => ByteOf(t) = TypeChar(t.kind)
         /\ t.at = 5 => ByteOf(t) = CheckOf(t)
         /\ t.at = 6 => ByteOf(t) = 13
<1> DEFINE len == tochar(3)
           num == tochar(t.seq)
           typ == TypeChar(t.kind)
           check == Checksum((len + num) + typ)
<1>1. ByteOf(t) = <<START_CHAR, len, num, typ, check, END_CHAR>>[t.at]
  BY Zenon DEF ByteOf
<1>2. len = 35 /\ num = t.seq + 32 /\ START_CHAR = 1 /\ END_CHAR = 13
  BY DEF Token, tochar, SPACE, START_CHAR, END_CHAR
<1>3. check = CheckOf(t)
  <2> HIDE DEF len, num, typ
  <2> QED
    BY <1>2, Zenon DEF CheckOf, typ
<1> HIDE DEF len, num, typ, check
<1> DEFINE reply == <<1, 35, t.seq + 32, typ, CheckOf(t), 13>>
<1>4. ByteOf(t) = reply[t.at]
  BY <1>1, <1>2, <1>3, Zenon
<1>5. reply[1] = 1 /\ reply[2] = 35 /\ reply[3] = t.seq + 32 /\ reply[4] = typ
      /\ reply[5] = CheckOf(t) /\ reply[6] = 13
  OBVIOUS
<1> HIDE DEF reply
<1> QED
  BY <1>4, <1>5, Zenon DEF typ

-----------------------------------------------------------------------------
(* kermit_ack_type looks at bytes 2 .. 5 of what was read. In the names of *)
(* the lemmas below the digits are the places in their replies of the four *)
(* bytes it looks at.                                                      *)

\* u follows t on the line.
After(t, u) ==
  IF t.at = 6 THEN u.at = 1 ELSE u.at = t.at + 1 /\ u.seq = t.seq /\ u.kind = t.kind

\* One byte between them is lost.
Skips(t, u) ==
  IF t.at >= 5 THEN u.at = t.at - 4 ELSE u.at = t.at + 2 /\ u.seq = t.seq /\ u.kind = t.kind

\* The types 'Y', 'N' and 'E'.
Types == {89, 78, 69}

\* A reply is for the packet waited for or for the one before.
Recent(q) == {q, (q - 1) % 128}

\* The checksum of a reply with number character n and type t.
CheckChar(n, t) == Checksum((35 + n) + t)

\* The bytes are judged as damaged, of another number, or a NAK.
NotTaken(f2, f3, f4, f5, q) ==
  \/ f5 # Checksum((f2 + f3) + f4)
  \/ untochar(f3) # q
  \/ f4 = 78

LEMMA CheckRange == \A s \in Int : Checksum(s) \in 32 .. 95
BY DEF Checksum, tochar, SPACE

LEMMA Misread1234 ==
  ASSUME NEW q \in 0 .. 127, NEW p \in Recent(q), NEW t \in Types
  PROVE  NotTaken(1, 35, p + 32, t, q)
BY SMTT(30) DEF NotTaken, untochar, SPACE, Checksum, tochar, Types, Recent

LEMMA Misread6234 ==
  ASSUME NEW q \in 0 .. 127, NEW p \in Recent(q), NEW t \in Types
  PROVE  NotTaken(13, 35, p + 32, t, q)
BY SMTT(30) DEF NotTaken, untochar, SPACE, Checksum, tochar, Types, Recent

LEMMA Misread1345 ==
  ASSUME NEW q \in 0 .. 127, NEW p \in Recent(q), NEW t \in Types
  PROVE  NotTaken(1, p + 32, t, CheckChar(p + 32, t), q)
BY SMTT(30) DEF NotTaken, untochar, SPACE, Checksum, tochar, Types, Recent, CheckChar

LEMMA Misread1245 ==
  ASSUME NEW q \in 0 .. 127, NEW p \in Recent(q), NEW t \in Types
  PROVE  NotTaken(1, 35, t, CheckChar(p + 32, t), q)
BY SMTT(30) DEF NotTaken, untochar, SPACE, Checksum, tochar, Types, Recent, CheckChar

LEMMA Misread1235 ==
  ASSUME NEW q \in 0 .. 127, NEW p \in Recent(q), NEW t \in Types
  PROVE  NotTaken(1, 35, p + 32, CheckChar(p + 32, t), q)
BY SMTT(30) DEF NotTaken, untochar, SPACE, Checksum, tochar, Types, Recent, CheckChar

LEMMA Misread4512 ==
  ASSUME NEW q \in 0 .. 127, NEW p \in Recent(q), NEW t \in Types
  PROVE  NotTaken(t, CheckChar(p + 32, t), 1, 35, q)
BY SMTT(30) DEF NotTaken, untochar, SPACE, Checksum, tochar, Types, Recent, CheckChar

LEMMA Misread4562 ==
  ASSUME NEW q \in 0 .. 127, NEW p \in Recent(q), NEW t \in Types
  PROVE  NotTaken(t, CheckChar(p + 32, t), 13, 35, q)
BY SMTT(30) DEF NotTaken, untochar, SPACE, Checksum, tochar, Types, Recent, CheckChar

\* Four tokens in a row, with a byte lost after the one at place g.
Row(g, t2, t3, t4, t5) ==
  /\ IF g = 2 THEN Skips(t2, t3) ELSE After(t2, t3)
  /\ IF g = 3 THEN Skips(t3, t4) ELSE After(t3, t4)
  /\ IF g = 4 THEN Skips(t4, t5) ELSE After(t4, t5)

\* The four are where they belong, three of them of one reply.
Aligned(t2, t3, t4, t5) ==
  /\ t2.at = 2 /\ t3.at = 3 /\ t4.at = 4 /\ t5.at = 5
  /\ t4.seq = t3.seq /\ t5.seq = t3.seq /\ t4.kind = t3.kind /\ t5.kind = t3.kind

At(t2, t3, t4, t5, a, b, c, d) == t2.at = a /\ t3.at = b /\ t4.at = c /\ t5.at = d

Same(t, u) == t.seq = u.seq /\ t.kind = u.kind

\* What four tokens in a row can be.
LEMMA Layouts ==
  ASSUME NEW t2 \in Token, NEW t3 \in Token, NEW t4 \in Token, NEW t5 \in Token,
         NEW g \in Int, Row(g, t2, t3, t4, t5)
  PROVE  \/ t3.at \in {1, 6} \/ t5.at \in {1, 6}
         \/ Aligned(t2, t3, t4, t5) /\ Same(t2, t3)
         \/ At(t2, t3, t4, t5, 1, 2, 3, 4)
         \/ At(t2, t3, t4, t5, 6, 2, 3, 4)
         \/ At(t2, t3, t4, t5, 1, 3, 4, 5) /\ Same(t3, t4) /\ Same(t4, t5)
         \/ At(t2, t3, t4, t5, 1, 2, 4, 5) /\ Same(t4, t5)
         \/ At(t2, t3, t4, t5, 1, 2, 3, 5) /\ Same(t4, t5)
         \/ At(t2, t3, t4, t5, 4, 5, 1, 2) /\ Same(t2, t3)
         \/ At(t2, t3, t4, t5, 4, 5, 6, 2) /\ Same(t2, t3)
<1>1. /\ t2.at \in 1 .. 6 /\ t3.at \in 1 .. 6 /\ t4.at \in 1 .. 6 /\ t5.at \in 1 .. 6
  BY DEF Token
<1>2. CASE g = 2
  BY <1>1, <1>2, SMTT(30) DEF Row, After, Skips, Aligned, At, Same
<1>3. CASE g = 3
  BY <1>1, <1>3, SMTT(30) DEF Row, After, Skips, Aligned, At, Same
<1>4. CASE g = 4
  BY <1>1, <1>4, SMTT(30) DEF Row, After, Skips, Aligned, At, Same
<1>5. CASE g # 2 /\ g # 3 /\ g # 4
  BY <1>1, <1>5, SMTT(30) DEF Row, After, Skips, Aligned, At, Same
<1> QED
  BY <1>2, <1>3, <1>4, <1>5

LEMMA KindTypes == \A k \in Kinds : TypeChar(k) \in Types
BY DEF Kinds, TypeChar, ACK_TYPE, NACK_TYPE, Types

LEMMA CheckInt ==
  ASSUME NEW t \in Token
  PROVE  CheckOf(t) \in 32 .. 95 /\ CheckOf(t) = CheckChar(t.seq + 32, TypeChar(t.kind))
<1> DEFINE typ == TypeChar(t.kind)
<1>1. typ \in Int /\ t.seq \in Int
  BY KindTypes DEF Token, Types
<1> HIDE DEF typ
<1>2. (35 + (t.seq + 32)) + typ \in Int
  BY <1>1
<1> QED
  BY <1>2, CheckRange, Zenon DEF CheckOf, CheckChar, typ

\* The byte of a token.
B(t) == ByteOf(t)

LEMMA ByteInts == ASSUME NEW t \in Token PROVE B(t) \in Char
<1>1. t.at \in 1 .. 6 /\ t.seq \in 0 .. 127
  BY DEF Token
<1>2. TypeChar(t.kind) \in Types
  BY KindTypes DEF Token
<1>3. CheckOf(t) \in 32 .. 95
  BY CheckInt
<1> HIDE DEF Char
<1>4. /\ t.seq + 32 \in Char /\ TypeChar(t.kind) \in Char /\ CheckOf(t) \in Char
      /\ 1 \in Char /\ 35 \in Char /\ 13 \in Char
  BY <1>1, <1>2, <1>3 DEF Char, Types
<1>5. t.at = 1 \/ t.at = 2 \/ t.at = 3 \/ t.at = 4 \/ t.at = 5 \/ t.at = 6
  BY <1>1
<1> QED
  BY <1>4, <1>5, BytesOf, Zenon DEF B

\* A read out of step is never taken.
LEMMA Misread ==
  ASSUME NEW t2 \in Token, NEW t3 \in Token, NEW t4 \in Token, NEW t5 \in Token,
         NEW g \in Int, Row(g, t2, t3, t4, t5), ~Aligned(t2, t3, t4, t5), NEW q \in 0 .. 127,
         t2.seq \in Recent(q), t3.seq \in Recent(q), t4.seq \in Recent(q), t5.seq \in Recent(q)
  PROVE  NotTaken(B(t2), B(t3), B(t4), B(t5), q)
<1> DEFINE T(t) == TypeChar(t.kind)
<1>1. \A t \in {t2, t3, t4, t5} :
        /\ t \in Token /\ B(t) \in Char /\ T(t) \in Types
        /\ CheckOf(t) = CheckChar(t.seq + 32, T(t))
  BY ByteInts, KindTypes, CheckInt DEF Token
<1>2. CASE t3.at \in {1, 6}
  <2>1. B(t3) \in {1, 13}
    BY <1>2, BytesOf DEF B
  <2>2. untochar(B(t3)) # q
    BY <2>1 DEF untochar, SPACE
  <2> QED
    BY <2>2 DEF NotTaken
<1>3. CASE t5.at \in {1, 6}
  <2>1. B(t5) \in {1, 13}
    BY <1>3, BytesOf DEF B
  <2>2. (B(t2) + B(t3)) + B(t4) \in Int
    <3>1. \A x, y, z \in Char : (x + y) + z \in Int
      BY DEF Char
    <3> QED
      BY <3>1, ByteInts, Zenon
  <2>3. Checksum((B(t2) + B(t3)) + B(t4)) \in 32 .. 95
    BY <2>2, CheckRange
  <2> QED
    BY <2>1, <2>3 DEF NotTaken
<1>4. CASE At(t2, t3, t4, t5, 1, 2, 3, 4)
  <2>1. B(t2) = 1 /\ B(t3) = 35 /\ B(t4) = t4.seq + 32 /\ B(t5) = T(t5)
    BY <1>4, BytesOf, Zenon DEF B, At
  <2> QED
    BY <1>1, <2>1, Misread1234, Zenon
<1>5. CASE At(t2, t3, t4, t5, 6, 2, 3, 4)
  <2>1. B(t2) = 13 /\ B(t3) = 35 /\ B(t4) = t4.seq + 32 /\ B(t5) = T(t5)
    BY <1>5, BytesOf, Zenon DEF B, At
  <2> QED
    BY <1>1, <2>1, Misread6234, Zenon
<1>6. CASE At(t2, t3, t4, t5, 1, 3, 4, 5) /\ Same(t3, t4) /\ Same(t4, t5)
  <2>1. B(t2) = 1 /\ B(t3) = t3.seq + 32 /\ B(t4) = T(t4) /\ B(t5) = CheckOf(t5)
    BY <1>6, BytesOf, Zenon DEF B, At
  <2>2. T(t4) = T(t5) /\ t3.seq = t5.seq
    BY <1>6, Zenon DEF Same
  <2> QED
    BY <1>1, <2>1, <2>2, Misread1345, Zenon
<1>7. CASE At(t2, t3, t4, t5, 1, 2, 4, 5) /\ Same(t4, t5)
  <2>1. B(t2) = 1 /\ B(t3) = 35 /\ B(t4) = T(t4) /\ B(t5) = CheckOf(t5)
    BY <1>7, BytesOf, Zenon DEF B, At
  <2>2. T(t4) = T(t5)
    BY <1>7, Zenon DEF Same
  <2> QED
    BY <1>1, <2>1, <2>2, Misread1245, Zenon
<1>8. CASE At(t2, t3, t4, t5, 1, 2, 3, 5) /\ Same(t4, t5)
  <2>1. B(t2) = 1 /\ B(t3) = 35 /\ B(t4) = t4.seq + 32 /\ B(t5) = CheckOf(t5)
    BY <1>8, BytesOf, Zenon DEF B, At
  <2>2. t4.seq = t5.seq
    BY <1>8, Zenon DEF Same
  <2> QED
    BY <1>1, <2>1, <2>2, Misread1235, Zenon
<1>9. CASE At(t2, t3, t4, t5, 4, 5, 1, 2) /\ Same(t2, t3)
  <2>1. B(t2) = T(t2) /\ B(t3) = CheckOf(t3) /\ B(t4) = 1 /\ B(t5) = 35
    BY <1>9, BytesOf, Zenon DEF B, At
  <2>2. T(t2) = T(t3)
    BY <1>9, Zenon DEF Same
  <2> QED
    BY <1>1, <2>1, <2>2, Misread4512, Zenon
<1>10. CASE At(t2, t3, t4, t5, 4, 5, 6, 2) /\ Same(t2, t3)
  <2>1. B(t2) = T(t2) /\ B(t3) = CheckOf(t3) /\ B(t4) = 13 /\ B(t5) = 35
    BY <1>10, BytesOf, Zenon DEF B, At
  <2>2. T(t2) = T(t3)
    BY <1>10, Zenon DEF Same
  <2> QED
    BY <1>1, <2>1, <2>2, Misread4562, Zenon
<1> QED
  BY <1>2, <1>3, <1>4, <1>5, <1>6, <1>7, <1>8, <1>9, <1>10, Layouts, Zenon

-----------------------------------------------------------------------------
(* One damaged byte.                                                       *)

\* The bytes are not judged as an ACK.
NotAck(f2, f3, f4, f5, q) ==
  \/ f5 # Checksum((f2 + f3) + f4)
  \/ untochar(f3) # q
  \/ f4 # 89

\* Whichever of the four is replaced by whatever.
AnyReplaced(f2, f3, f4, f5, q) ==
  \A v \in Char :
    /\ NotAck(v, f3, f4, f5, q)
    /\ NotAck(f2, v, f4, f5, q)
    /\ NotAck(f2, f3, v, f5, q)
    /\ NotAck(f2, f3, f4, v, q)

LEMMA Replaced1234 ==
  ASSUME NEW q \in 0 .. 127, NEW p \in Recent(q), NEW t \in Types
  PROVE  AnyReplaced(1, 35, p + 32, t, q)
<1> SUFFICES ASSUME NEW v \in Char
             PROVE  /\ NotAck(v, 35, p + 32, t, q)
                    /\ NotAck(1, v, p + 32, t, q)
                    /\ NotAck(1, 35, v, t, q)
                    /\ NotAck(1, 35, p + 32, v, q)
  BY Zenon DEF AnyReplaced
<1>1. NotAck(v, 35, p + 32, t, q)
  BY SMTT(60) DEF NotAck, untochar, SPACE, Checksum, tochar, Types, Recent, Char
<1>2. NotAck(1, v, p + 32, t, q)
  BY SMTT(60) DEF NotAck, untochar, SPACE, Checksum, tochar, Types, Recent, Char
<1>3. NotAck(1, 35, v, t, q)
  BY SMTT(60) DEF NotAck, untochar, SPACE, Checksum, tochar, Types, Recent, Char
<1>4. NotAck(1, 35, p + 32, v, q)
  BY SMTT(60) DEF NotAck, untochar, SPACE, Checksum, tochar, Types, Recent, Char
<1> QED
  BY <1>1, <1>2, <1>3, <1>4

LEMMA Replaced3456 ==
  ASSUME NEW q \in 0 .. 127, NEW p \in Recent(q), NEW t \in Types
  PROVE  AnyReplaced(p + 32, t, CheckChar(p + 32, t), 13, q)
<1> SUFFICES ASSUME NEW v \in Char
             PROVE  /\ NotAck(v, t, CheckChar(p + 32, t), 13, q)
                    /\ NotAck(p + 32, v, CheckChar(p + 32, t), 13, q)
                    /\ NotAck(p + 32, t, v, 13, q)
                    /\ NotAck(p + 32, t, CheckChar(p + 32, t), v, q)
  BY Zenon DEF AnyReplaced
<1>1. NotAck(v, t, CheckChar(p + 32, t), 13, q)
  BY SMTT(60) DEF NotAck, untochar, SPACE, Checksum, tochar, Types, Recent, Char, CheckChar
<1>2. NotAck(p + 32, v, CheckChar(p + 32, t), 13, q)
  BY SMTT(60) DEF NotAck, untochar, SPACE, Checksum, tochar, Types, Recent, Char, CheckChar
<1>3. NotAck(p + 32, t, v, 13, q)
  BY SMTT(60) DEF NotAck, untochar, SPACE, Checksum, tochar, Types, Recent, Char, CheckChar
<1>4. NotAck(p + 32, t, CheckChar(p + 32, t), v, q)
  BY SMTT(60) DEF NotAck, untochar, SPACE, Checksum, tochar, Types, Recent, Char, CheckChar
<1> QED
  BY <1>1, <1>2, <1>3, <1>4

LEMMA Replaced4561 ==
  ASSUME NEW q \in 0 .. 127, NEW t \in Types, NEW c \in 32 .. 95
  PROVE  AnyReplaced(t, c, 13, 1, q)
BY SMTT(60) DEF AnyReplaced, NotAck, untochar, SPACE, Checksum, tochar, Types, Char

LEMMA Replaced5612 ==
  ASSUME NEW q \in 0 .. 127, NEW c \in 32 .. 95
  PROVE  AnyReplaced(c, 13, 1, 35, q)
BY SMTT(60) DEF AnyReplaced, NotAck, untochar, SPACE, Char

LEMMA Replaced6123 ==
  ASSUME NEW q \in 0 .. 127, NEW n \in Int
  PROVE  AnyReplaced(13, 1, 35, n, q)
BY SMTT(60) DEF AnyReplaced, NotAck, untochar, SPACE, Char

\* A flipped bit in one term of a sum changes its checksum.
LEMMA CheckDiffers ==
  ASSUME NEW s \in Int, NEW x \in Char, NEW k \in 0 .. 7
  PROVE  Checksum((s - x) + Flip(x, k)) # Checksum(s)
<1>1. x \in Int
  BY DEF Char
<1>2. PICK d \in Bits : Flip(x, k) = x + d \/ Flip(x, k) = x - d
  BY <1>1, FlipMoves
<1>3. d \in Int
  BY DEF Bits
<1>4. (s - x) + (x + d) = s + d /\ (s - x) + (x - d) = s - d
  BY <1>1, <1>3
<1>5. Checksum(s + d) # Checksum(s) /\ Checksum(s - d) # Checksum(s)
  BY CheckSees
<1> QED
  BY <1>2, <1>4, <1>5, Zenon

LEMMA FlipChar ==
  ASSUME NEW x \in Char, NEW k \in 0 .. 7
  PROVE  Flip(x, k) \in Char /\ Flip(x, k) # x
<1> DEFINE d == 2^k
<1>1. d \in Bits
  BY BitValues
<1>2. Flip(x, k) = IF (x \div d) % 2 = 1 THEN x - d ELSE x + d
  BY Zenon DEF Flip
<1> HIDE DEF d
<1>3. d \in {1, 2, 4, 8, 16, 32, 64, 128}
  BY <1>1 DEF Bits
<1>4. (x \div d) % 2 = 1 => x - d \in Char
  BY <1>3 DEF Char
<1>5. (x \div d) % 2 # 1 => x + d \in Char
  BY <1>3 DEF Char
<1> QED
  BY <1>2, <1>3, <1>4, <1>5 DEF Char

\* A whole reply of which one byte was damaged.
LEMMA WholeReplaced ==
  ASSUME NEW f2 \in Char, NEW f3 \in Char, NEW f4 \in Char, NEW q \in 0 .. 127, NEW k \in 0 .. 7,
         NEW f5, f5 = Checksum((f2 + f3) + f4)
  PROVE  /\ NotAck(Flip(f2, k), f3, f4, f5, q)
         /\ NotAck(f2, Flip(f3, k), f4, f5, q)
         /\ NotAck(f2, f3, Flip(f4, k), f5, q)
         /\ f5 \in Char => NotAck(f2, f3, f4, Flip(f5, k), q)
<1> DEFINE s == (f2 + f3) + f4
           g2 == Flip(f2, k)
           g3 == Flip(f3, k)
           g4 == Flip(f4, k)
<1>1. s \in Int
  BY DEF Char
<1>2. /\ Checksum((s - f2) + g2) # Checksum(s)
      /\ Checksum((s - f3) + g3) # Checksum(s)
      /\ Checksum((s - f4) + g4) # Checksum(s)
  <2> HIDE DEF s
  <2> QED
    BY <1>1, CheckDiffers
<1>3. g2 \in Char /\ g3 \in Char /\ g4 \in Char
  BY FlipChar
<1> HIDE DEF g2, g3, g4
<1>4. /\ (s - f2) + g2 = (g2 + f3) + f4
      /\ (s - f3) + g3 = (f2 + g3) + f4
      /\ (s - f4) + g4 = (f2 + f3) + g4
  BY <1>3 DEF Char
<1>5. f5 \in Char => Flip(f5, k) # f5
  BY FlipChar
<1> HIDE DEF s
<1>6. f5 = Checksum(s)
  BY DEF s
<1> QED
  BY <1>2, <1>4, <1>5, <1>6, Zenon DEF NotAck, g2, g3, g4

\* What they can be when no byte is lost.
LEMMA PlainLayouts ==
  ASSUME NEW t2 \in Token, NEW t3 \in Token, NEW t4 \in Token, NEW t5 \in Token,
         Row(0, t2, t3, t4, t5)
  PROVE  \/ Aligned(t2, t3, t4, t5)
         \/ At(t2, t3, t4, t5, 1, 2, 3, 4)
         \/ At(t2, t3, t4, t5, 3, 4, 5, 6) /\ Same(t2, t3) /\ Same(t3, t4)
         \/ At(t2, t3, t4, t5, 4, 5, 6, 1)
         \/ At(t2, t3, t4, t5, 5, 6, 1, 2)
         \/ At(t2, t3, t4, t5, 6, 1, 2, 3)
<1>1. /\ t2.at \in 1 .. 6 /\ t3.at \in 1 .. 6 /\ t4.at \in 1 .. 6 /\ t5.at \in 1 .. 6
  BY DEF Token
<1> QED
  BY <1>1, SMTT(30) DEF Row, After, Aligned, At, Same

LEMMA WholeBytes ==
  ASSUME NEW t2 \in Token, NEW t3 \in Token, NEW t4 \in Token, NEW t5 \in Token,
         Aligned(t2, t3, t4, t5)
  PROVE  /\ B(t2) = 35 /\ B(t3) = t3.seq + 32 /\ B(t4) = TypeChar(t3.kind)
         /\ B(t5) = Checksum((B(t2) + B(t3)) + B(t4))
<1>1. /\ B(t2) = 35 /\ B(t3) = t3.seq + 32 /\ B(t4) = TypeChar(t4.kind)
      /\ B(t5) = CheckOf(t5)
  BY BytesOf, Zenon DEF B, Aligned
<1>2. t4.kind = t3.kind /\ t5.kind = t3.kind /\ t5.seq = t3.seq
  BY DEF Aligned
<1> QED
  BY <1>1, <1>2, Zenon DEF CheckOf

\* With a flipped bit in one of the four there is no ACK.
LEMMA Replaced ==
  ASSUME NEW t2 \in Token, NEW t3 \in Token, NEW t4 \in Token, NEW t5 \in Token,
         Row(0, t2, t3, t4, t5), NEW q \in 0 .. 127, NEW k \in 0 .. 7,
         t2.seq \in Recent(q), t3.seq \in Recent(q), t4.seq \in Recent(q), t5.seq \in Recent(q)
  PROVE  /\ NotAck(Flip(B(t2), k), B(t3), B(t4), B(t5), q)
         /\ NotAck(B(t2), Flip(B(t3), k), B(t4), B(t5), q)
         /\ NotAck(B(t2), B(t3), Flip(B(t4), k), B(t5), q)
         /\ NotAck(B(t2), B(t3), B(t4), Flip(B(t5), k), q)
<1> DEFINE T(t) == TypeChar(t.kind)
<1>1. \A t \in {t2, t3, t4, t5} :
        /\ t \in Token /\ B(t) \in Char /\ Flip(B(t), k) \in Char /\ T(t) \in Types
        /\ CheckOf(t) = CheckChar(t.seq + 32, T(t)) /\ CheckOf(t) \in 32 .. 95
  BY ByteInts, KindTypes, CheckInt, FlipChar DEF Token
<1>2. AnyReplaced(B(t2), B(t3), B(t4), B(t5), q) =>
        /\ NotAck(Flip(B(t2), k), B(t3), B(t4), B(t5), q)
        /\ NotAck(B(t2), Flip(B(t3), k), B(t4), B(t5), q)
        /\ NotAck(B(t2), B(t3), Flip(B(t4), k), B(t5), q)
        /\ NotAck(B(t2), B(t3), B(t4), Flip(B(t5), k), q)
  BY <1>1, Zenon DEF AnyReplaced
<1>3. CASE Aligned(t2, t3, t4, t5)
  <2>1. B(t5) = Checksum((B(t2) + B(t3)) + B(t4))
    BY <1>3, WholeBytes
  <2>2. B(t2) \in Char /\ B(t3) \in Char /\ B(t4) \in Char /\ B(t5) \in Char
    BY ByteInts
  <2> QED
    BY <2>1, <2>2, WholeReplaced, Zenon
<1>4. CASE At(t2, t3, t4, t5, 1, 2, 3, 4)
  <2>1. B(t2) = 1 /\ B(t3) = 35 /\ B(t4) = t4.seq + 32 /\ B(t5) = T(t5)
    BY <1>4, BytesOf, Zenon DEF B, At
  <2>2. AnyReplaced(B(t2), B(t3), B(t4), B(t5), q)
    BY <1>1, <2>1, Replaced1234, Zenon
  <2> QED
    BY <1>2, <2>2
<1>5. CASE At(t2, t3, t4, t5, 3, 4, 5, 6) /\ Same(t2, t3) /\ Same(t3, t4)
  <2>1. B(t2) = t2.seq + 32 /\ B(t3) = T(t3) /\ B(t4) = CheckOf(t4) /\ B(t5) = 13
    BY <1>5, BytesOf, Zenon DEF B, At
  <2>2. t2.seq = t4.seq /\ T(t3) = T(t4)
    BY <1>5, Zenon DEF Same
  <2>3. AnyReplaced(B(t2), B(t3), B(t4), B(t5), q)
    BY <1>1, <2>1, <2>2, Replaced3456, Zenon
  <2> QED
    BY <1>2, <2>3
<1>6. CASE At(t2, t3, t4, t5, 4, 5, 6, 1)
  <2>1. B(t2) = T(t2) /\ B(t3) = CheckOf(t3) /\ B(t4) = 13 /\ B(t5) = 1
    BY <1>6, BytesOf, Zenon DEF B, At
  <2>2. T(t2) \in Types /\ CheckOf(t3) \in 32 .. 95
    BY <1>1, Zenon
  <2>3. AnyReplaced(B(t2), B(t3), B(t4), B(t5), q)
    BY <2>1, <2>2, Replaced4561, Zenon
  <2> QED
    BY <1>2, <2>3
<1>7. CASE At(t2, t3, t4, t5, 5, 6, 1, 2)
  <2>1. B(t2) = CheckOf(t2) /\ B(t3) = 13 /\ B(t4) = 1 /\ B(t5) = 35
    BY <1>7, BytesOf, Zenon DEF B, At
  <2>2. CheckOf(t2) \in 32 .. 95
    BY <1>1, Zenon
  <2>3. AnyReplaced(B(t2), B(t3), B(t4), B(t5), q)
    BY <2>1, <2>2, Replaced5612, Zenon
  <2> QED
    BY <1>2, <2>3
<1>8. CASE At(t2, t3, t4, t5, 6, 1, 2, 3)
  <2>1. B(t2) = 13 /\ B(t3) = 1 /\ B(t4) = 35
    BY <1>8, BytesOf, Zenon DEF B, At
  <2>2. B(t5) \in Char
    BY ByteInts
  <2>3. B(t5) \in Int
    BY <2>2 DEF Char
  <2>4. AnyReplaced(B(t2), B(t3), B(t4), B(t5), q)
    BY <2>1, <2>3, Replaced6123, Zenon
  <2> QED
    BY <1>2, <2>4
<1> QED
  BY <1>3, <1>4, <1>5, <1>6, <1>7, <1>8, PlainLayouts, Zenon

-----------------------------------------------------------------------------
(* The line and what is read from it.                                      *)

Item == [byte : Char, token : Token \union {Garbage}]

\* The bytes l come from the tokens s; a byte is lost after the g-th, and the
\* f-th is damaged (0 is none).
Holds(l, s, g, f, q) ==
  /\ l \in Seq(Item) /\ s \in Seq(Token) /\ Len(l) = Len(s)
  /\ \A i \in 1 .. Len(s) : s[i].seq \in Recent(q)
  /\ \A i \in 1 .. Len(s) : i # f => l[i].byte = B(s[i]) /\ l[i].token = s[i]
  /\ f \in 1 .. Len(s) => \E k \in 0 .. 7 : l[f].byte = Flip(B(s[f]), k)
  /\ \A i \in 1 .. Len(s) - 1 : IF i = g THEN Skips(s[i], s[i + 1]) ELSE After(s[i], s[i + 1])

Verdict(r) == kermit_ack_type(r)
TokensOf(r) == [i \in 1 .. Len(r) |-> r[i].token]
Origin(r) == AckType(TokensOf(r), seq_num)

\* The verdict in terms of the four bytes looked at.
LEMMA VerdictOf ==
  ASSUME NEW r, Len(r) \in Nat, Len(r) >= 5, seq_num \in 0 .. 127
  PROVE  /\ NotTaken(r[2].byte, r[3].byte, r[4].byte, r[5].byte, seq_num) =>
              Consequence(Verdict(r)) = "retry"
         /\ NotAck(r[2].byte, r[3].byte, r[4].byte, r[5].byte, seq_num) => Verdict(r) # "ACK"
         /\ ~NotTaken(r[2].byte, r[3].byte, r[4].byte, r[5].byte, seq_num) =>
              Verdict(r) = IF r[4].byte = 89 THEN "ACK" ELSE "unexpected"
<1> DEFINE f2 == r[2].byte
           f3 == r[3].byte
           f4 == r[4].byte
           f5 == r[5].byte
           v == Verdict(r)
<1>1. /\ Field(r, 2) = f2 /\ Field(r, 3) = f3
      /\ Field(r, 4) = f4 /\ Field(r, 5) = f5
  BY DEF Field
<1>2. NACK_TYPE = 78 /\ ACK_TYPE = 89
  BY DEF NACK_TYPE, ACK_TYPE
<1> HIDE DEF f2, f3, f4, f5
<1>3. v = IF f5 # Checksum((f2 + f3) + f4) THEN "CHK_ERROR"
          ELSE IF untochar(f3) # seq_num THEN "SEQ_ERROR"
          ELSE IF f4 = 78 THEN "NACK"
          ELSE IF f4 = 89 THEN "ACK"
          ELSE "unexpected"
  BY <1>1, <1>2, Zenon DEF Verdict, kermit_ack_type
<1> HIDE DEF v
<1>4. NotTaken(f2, f3, f4, f5, seq_num) => v \in {"CHK_ERROR", "SEQ_ERROR", "NACK"}
  BY <1>3 DEF NotTaken
<1>5. NotAck(f2, f3, f4, f5, seq_num) => v # "ACK"
  BY <1>3 DEF NotAck
<1>6. ~NotTaken(f2, f3, f4, f5, seq_num) => v = IF f4 = 89 THEN "ACK" ELSE "unexpected"
  BY <1>3 DEF NotTaken
<1>7. v \in {"CHK_ERROR", "SEQ_ERROR", "NACK"} => Consequence(v) = "retry"
  BY DEF Consequence
<1> QED
  BY <1>4, <1>5, <1>6, <1>7, Zenon DEF f2, f3, f4, f5, v

LEMMA OriginOf ==
  ASSUME NEW r, Len(r) \in Nat, Len(r) >= 5,
         NEW t2, NEW t3, NEW t4, NEW t5,
         r[2].token = t2, r[3].token = t3, r[4].token = t4, r[5].token = t5
  PROVE  /\ ~Aligned(t2, t3, t4, t5) => Origin(r) = "CHK_ERROR"
         /\ Aligned(t2, t3, t4, t5) =>
              Origin(r) = IF t3.seq # seq_num THEN "SEQ_ERROR"
                          ELSE IF t3.kind = "NAK" THEN "NACK"
                          ELSE IF t3.kind = "ACK" THEN "ACK" ELSE "unexpected"
<1> DEFINE p == TokensOf(r)
<1>1. p[2] = t2 /\ p[3] = t3 /\ p[4] = t4 /\ p[5] = t5 /\ Len(p) = Len(r)
  BY DEF TokensOf
<1> HIDE DEF p
<1>2. ChecksumOK(p) <=> /\ t2.at = 2
                            /\ t3.at = 3 /\ t3.kind = t3.kind /\ t3.seq = t3.seq
                            /\ t4.at = 4 /\ t4.kind = t3.kind /\ t4.seq = t3.seq
                            /\ t5.at = 5 /\ t5.kind = t3.kind /\ t5.seq = t3.seq
  <2>1. \A i : i \in 3 .. 5 <=> i = 3 \/ i = 4 \/ i = 5
    OBVIOUS
  <2>2. Len(p) >= 5
    BY <1>1
  <2> DEFINE P(i) == p[i].at = i /\ p[i].kind = p[3].kind /\ p[i].seq = p[3].seq
  <2>3. ChecksumOK(p) <=> p[2].at = 2 /\ \A i \in 3 .. 5 : P(i)
    BY <2>2, Zenon DEF ChecksumOK
  <2>4. (\A i \in 3 .. 5 : P(i)) <=> P(3) /\ P(4) /\ P(5)
    <3> HIDE DEF P
    <3> QED
      BY <2>1, Zenon
  <2> QED
    BY <1>1, <2>3, <2>4, Zenon
<1>3. ChecksumOK(p) <=> Aligned(t2, t3, t4, t5)
  BY <1>2, Zenon DEF Aligned
<1>4. Aligned(t2, t3, t4, t5) => t4.kind = t3.kind
  BY DEF Aligned
<1>5. Origin(r) = AckType(p, seq_num)
  BY DEF Origin, p
<1> QED
  BY <1>1, <1>3, <1>4, <1>5, Zenon DEF AckType

LEMMA CharInts == Char \subseteq Int
BY DEF Char

LEMMA CheckNotNull == \A total \in Int : Checksum(total) # 0
BY CheckRange

\* A read of less than five bytes is damaged.
LEMMA ShortRead ==
  ASSUME NEW r \in Seq(Item), Len(r) < 5
  PROVE  Verdict(r) = "CHK_ERROR" /\ Origin(r) = "CHK_ERROR"
<1>1. Len(r) \in Nat /\ Len(TokensOf(r)) = Len(r)
  BY DEF TokensOf
<1>2. AckType(TokensOf(r), seq_num) = "CHK_ERROR"
  <2>1. ~(Len(TokensOf(r)) >= 5)
    BY <1>1
  <2> QED
    BY <2>1, Zenon DEF AckType, ChecksumOK
<1>3. \A i \in 1 .. 5 : Field(r, i) \in Int
  <2>1. ASSUME NEW i \in 1 .. 5 PROVE Field(r, i) \in Int
    <3>1. CASE i <= Len(r)
      <4>1. r[i] \in Item
        BY <1>1, <3>1, ElementOfSeq
      <4>2. r[i].byte \in Char
        BY <4>1 DEF Item
      <4>3. r[i].byte \in Int
        BY <4>2, CharInts, Zenon
      <4> QED
        BY <3>1, <4>3, Zenon DEF Field
    <3>2. CASE ~(i <= Len(r))
      BY <3>2 DEF Field
    <3> QED
      BY <3>1, <3>2
  <2> QED
    BY <2>1
<1>4. Field(r, 5) = 0
  BY <1>1 DEF Field
<1> DEFINE total == (Field(r, 2) + Field(r, 3)) + Field(r, 4)
<1>5. total \in Int
  <2>1. Field(r, 2) \in Int /\ Field(r, 3) \in Int /\ Field(r, 4) \in Int
    BY <1>3
  <2>2. \A x, y, z \in Int : (x + y) + z \in Int
    OBVIOUS
  <2> QED
    BY <2>1, <2>2, Zenon
<1> HIDE DEF total
<1>6. Checksum(total) # 0
  BY <1>5, CheckNotNull, Zenon
<1>7. Field(r, 5) # Checksum(total)
  BY <1>4, <1>6, Zenon
<1>8. Verdict(r) = "CHK_ERROR"
  BY <1>7, Zenon DEF Verdict, kermit_ack_type, total
<1> QED
  BY <1>2, <1>8 DEF Origin

LEMMA NumberRead == \A n \in 0 .. 127 : untochar(n + 32) = n
BY DEF untochar, SPACE

\* The character b tells an ACK or a NAK from the other kinds.
Tells(b, k) == (b = 78 <=> k = "NAK") /\ (b = 89 <=> k = "ACK")

LEMMA KindRead == \A k \in Kinds : Tells(TypeChar(k), k)
BY TypeChars DEF Tells

\* The tokens of the bytes that are looked at, and the bytes, undamaged.
Shows(r, t2, t3, t4, t5) ==
  /\ r[2].token = t2 /\ r[3].token = t3 /\ r[4].token = t4 /\ r[5].token = t5
  /\ r[2].byte = B(t2) /\ r[3].byte = B(t3) /\ r[4].byte = B(t4) /\ r[5].byte = B(t5)

\* No damage among the bytes that are looked at.
LEMMA CleanRead ==
  ASSUME NEW r, Len(r) \in Nat, Len(r) >= 5, seq_num \in 0 .. 127, NEW g \in Int,
         NEW t2 \in Token, NEW t3 \in Token, NEW t4 \in Token, NEW t5 \in Token,
         Shows(r, t2, t3, t4, t5), Row(g, t2, t3, t4, t5),
         t2.seq \in Recent(seq_num), t3.seq \in Recent(seq_num),
         t4.seq \in Recent(seq_num), t5.seq \in Recent(seq_num)
  PROVE  Consequence(Verdict(r)) = Consequence(Origin(r))
<1>1. CASE ~Aligned(t2, t3, t4, t5)
  <2>1. Origin(r) = "CHK_ERROR"
    BY <1>1, OriginOf, Zenon DEF Shows
  <2>2. NotTaken(B(t2), B(t3), B(t4), B(t5), seq_num)
    BY <1>1, Misread, Zenon
  <2>3. Consequence(Verdict(r)) = "retry"
    BY <2>2, VerdictOf, Zenon DEF Shows
  <2>4. Consequence("CHK_ERROR") = "retry"
    BY DEF Consequence
  <2> QED
    BY <2>1, <2>3, <2>4, Zenon
<1>2. CASE Aligned(t2, t3, t4, t5)
  <2>1. /\ B(t2) = 35 /\ B(t3) = t3.seq + 32 /\ B(t4) = TypeChar(t3.kind)
        /\ B(t5) = Checksum((B(t2) + B(t3)) + B(t4))
    BY <1>2, WholeBytes
  <2>2. Origin(r) = IF t3.seq # seq_num THEN "SEQ_ERROR"
                    ELSE IF t3.kind = "NAK" THEN "NACK"
                    ELSE IF t3.kind = "ACK" THEN "ACK" ELSE "unexpected"
    BY <1>2, OriginOf, Zenon DEF Shows
  <2>3. t3.kind \in Kinds /\ t3.seq \in 0 .. 127
    BY DEF Token
  <2>4. untochar(B(t3)) = t3.seq
    BY <2>1, <2>3, NumberRead, Zenon
  <2>5. Tells(B(t4), t3.kind)
    BY <2>1, <2>3, KindRead, Zenon
  <2>6. NotTaken(B(t2), B(t3), B(t4), B(t5), seq_num) <=> t3.seq # seq_num \/ t3.kind = "NAK"
    BY <2>1, <2>4, <2>5, Zenon DEF NotTaken, Tells
  <2>7. CASE t3.seq # seq_num \/ t3.kind = "NAK"
    <3>1. Consequence(Verdict(r)) = "retry"
      BY <2>6, <2>7, VerdictOf, Zenon DEF Shows
    <3>2. Origin(r) = "SEQ_ERROR" \/ Origin(r) = "NACK"
      BY <2>2, <2>7, Zenon
    <3> QED
      BY <3>1, <3>2 DEF Consequence
  <2>8. CASE ~(t3.seq # seq_num \/ t3.kind = "NAK")
    <3>1. Verdict(r) = IF B(t4) = 89 THEN "ACK" ELSE "unexpected"
      BY <2>6, <2>8, VerdictOf, Zenon DEF Shows
    <3>2. Verdict(r) = Origin(r)
      BY <2>2, <2>5, <2>8, <3>1, Zenon DEF Tells
    <3> QED
      BY <3>2
  <2> QED
    BY <2>7, <2>8
<1> QED
  BY <1>1, <1>2

\* What a read holds is judged by its origin, and a damaged byte makes no ACK.
LEMMA ReadJudged ==
  ASSUME NEW r, NEW s, NEW g \in Nat, NEW f \in Nat, g = 0 \/ f = 0,
         seq_num \in 0 .. 127, Holds(r, s, g, f, seq_num)
  PROVE  /\ f = 0 => Consequence(Verdict(r)) = Consequence(Origin(r))
         /\ Verdict(r) = "ACK" => Origin(r) = "ACK"
<1>1. r \in Seq(Item) /\ s \in Seq(Token) /\ Len(r) = Len(s) /\ Len(r) \in Nat
  BY DEF Holds
<1>2. CASE Len(r) < 5
  BY <1>1, <1>2, ShortRead
<1>3. CASE Len(r) >= 5
  <2> DEFINE t2 == s[2]
             t3 == s[3]
             t4 == s[4]
             t5 == s[5]
  <2>1. /\ 2 \in 1 .. Len(s) /\ 3 \in 1 .. Len(s) /\ 4 \in 1 .. Len(s) /\ 5 \in 1 .. Len(s)
        /\ 2 \in 1 .. Len(s) - 1 /\ 3 \in 1 .. Len(s) - 1 /\ 4 \in 1 .. Len(s) - 1
        /\ 2 + 1 = 3 /\ 3 + 1 = 4 /\ 4 + 1 = 5
    BY <1>1, <1>3
  <2>2. t2 \in Token /\ t3 \in Token /\ t4 \in Token /\ t5 \in Token
    BY <1>1, <2>1, ElementOfSeq
  <2>3. /\ t2.seq \in Recent(seq_num) /\ t3.seq \in Recent(seq_num)
        /\ t4.seq \in Recent(seq_num) /\ t5.seq \in Recent(seq_num)
    BY <2>1, Zenon DEF Holds
  <2>4. Row(g, t2, t3, t4, t5)
    <3>1. /\ IF 2 = g THEN Skips(s[2], s[2 + 1]) ELSE After(s[2], s[2 + 1])
          /\ IF 3 = g THEN Skips(s[3], s[3 + 1]) ELSE After(s[3], s[3 + 1])
          /\ IF 4 = g THEN Skips(s[4], s[4 + 1]) ELSE After(s[4], s[4 + 1])
      BY <2>1, Zenon DEF Holds
    <3> QED
      BY <2>1, <3>1, Zenon DEF Row
  <2>5. \A i \in {2, 3, 4, 5} : i # f => r[i].byte = B(s[i]) /\ r[i].token = s[i]
    BY <2>1, Zenon DEF Holds
  <2> HIDE DEF t2, t3, t4, t5
  <2>6. /\ 2 # f => r[2].byte = B(t2) /\ r[2].token = t2
        /\ 3 # f => r[3].byte = B(t3) /\ r[3].token = t3
        /\ 4 # f => r[4].byte = B(t4) /\ r[4].token = t4
        /\ 5 # f => r[5].byte = B(t5) /\ r[5].token = t5
    BY <2>5, Zenon DEF t2, t3, t4, t5
  <2>7. CASE f \notin {2, 3, 4, 5}
    <3>1. 2 # f /\ 3 # f /\ 4 # f /\ 5 # f
      BY <2>7
    <3>2. Shows(r, t2, t3, t4, t5)
      BY <2>6, <3>1, Zenon DEF Shows
    <3>3. Consequence(Verdict(r)) = Consequence(Origin(r))
      BY <1>1, <1>3, <2>2, <2>3, <2>4, <3>2, CleanRead
    <3>4. Verdict(r) = "ACK" => Origin(r) = "ACK"
      BY <3>3 DEF Consequence
    <3> QED
      BY <3>3, <3>4
  <2>8. CASE f \in {2, 3, 4, 5}
    <3>1. g = 0 /\ f # 0
      BY <2>8
    <3>2. PICK k \in 0 .. 7 : r[f].byte = Flip(B(s[f]), k)
      BY <2>1, <2>8, Zenon DEF Holds
    <3>3. /\ NotAck(Flip(B(t2), k), B(t3), B(t4), B(t5), seq_num)
          /\ NotAck(B(t2), Flip(B(t3), k), B(t4), B(t5), seq_num)
          /\ NotAck(B(t2), B(t3), Flip(B(t4), k), B(t5), seq_num)
          /\ NotAck(B(t2), B(t3), B(t4), Flip(B(t5), k), seq_num)
      BY <2>2, <2>3, <2>4, <3>1, Replaced
    <3>4. 2 # 3 /\ 2 # 4 /\ 2 # 5 /\ 3 # 4 /\ 3 # 5 /\ 4 # 5
      OBVIOUS
    <3>5. NotAck(r[2].byte, r[3].byte, r[4].byte, r[5].byte, seq_num)
      <4>1. CASE f = 2
        BY <2>6, <3>2, <3>3, <3>4, <4>1, Zenon DEF t2
      <4>2. CASE f = 3
        BY <2>6, <3>2, <3>3, <3>4, <4>2, Zenon DEF t3
      <4>3. CASE f = 4
        BY <2>6, <3>2, <3>3, <3>4, <4>3, Zenon DEF t4
      <4>4. CASE f = 5
        BY <2>6, <3>2, <3>3, <3>4, <4>4, Zenon DEF t5
      <4> QED
        BY <2>8, <4>1, <4>2, <4>3, <4>4
    <3>6. Verdict(r) # "ACK"
      BY <1>1, <1>3, <3>5, VerdictOf, Zenon
    <3> QED
      BY <3>1, <3>6
  <2> QED
    BY <2>7, <2>8
<1> QED
  BY <1>1, <1>2, <1>3

-----------------------------------------------------------------------------
(* What happens to the line.                                               *)

\* The place x when n bytes before it are gone (0 if it is one of them).
Left(x, n) == IF x > n THEN x - n ELSE 0

LEMMA PartHolds ==
  ASSUME NEW l, NEW s, NEW g \in Nat, NEW f \in Nat, NEW q, Holds(l, s, g, f, q),
         NEW a \in 0 .. Len(l), NEW b \in a .. Len(l)
  PROVE  Holds(SubSeq(l, a + 1, b), SubSeq(s, a + 1, b), Left(g, a), Left(f, a), q)
<1> DEFINE l2 == SubSeq(l, a + 1, b)
           s2 == SubSeq(s, a + 1, b)
           n == b - a
           g2 == Left(g, a)
           f2 == Left(f, a)
<1>1. l \in Seq(Item) /\ s \in Seq(Token) /\ Len(l) = Len(s) /\ Len(s) \in Nat /\ n \in Nat
  BY DEF Holds
<1>2. \A i \in a + 1 .. b : i \in 1 .. Len(s)
  BY <1>1
<1>3. \A i \in a + 1 .. b : l[i] \in Item /\ s[i] \in Token
  <2>1. \A i \in 1 .. Len(s) : l[i] \in Item /\ s[i] \in Token
    BY <1>1, ElementOfSeq
  <2> QED
    BY <1>2, <2>1, Zenon
<1>4. a + 1 \in Int /\ b \in Int /\ (b - (a + 1)) + 1 = n /\ (a + 1 <= b <=> n > 0)
  BY <1>1
<1>5. \A i \in 1 .. n : ((a + 1) + i) - 1 = a + i
  BY <1>1
<1>6. /\ l2 \in Seq(Item) /\ Len(l2) = n
      /\ \A i \in 1 .. n : l2[i] = l[a + i]
  <2>1. /\ l2 \in Seq(Item) /\ Len(l2) = IF a + 1 <= b THEN (b - (a + 1)) + 1 ELSE 0
        /\ \A i \in 1 .. (b - (a + 1)) + 1 : l2[i] = l[((a + 1) + i) - 1]
    BY <1>3, <1>4, SubSeqProperties
  <2> HIDE DEF l2
  <2>2. Len(l2) = n
    BY <1>1, <1>4, <2>1
  <2> QED
    BY <1>4, <1>5, <2>1, <2>2, Zenon
<1>7. /\ s2 \in Seq(Token) /\ Len(s2) = n
      /\ \A i \in 1 .. n : s2[i] = s[a + i]
  <2>1. /\ s2 \in Seq(Token) /\ Len(s2) = IF a + 1 <= b THEN (b - (a + 1)) + 1 ELSE 0
        /\ \A i \in 1 .. (b - (a + 1)) + 1 : s2[i] = s[((a + 1) + i) - 1]
    BY <1>3, <1>4, SubSeqProperties
  <2> HIDE DEF s2
  <2>2. Len(s2) = n
    BY <1>1, <1>4, <2>1
  <2> QED
    BY <1>4, <1>5, <2>1, <2>2, Zenon
<1> HIDE DEF l2, s2
<1>8. \A i \in 1 .. n : a + i \in 1 .. Len(s) /\ (i = f2 <=> a + i = f) /\ (i = g2 <=> a + i = g)
  BY <1>1 DEF Left
<1>9. \A i \in 1 .. n - 1 : a + i \in 1 .. Len(s) - 1 /\ i \in 1 .. n /\ i + 1 \in 1 .. n
                            /\ a + (i + 1) = (a + i) + 1
  BY <1>1
<1> HIDE DEF g2, f2, n
<1>10. ASSUME NEW i \in 1 .. n
       PROVE  s2[i].seq \in Recent(q) /\ (i # f2 => l2[i].byte = B(s2[i]) /\ l2[i].token = s2[i])
  BY <1>6, <1>7, <1>8, Zenon DEF Holds
<1>11. ASSUME f2 \in 1 .. n PROVE \E k \in 0 .. 7 : l2[f2].byte = Flip(B(s2[f2]), k)
  <2>1. a + f2 = f /\ f \in 1 .. Len(s)
    BY <1>8, <1>11, Zenon
  <2>2. l2[f2] = l[f] /\ s2[f2] = s[f]
    BY <1>6, <1>7, <1>11, <2>1, Zenon
  <2> QED
    BY <2>1, <2>2, Zenon DEF Holds
<1>12. ASSUME NEW i \in 1 .. n - 1
       PROVE  IF i = g2 THEN Skips(s2[i], s2[i + 1]) ELSE After(s2[i], s2[i + 1])
  <2>1. IF a + i = g THEN Skips(s[a + i], s[(a + i) + 1]) ELSE After(s[a + i], s[(a + i) + 1])
    BY <1>9, Zenon DEF Holds
  <2>2. i \in 1 .. n /\ i + 1 \in 1 .. n /\ a + (i + 1) = (a + i) + 1
    BY <1>9, Zenon
  <2>3. s2[i] = s[a + i] /\ s2[i + 1] = s[a + (i + 1)]
    BY <1>7, <2>2, Zenon
  <2>4. i = g2 <=> a + i = g
    BY <1>8, <2>2, Zenon
  <2> QED
    BY <2>1, <2>2, <2>3, <2>4, Zenon
<1>13. Holds(l2, s2, g2, f2, q)
  BY <1>6, <1>7, <1>10, <1>11, <1>12, Zenon DEF Holds
<1> QED
  BY <1>13, Zenon DEF l2, s2, g2, f2

\* x without its i-th element.
Without(x, i) == SubSeq(x, 1, i - 1) \o SubSeq(x, i + 1, Len(x))

LEMMA WithoutFacts ==
  ASSUME NEW S, NEW x \in Seq(S), NEW i \in 1 .. Len(x)
  PROVE  /\ Without(x, i) \in Seq(S) /\ Len(Without(x, i)) = Len(x) - 1
         /\ \A j \in 1 .. Len(x) - 1 : Without(x, i)[j] = IF j < i THEN x[j] ELSE x[j + 1]
<1> DEFINE y == SubSeq(x, 1, i - 1)
           z == SubSeq(x, i + 1, Len(x))
           n == Len(x)
<1>1. n \in Nat /\ \A j \in 1 .. n : x[j] \in S
  BY ElementOfSeq
<1>2. y \in Seq(S) /\ Len(y) = i - 1 /\ \A j \in 1 .. i - 1 : y[j] = x[j]
  <2>1. \A j \in 1 .. i - 1 : x[j] \in S
    BY <1>1
  <2>2. /\ y \in Seq(S) /\ Len(y) = IF 1 <= i - 1 THEN ((i - 1) - 1) + 1 ELSE 0
        /\ \A j \in 1 .. ((i - 1) - 1) + 1 : y[j] = x[(1 + j) - 1]
    <3>1. 1 \in Int /\ i - 1 \in Int
      OBVIOUS
    <3> QED
      BY <2>1, <3>1, SubSeqProperties
  <2>3. ((i - 1) - 1) + 1 = i - 1 /\ \A j \in 1 .. i - 1 : (1 + j) - 1 = j
    BY <1>1
  <2> HIDE DEF y
  <2>4. Len(y) = i - 1
    BY <1>1, <2>2
  <2> QED
    BY <2>2, <2>3, <2>4, Zenon
<1>3. z \in Seq(S) /\ Len(z) = n - i /\ \A j \in 1 .. n - i : z[j] = x[i + j]
  <2>1. \A j \in i + 1 .. n : x[j] \in S
    BY <1>1
  <2>2. /\ z \in Seq(S) /\ Len(z) = IF i + 1 <= n THEN (n - (i + 1)) + 1 ELSE 0
        /\ \A j \in 1 .. (n - (i + 1)) + 1 : z[j] = x[((i + 1) + j) - 1]
    <3>1. i + 1 \in Int /\ n \in Int
      BY <1>1
    <3> QED
      BY <2>1, <3>1, SubSeqProperties
  <2>3. (n - (i + 1)) + 1 = n - i /\ \A j \in 1 .. n - i : ((i + 1) + j) - 1 = i + j
    BY <1>1
  <2> HIDE DEF z
  <2>4. Len(z) = n - i
    BY <1>1, <2>2
  <2> QED
    BY <2>2, <2>3, <2>4, Zenon
<1> HIDE DEF y, z
<1>4. /\ y \o z \in Seq(S) /\ Len(y \o z) = Len(y) + Len(z)
      /\ \A j \in 1 .. Len(y) + Len(z) : (y \o z)[j] = IF j <= Len(y) THEN y[j] ELSE z[j - Len(y)]
  BY <1>2, <1>3, ConcatProperties
<1>5. Len(y) + Len(z) = n - 1
  BY <1>1, <1>2, <1>3
<1> DEFINE w == y \o z
<1>6. w = Without(x, i)
  BY Zenon DEF Without, y, z
<1>7. w \in Seq(S) /\ Len(w) = n - 1
  BY <1>4, <1>5, Zenon
<1>8. \A j \in 1 .. n - 1 : w[j] = IF j <= Len(y) THEN y[j] ELSE z[j - Len(y)]
  BY <1>4, <1>5, Zenon
<1> HIDE DEF w
<1>9. ASSUME NEW j \in 1 .. n - 1 PROVE w[j] = IF j < i THEN x[j] ELSE x[j + 1]
  <2>1. CASE j < i
    <3>1. j <= Len(y) /\ j \in 1 .. i - 1
      BY <1>1, <1>2, <2>1
    <3> QED
      BY <1>2, <1>8, <2>1, <3>1, Zenon
  <2>2. CASE ~(j < i)
    <3>1. ~(j <= Len(y)) /\ j - Len(y) \in 1 .. n - i /\ i + (j - Len(y)) = j + 1
      BY <1>1, <1>2, <2>2
    <3> QED
      BY <1>3, <1>8, <2>2, <3>1, Zenon
  <2> QED
    BY <2>1, <2>2
<1> QED
  BY <1>6, <1>7, <1>9, Zenon

\* Two steps in a reply skip one byte.
LEMMA TwoSteps ==
  ASSUME NEW t \in Token, NEW u \in Token, NEW w \in Token, After(t, u), After(u, w)
  PROVE  Skips(t, w)
<1>1. t.at \in 1 .. 6 /\ u.at \in 1 .. 6 /\ w.at \in 1 .. 6
  BY DEF Token
<1> QED
  BY <1>1 DEF After, Skips

LEMMA DropHolds ==
  ASSUME NEW l, NEW s, NEW q, Holds(l, s, 0, 0, q), NEW i \in 1 .. Len(l)
  PROVE  Holds(Without(l, i), Without(s, i), i - 1, 0, q)
<1> DEFINE l2 == Without(l, i)
           s2 == Without(s, i)
           n == Len(s)
<1>1. l \in Seq(Item) /\ s \in Seq(Token) /\ Len(l) = Len(s) /\ n \in Nat /\ i \in 1 .. n
  BY DEF Holds
<1>2. /\ l2 \in Seq(Item) /\ Len(l2) = n - 1
      /\ \A j \in 1 .. n - 1 : l2[j] = IF j < i THEN l[j] ELSE l[j + 1]
  BY <1>1, WithoutFacts, Zenon
<1>3. /\ s2 \in Seq(Token) /\ Len(s2) = n - 1
      /\ \A j \in 1 .. n - 1 : s2[j] = IF j < i THEN s[j] ELSE s[j + 1]
  BY <1>1, WithoutFacts, Zenon
<1> HIDE DEF l2, s2
<1>4. \A j \in 1 .. n : j # 0
  OBVIOUS
<1>5. \A j \in 1 .. n : s[j].seq \in Recent(q) /\ l[j].byte = B(s[j]) /\ l[j].token = s[j]
  BY <1>4, Zenon DEF Holds
<1>6. \A j \in 1 .. n - 1 : j \in 1 .. n /\ j + 1 \in 1 .. n /\ j # 0
  BY <1>1
<1>7. \A j \in 1 .. n - 1 : After(s[j], s[j + 1])
  BY <1>6, Zenon DEF Holds
<1>8. \A j \in 1 .. n : s[j] \in Token
  BY <1>1, ElementOfSeq
<1>9. ASSUME NEW j \in 1 .. n - 1
      PROVE  s2[j].seq \in Recent(q) /\ l2[j].byte = B(s2[j]) /\ l2[j].token = s2[j]
  <2>1. CASE j < i
    BY <1>2, <1>3, <1>5, <1>6, <2>1, Zenon
  <2>2. CASE ~(j < i)
    BY <1>2, <1>3, <1>5, <1>6, <2>2, Zenon
  <2> QED
    BY <2>1, <2>2
<1>10. ASSUME NEW j \in 1 .. (n - 1) - 1
       PROVE  IF j = i - 1 THEN Skips(s2[j], s2[j + 1]) ELSE After(s2[j], s2[j + 1])
  <2> DEFINE j1 == j + 1
             j2 == j1 + 1
  <2>1. /\ j \in 1 .. n - 1 /\ j1 \in 1 .. n - 1 /\ j \in 1 .. n /\ j1 \in 1 .. n /\ j2 \in 1 .. n
        /\ (j1 < i <=> j < i /\ j # i - 1) /\ (j = i - 1 => j < i)
    BY <1>1
  <2>2. /\ s2[j] = IF j < i THEN s[j] ELSE s[j1]
        /\ s2[j1] = IF j1 < i THEN s[j1] ELSE s[j2]
        /\ After(s[j], s[j1]) /\ After(s[j1], s[j2])
        /\ s[j] \in Token /\ s[j1] \in Token /\ s[j2] \in Token
    BY <1>3, <1>7, <1>8, <2>1, Zenon
  <2>3. Skips(s[j], s[j2])
    BY <2>2, TwoSteps, Zenon
  <2>4. s2[j + 1] = s2[j1]
    OBVIOUS
  <2> HIDE DEF j1, j2
  <2> QED
    BY <2>1, <2>2, <2>3, <2>4, Zenon
<1>11. 0 \notin 1 .. n - 1
  OBVIOUS
<1>12. \A j \in 1 .. n - 1 : s2[j].seq \in Recent(q) /\ l2[j].byte = B(s2[j]) /\ l2[j].token = s2[j]
  BY <1>9
<1>13. \A j \in 1 .. (n - 1) - 1 :
         IF j = i - 1 THEN Skips(s2[j], s2[j + 1]) ELSE After(s2[j], s2[j + 1])
  BY <1>10
<1> HIDE DEF n
<1>14. Holds(l2, s2, i - 1, 0, q)
  BY <1>2, <1>3, <1>11, <1>12, <1>13, Zenon DEF Holds
<1> QED
  BY <1>14, Zenon DEF l2, s2

LEMMA FlipHolds ==
  ASSUME NEW l, NEW s, NEW q, Holds(l, s, 0, 0, q), NEW i \in 1 .. Len(l), NEW k \in 0 .. 7
  PROVE  Holds([l EXCEPT ![i] = [byte |-> Flip(l[i].byte, k), token |-> Garbage]],
               s, 0, i, q)
<1> DEFINE e == [byte |-> Flip(l[i].byte, k), token |-> Garbage]
           l2 == [l EXCEPT ![i] = e]
           n == Len(s)
<1>1. l \in Seq(Item) /\ s \in Seq(Token) /\ Len(l) = Len(s) /\ n \in Nat /\ i \in 1 .. n
  BY DEF Holds
<1>2. s[i] \in Token
  BY <1>1, ElementOfSeq
<1>3. \A j \in 1 .. n : j # 0
  OBVIOUS
<1>4. l[i].byte = B(s[i])
  BY <1>1, <1>3, Zenon DEF Holds
<1>5. e = [byte |-> Flip(B(s[i]), k), token |-> Garbage]
  BY <1>4, Zenon
<1>6. Flip(B(s[i]), k) \in Char
  BY <1>2, ByteInts, FlipChar
<1>7. e \in Item /\ e.byte = Flip(B(s[i]), k)
  BY <1>5, <1>6, Zenon DEF Item
<1> HIDE DEF e
<1>8. l2 \in Seq(Item) /\ Len(l2) = n /\ \A j \in 1 .. n : l2[j] = IF j = i THEN e ELSE l[j]
  <2>1. /\ l2 \in Seq(Item) /\ Len(l2) = Len(l)
        /\ \A j \in 1 .. Len(l) : l2[j] = IF j = i THEN e ELSE l[j]
    <3>1. l \in Seq(Item) /\ e \in Item /\ i \in 1 .. Len(l)
      BY <1>1, <1>7
    <3> QED
      BY <3>1, ExceptSeq
  <2> HIDE DEF l2
  <2> QED
    BY <1>1, <2>1, Zenon
<1> HIDE DEF l2
<1>9. \A j \in 1 .. n : j # i => l2[j].byte = B(s[j]) /\ l2[j].token = s[j]
  BY <1>3, <1>8, Zenon DEF Holds
<1>10. \E b \in 0 .. 7 : l2[i].byte = Flip(B(s[i]), b)
  BY <1>1, <1>7, <1>8, Zenon
<1>11. Holds(l2, s, 0, i, q)
  BY <1>1, <1>8, <1>9, <1>10, Zenon DEF Holds
<1> QED
  BY <1>11, Zenon DEF l2, e

\* The place of the i-th byte in its reply, and that of the next one.
LEMMA PlaceOnLine ==
  ASSUME NEW m \in Nat, NEW i \in 1 .. 6 * m
  PROVE  /\ ((i - 1) \div 6) + 1 \in 1 .. m
         /\ ((i - 1) % 6) + 1 \in 1 .. 6
         /\ IF ((i - 1) % 6) + 1 = 6 THEN (i % 6) + 1 = 1
            ELSE (i % 6) + 1 = (((i - 1) % 6) + 1) + 1 /\ i \div 6 = (i - 1) \div 6
OBVIOUS

\* The replies as the target sends them.
LEMMA ScriptHolds ==
  ASSUME NEW script \in Seq([kind : Kinds, lag : {0, 1}]), seq_num \in 0 .. 127
  PROVE  \E s : Holds(OnLine(script), s, 0, 0, seq_num)
<1> DEFINE m == Len(script)
           n == 6 * m
           r(i) == script[((i - 1) \div 6) + 1]
           tok(i) == [kind |-> r(i).kind, seq |-> Number(r(i).lag), at |-> ((i - 1) % 6) + 1]
           s == [i \in 1 .. n |-> tok(i)]
           l == OnLine(script)
<1>1. m \in Nat /\ n \in Nat /\ \A j \in 1 .. m : script[j] \in [kind : Kinds, lag : {0, 1}]
  <2>1. m \in Nat /\ n \in Nat
    OBVIOUS
  <2>2. \A j \in 1 .. m : script[j] \in [kind : Kinds, lag : {0, 1}]
    BY ElementOfSeq, Zenon
  <2> QED
    BY <2>1, <2>2
<1>2. ASSUME NEW lag \in {0, 1}
      PROVE  Number(lag) \in 0 .. 127 /\ Number(lag) \in Recent(seq_num)
  BY DEF Number, Recent
<1>3. ASSUME NEW i \in 1 .. n
      PROVE  /\ ((i - 1) % 6) + 1 \in 1 .. 6
             /\ r(i) \in [kind : Kinds, lag : {0, 1}]
  BY <1>1, PlaceOnLine
<1>4. ASSUME NEW i \in 1 .. n PROVE tok(i) \in Token /\ tok(i).seq \in Recent(seq_num)
  <2>1. r(i).kind \in Kinds /\ r(i).lag \in {0, 1}
    BY <1>3
  <2> HIDE DEF r
  <2>2. Number(r(i).lag) \in 0 .. 127 /\ Number(r(i).lag) \in Recent(seq_num)
    BY <1>2, <2>1
  <2> QED
    BY <1>3, <2>1, <2>2, Zenon DEF Token
<1>5. ReplyLen = 6
  BY DEF ReplyLen
<1>6. ASSUME NEW i \in 1 .. n
      PROVE  Reply(r(i).kind, Number(r(i).lag))[((i - 1) % 6) + 1] = tok(i)
  <2>1. ((i - 1) % 6) + 1 \in 1 .. 6
    BY <1>3
  <2> DEFINE a == ((i - 1) % 6) + 1
  <2> HIDE DEF r, a
  <2>2. Reply(r(i).kind, Number(r(i).lag))[a]
          = [kind |-> r(i).kind, seq |-> Number(r(i).lag), at |-> a]
    BY <1>5, <2>1, Zenon DEF Reply, a
  <2> QED
    BY <2>2, Zenon DEF a
<1>7. l = [i \in 1 .. n |-> [byte |-> B(tok(i)), token |-> tok(i)]]
  <2>1. l = [i \in 1 .. n |->
               [byte |-> ByteOf(Reply(r(i).kind, Number(r(i).lag))[((i - 1) % 6) + 1]),
                token |-> Reply(r(i).kind, Number(r(i).lag))[((i - 1) % 6) + 1]]]
    BY <1>5, Zenon DEF OnLine
  <2> HIDE DEF tok, r, l
  <2> QED
    BY <1>6, <2>1, Zenon DEF B
<1>8. \A i \in 1 .. n - 1 : After(tok(i), tok(i + 1))
  <2> SUFFICES ASSUME NEW i \in 1 .. n - 1
               PROVE  After(tok(i), tok(i + 1))
    OBVIOUS
  <2>1. (i + 1) - 1 = i /\ i \in 1 .. n
    BY <1>1
  <2>2. IF ((i - 1) % 6) + 1 = 6 THEN (i % 6) + 1 = 1
        ELSE (i % 6) + 1 = (((i - 1) % 6) + 1) + 1 /\ i \div 6 = (i - 1) \div 6
    BY <1>1, <2>1, PlaceOnLine
  <2>3. tok(i + 1).at = (i % 6) + 1 /\ r(i + 1) = script[(i \div 6) + 1]
    BY <2>1
  <2>4. tok(i).at = ((i - 1) % 6) + 1 /\ r(i) = script[((i - 1) \div 6) + 1]
    OBVIOUS
  <2>5. r(i + 1) = r(i) => tok(i + 1).seq = tok(i).seq /\ tok(i + 1).kind = tok(i).kind
    <3> HIDE DEF r
    <3> QED
      BY Zenon
  <2> HIDE DEF tok, r
  <2> QED
    BY <2>2, <2>3, <2>4, <2>5, Zenon DEF After
<1> HIDE DEF tok
<1>9. s \in Seq(Token) /\ Len(s) = n /\ \A i \in 1 .. n : s[i] = tok(i)
  <2>1. s \in [1 .. n -> Token]
    BY <1>4
  <2> QED
    BY <1>1, <2>1
<1>10. \A i \in 1 .. n : [byte |-> B(tok(i)), token |-> tok(i)] \in Item
  BY <1>4, ByteInts, Zenon DEF Item
<1> HIDE DEF s, l
<1>11. /\ l \in Seq(Item) /\ Len(l) = n
       /\ \A i \in 1 .. n : l[i] = [byte |-> B(tok(i)), token |-> tok(i)]
  <2>1. l \in [1 .. n -> Item]
    BY <1>7, <1>10
  <2>2. l \in Seq(Item) /\ Len(l) = n
    BY <1>1, <2>1
  <2> QED
    BY <1>7, <2>2, Zenon
<1>12. \A i \in 1 .. n : s[i].seq \in Recent(seq_num) /\ l[i].byte = B(s[i]) /\ l[i].token = s[i]
  <2> TAKE i \in 1 .. n
  <2>1. s[i] = tok(i) /\ l[i] = [byte |-> B(tok(i)), token |-> tok(i)]
    BY <1>9, <1>11, Zenon
  <2> DEFINE item == [byte |-> B(tok(i)), token |-> tok(i)]
  <2>2. item.byte = B(tok(i)) /\ item.token = tok(i)
    OBVIOUS
  <2>3. tok(i).seq \in Recent(seq_num)
    BY <1>4
  <2> HIDE DEF item
  <2>4. l[i] = item
    BY <2>1, Zenon DEF item
  <2> QED
    BY <2>1, <2>2, <2>3, <2>4, Zenon
<1>13. 0 \notin 1 .. n /\ \A i \in 1 .. n - 1 : i # 0 /\ i \in 1 .. n /\ i + 1 \in 1 .. n
  BY <1>1
<1>14. \A i \in 1 .. n - 1 : After(s[i], s[i + 1])
  BY <1>8, <1>9, <1>13, Zenon
<1> HIDE DEF n
<1>15. Holds(l, s, 0, 0, seq_num)
  BY <1>9, <1>11, <1>12, <1>13, <1>14, Zenon DEF Holds
<1> QED
  BY <1>15, Zenon DEF l

-----------------------------------------------------------------------------
(* The invariant: what is still on the line comes from tokens in order,    *)
(* with at most one place where a byte is lost or damaged, ahead of the    *)
(* next read or behind it.                                                 *)
AckInv ==
  /\ seq_num \in 0 .. 127
  /\ hit \in {"none", "drop", "flip"}
  /\ \E s, g, f :
       /\ g \in Nat /\ f \in Nat
       /\ hit # "drop" => g = 0
       /\ hit # "flip" => f = 0
       /\ Holds(line, s, g, f, seq_num)

AckJudged == JudgedByOrigin /\ NoFalseAck

LEMMA ReplyInvariance == AckSpec => [](AckInv /\ AckJudged)
<1>1. AckInit => AckInv /\ AckJudged
  <2> SUFFICES ASSUME AckInit PROVE AckInv /\ AckJudged
    OBVIOUS
  <2>1. seq_num \in 0 .. 127 /\ hit = "none" /\ verdict = "none"
    BY KermitAckAssumption DEF AckInit
  <2>2. PICK script \in Scripts : line = OnLine(script)
    BY Zenon DEF AckInit
  <2>3. script \in Seq([kind : Kinds, lag : {0, 1}])
    BY <2>2, KermitAckAssumption, Zenon
  <2>4. \E s : Holds(line, s, 0, 0, seq_num)
    BY <2>1, <2>2, <2>3, ScriptHolds, Zenon
  <2>5. 0 \in Nat
    OBVIOUS
  <2>6. AckInv
    BY <2>1, <2>4, <2>5, Zenon DEF AckInv
  <2> QED
    BY <2>1, <2>6 DEF AckJudged, JudgedByOrigin, NoFalseAck
<1>2. ASSUME AckInv, AckJudged, [AckNext]_ackVars
      PROVE  AckInv' /\ AckJudged'
  <2>1. /\ seq_num \in 0 .. 127 /\ hit \in {"none", "drop", "flip"}
    BY <1>2 DEF AckInv
  <2>2. PICK s, g, f :
          /\ g \in Nat /\ f \in Nat
          /\ hit # "drop" => g = 0
          /\ hit # "flip" => f = 0
          /\ Holds(line, s, g, f, seq_num)
    BY <1>2, Zenon DEF AckInv
  <2>3. CASE DropByte
    <3>1. PICK i \in 1 .. Len(line) : line' = Without(line, i)
      BY <2>3, Zenon DEF DropByte, Without
    <3>2. hit = "none" /\ hit' = "drop" /\ seq_num' = seq_num /\ verdict' = "none"
      BY <2>3, Zenon DEF DropByte
    <3>3. g = 0 /\ f = 0
      BY <2>2, <3>2
    <3>4. Holds(line', Without(s, i), i - 1, 0, seq_num)
      BY <2>2, <3>1, <3>3, DropHolds, Zenon
    <3>5. i - 1 \in Nat /\ 0 \in Nat
      OBVIOUS
    <3>6. Holds(line', Without(s, i), i - 1, 0, seq_num')
      BY <3>2, <3>4, Zenon
    <3>7. hit' \in {"none", "drop", "flip"} /\ hit' # "flip" /\ ~(hit' # "drop")
      BY <3>2
    <3>8. AckInv'
      BY <2>1, <3>2, <3>5, <3>6, <3>7, Zenon DEF AckInv
    <3> QED
      BY <3>2, <3>8 DEF AckJudged, JudgedByOrigin, NoFalseAck
  <2>4. CASE DamageByte
    <3>1. PICK i \in 1 .. Len(line), k \in 0 .. 7 :
            line' = [line EXCEPT ![i] = [byte |-> Flip(line[i].byte, k), token |-> Garbage]]
      BY <2>4, Zenon DEF DamageByte
    <3>2. hit = "none" /\ hit' = "flip" /\ seq_num' = seq_num /\ verdict' = "none"
      BY <2>4, Zenon DEF DamageByte
    <3>3. g = 0 /\ f = 0
      BY <2>2, <3>2
    <3>4. Holds(line', s, 0, i, seq_num)
      BY <2>2, <3>1, <3>3, FlipHolds, Zenon
    <3>5. i \in Nat /\ 0 \in Nat
      OBVIOUS
    <3>6. Holds(line', s, 0, i, seq_num')
      BY <3>2, <3>4, Zenon
    <3>7. hit' \in {"none", "drop", "flip"} /\ hit' # "drop" /\ ~(hit' # "flip")
      BY <3>2
    <3>8. AckInv'
      BY <2>1, <3>2, <3>5, <3>6, <3>7, Zenon DEF AckInv
    <3> QED
      BY <3>2, <3>8 DEF AckJudged, JudgedByOrigin, NoFalseAck
  <2>5. CASE GetPacket
    <3>1. PICK n \in 0 .. ReplyLen :
            /\ n <= Len(line)
            /\ k_ack' = SubSeq(line, 1, n)
            /\ line' = SubSeq(line, n + 1, Len(line))
            /\ verdict' = kermit_ack_type(k_ack')
      BY <2>5, Zenon DEF GetPacket
    <3>2. seq_num' = seq_num /\ hit' = hit
      BY <2>5, Zenon DEF GetPacket
    <3>3. Len(line) \in Nat
      BY <2>2 DEF Holds
    <3>4. /\ n \in 0 .. Len(line) /\ Len(line) \in n .. Len(line)
          /\ 0 \in 0 .. Len(line) /\ n \in 0 .. n /\ n \in 0 .. Len(line) /\ 0 + 1 = 1
      BY <3>1, <3>3 DEF ReplyLen
    <3>5. Left(g, 0) = g /\ Left(f, 0) = f
      BY <2>2 DEF Left
    <3>6. Holds(k_ack', SubSeq(s, 1, n), g, f, seq_num)
      <4>1. \A a \in 0 .. Len(line) : \A b \in a .. Len(line) :
              Holds(SubSeq(line, a + 1, b), SubSeq(s, a + 1, b), Left(g, a), Left(f, a), seq_num)
        BY <2>2, PartHolds
      <4>2. Holds(SubSeq(line, 0 + 1, n), SubSeq(s, 0 + 1, n), Left(g, 0), Left(f, 0), seq_num)
        BY <3>4, <4>1, Zenon
      <4> QED
        BY <3>1, <3>4, <3>5, <4>2, Zenon
    <3>8. Holds(line', SubSeq(s, n + 1, Len(line)), Left(g, n), Left(f, n), seq_num)
      BY <2>2, <3>1, <3>4, PartHolds, Zenon
    <3>9. /\ Left(g, n) \in Nat /\ Left(f, n) \in Nat
          /\ g = 0 => Left(g, n) = 0
          /\ f = 0 => Left(f, n) = 0
      BY <2>2, <3>4, <3>3 DEF Left
    <3>10. Holds(line', SubSeq(s, n + 1, Len(line)), Left(g, n), Left(f, n), seq_num')
      BY <3>2, <3>8, Zenon
    <3>11. AckInv'
      BY <2>1, <2>2, <3>2, <3>9, <3>10, Zenon DEF AckInv
    <3>12. g = 0 \/ f = 0
      BY <2>2
    <3>13. /\ f = 0 => Consequence(Verdict(k_ack')) = Consequence(Origin(k_ack'))
           /\ Verdict(k_ack') = "ACK" => Origin(k_ack') = "ACK"
      BY <2>1, <2>2, <3>6, <3>12, ReadJudged, Zenon
    <3>14. /\ verdict' = Verdict(k_ack')
           /\ AckType(Tokens, seq_num)' = Origin(k_ack')
      BY <3>1, <3>2, Zenon DEF Verdict, Origin, TokensOf, Tokens
    <3>15. hit' # "flip" => f = 0
      BY <2>2, <3>2, Zenon
    <3>16. AckJudged'
      BY <3>13, <3>14, <3>15, Zenon DEF AckJudged, JudgedByOrigin, NoFalseAck
    <3> QED
      BY <3>11, <3>16
  <2>6. CASE UNCHANGED ackVars
    <3>1. UNCHANGED <<seq_num, line, hit, k_ack, verdict>>
      BY <2>6 DEF ackVars
    <3>2. AckInv'
      BY <1>2, <3>1, Zenon DEF AckInv
    <3>3. Tokens' = Tokens
      BY <3>1, Zenon DEF Tokens
    <3> QED
      BY <1>2, <3>1, <3>2, <3>3, Zenon DEF AckJudged, JudgedByOrigin, NoFalseAck
  <2> QED
    BY <1>2, <2>3, <2>4, <2>5, <2>6 DEF AckNext
<1> QED
  BY <1>1, <1>2, PTL DEF AckSpec

(* However the reads fall on the replies and whichever byte is lost, the   *)
(* verdict on the bytes has the consequence that the replies they come     *)
(* from call for, for every number and every sequence of replies           *)
(* (ukermit.c:520-556, 619-633).                                           *)
THEOREM RepliesJudged == AckSpec => []JudgedByOrigin
<1>1. AckInv /\ AckJudged => JudgedByOrigin
  BY DEF AckJudged
<1> QED
  BY <1>1, ReplyInvariance, PTL

(* Neither a lost byte nor a flipped bit, in a read that starts anywhere,  *)
(* makes an ACK of the current packet out of anything else                 *)
(* (ukermit.c:528-551).                                                    *)
THEOREM NoAckFromDamage == AckSpec => []NoFalseAck
<1>1. AckInv /\ AckJudged => NoFalseAck
  BY DEF AckJudged
<1> QED
  BY <1>1, ReplyInvariance, PTL
=============================================================================
