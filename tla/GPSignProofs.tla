---------------------------- MODULE GPSignProofs ----------------------------
(***************************************************************************)
(* What holds of the images of gpsign for every size of a page and of the  *)
(* information in front, and every length of the file: proofs about        *)
(* GPSign.                                                                 *)
(***************************************************************************)
EXTENDS GPSign, ConfigGrammar, WellFoundedInduction, TLAPS

-----------------------------------------------------------------------------
(* Division.                                                               *)

\* Quotient and remainder are the ones that fit.
LEMMA Division ==
  ASSUME NEW m \in Nat \ {0}, NEW q \in Nat, NEW r \in 0 .. m - 1
  PROVE  (q * m + r) \div m = q /\ (q * m + r) % m = r
OBVIOUS

LEMMA Negative ==
  ASSUME NEW m \in Nat \ {0}, NEW d \in Int, d < 0
  PROVE  d * m <= -m
<1>1. d + 1 <= 0 /\ (d + 1) * m = d * m + m
  OBVIOUS
<1>2. (d + 1) * m <= 0
  BY <1>1
<1> QED
  BY <1>1, <1>2

LEMMA Divided ==
  ASSUME NEW m \in Nat \ {0}, NEW n \in Nat
  PROVE  \E q \in Nat, r \in 0 .. m - 1 : n = q * m + r /\ n \div m = q /\ n % m = r
<1> DEFINE d == n \div m
           r == n % m
<1>1. d \in Int /\ r \in 0 .. m - 1
  OBVIOUS
<1>2. r = n - m * d
  OBVIOUS
<1> HIDE DEF d, r
<1>3. m * d = d * m /\ d * m \in Int
  BY <1>1
<1>4. n = d * m + r
  BY <1>1, <1>2, <1>3
<1>5. d >= 0
  <2>1. d < 0 => d * m <= -m
    BY <1>1, Negative
  <2> QED
    BY <1>1, <1>3, <1>4, <2>1
<1> QED
  BY <1>1, <1>4, <1>5 DEF d, r

\* A number and its predecessor have the same quotient, unless it is a
\* multiple.
LEMMA Multiple ==
  ASSUME NEW m \in Nat \ {0}, NEW n \in Nat \ {0}, n % m = 0
  PROVE  \E q \in Nat : n = (q + 1) * m /\ (n - 1) \div m = q /\ n \div m = q + 1
<1>1. PICK p \in Nat, r \in 0 .. m - 1 : n = p * m + r /\ n \div m = p /\ n % m = r
  BY Divided
<1>2. r = 0 /\ p # 0
  BY <1>1
<1>3. p - 1 \in Nat /\ n = ((p - 1) + 1) * m /\ (p - 1) + 1 = p
  BY <1>1, <1>2
<1>4. n - 1 = (p - 1) * m + (m - 1)
  BY <1>1, <1>2
<1>5. (n - 1) \div m = p - 1
  BY <1>3, <1>4, Division
<1> QED
  BY <1>1, <1>3, <1>5

LEMMA NoMultiple ==
  ASSUME NEW m \in Nat \ {0}, NEW n \in Nat \ {0}, n % m # 0
  PROVE  \E q \in Nat, r \in 1 .. m - 1 :
           n = q * m + r /\ (n - 1) \div m = q /\ n \div m = q
<1>1. PICK q \in Nat, r \in 0 .. m - 1 : n = q * m + r /\ n \div m = q /\ n % m = r
  BY Divided
<1>2. n - 1 = q * m + (r - 1) /\ r - 1 \in 0 .. m - 1 /\ r \in 1 .. m - 1
  BY <1>1
<1>3. (n - 1) \div m = q
  BY <1>2, Division
<1> QED
  BY <1>1, <1>2, <1>3

-----------------------------------------------------------------------------
(* The places of an image, as ImageLayout counts them.                     *)

P == PAGE_PAD_SIZE
Page(n) == (n - 1) \div (2 * P)
At(n) == (n - 1) % (2 * P)
Index(n) == Page(n) * P + At(n) + 1

\* The t-th byte of the information and the file.
PlainAt(t) == IF t <= INFO THEN Info ELSE t - INFO

\* b holds the first N bytes of them where the ROM expects them.
Placed(b, N) ==
  \A n \in 1 .. Len(b) :
    IF At(n) < P THEN Index(n) \in 1 .. N /\ b[n] = PlainAt(Index(n)) ELSE b[n] = Padding

Laid(padded, b, N) ==
  IF padded
  THEN Len(b) = N + P * ((N - 1) \div P) /\ Placed(b, N)
  ELSE Len(b) = N /\ \A n \in 1 .. N : b[n] = PlainAt(n)

LEMMA Sizes == P \in Nat \ {0} /\ INFO \in Nat \ {0} /\ P > 2 * INFO /\ 2 * P \in Nat \ {0}
BY GPSignAssumption DEF P

\* Where the q-th page begins, its first half, and its second.
LEMMA InPage ==
  ASSUME NEW q \in Nat, NEW r \in 0 .. 2 * P - 1
  PROVE  /\ Page(2 * (q * P) + r + 1) = q
         /\ At(2 * (q * P) + r + 1) = r
         /\ Index(2 * (q * P) + r + 1) = q * P + r + 1
<1>1. P \in Nat \ {0} /\ 2 * P \in Nat \ {0}
  BY Sizes
<1>2. q * P \in Nat /\ q * (2 * P) = 2 * (q * P)
  BY <1>1
<1>3. (2 * (q * P) + r + 1) - 1 = q * (2 * P) + r
  BY <1>1, <1>2
<1>4. (q * (2 * P) + r) \div (2 * P) = q /\ (q * (2 * P) + r) % (2 * P) = r
  BY <1>1, Division
<1> QED
  BY <1>3, <1>4 DEF Page, At, Index

-----------------------------------------------------------------------------
(* What the writes of gpsign do to what is placed already.                 *)

\* The information in front is shorter than half a page.
LEMMA FrontLaid ==
  ASSUME NEW b, b = [n \in 1 .. INFO |-> Info], NEW padded \in BOOLEAN
  PROVE  Laid(padded, b, INFO)
<1>1. Len(b) = INFO /\ \A n \in 1 .. INFO : b[n] = PlainAt(n)
  BY Sizes DEF PlainAt
<1>2. (INFO - 1) \div P = 0
  <2>1. INFO - 1 = 0 * P + (INFO - 1) /\ INFO - 1 \in 0 .. P - 1
    BY Sizes
  <2> QED
    BY <2>1, Division, Sizes
<1>3. ASSUME NEW n \in 1 .. INFO
      PROVE  At(n) < P /\ Index(n) = n
  <2>1. n - 1 \in 0 .. 2 * P - 1 /\ n = 2 * (0 * P) + (n - 1) + 1 /\ 0 * P = 0
    BY Sizes
  <2>2. At(n) = n - 1 /\ Index(n) = 0 * P + (n - 1) + 1
    BY <2>1, InPage
  <2> QED
    BY <2>1, <2>2, Sizes
<1> QED
  BY <1>1, <1>2, <1>3, Sizes DEF Laid, Placed

\* What is appended to a sequence, by its places.
LEMMA Appended ==
  ASSUME NEW b \in Seq(Int), NEW w \in Seq(Int)
  PROVE  /\ b \o w \in Seq(Int) /\ Len(b \o w) = Len(b) + Len(w)
         /\ \A n \in 1 .. Len(b) : (b \o w)[n] = b[n]
         /\ \A n \in Len(b) + 1 .. Len(b) + Len(w) : (b \o w)[n] = w[n - Len(b)]
OBVIOUS

\* A byte behind an incomplete half of a page.
LEMMA WithinHalf ==
  ASSUME NEW b \in Seq(Int), NEW N \in Nat \ {0}, Laid(TRUE, b, N), N % P # 0
  PROVE  Laid(TRUE, b \o <<PlainAt(N + 1)>>, N + 1)
<1> DEFINE b2 == b \o <<PlainAt(N + 1)>>
<1>1. PICK q \in Nat, r \in 1 .. P - 1 :
        N = q * P + r /\ (N - 1) \div P = q /\ N \div P = q
  BY NoMultiple, Sizes
<1>2. q * P \in Nat /\ P * q = q * P
  BY Sizes
<1>3. Len(b) = 2 * (q * P) + r /\ Placed(b, N)
  <2>1. Len(b) = N + P * ((N - 1) \div P) /\ Placed(b, N)
    BY Zenon DEF Laid
  <2>2. Len(b) = N + P * q
    BY <1>1, <2>1, Zenon
  <2> QED
    BY <1>1, <1>2, <2>1, <2>2, Sizes, SMTT(30)
<1>4. PlainAt(N + 1) \in Int
  BY Sizes DEF PlainAt, Info
<1>5. /\ b2 \in Seq(Int) /\ Len(b2) = Len(b) + 1
      /\ \A n \in 1 .. Len(b) : b2[n] = b[n]
      /\ b2[Len(b) + 1] = PlainAt(N + 1)
  BY <1>4
<1> HIDE DEF b2
<1>6. Len(b2) = N + 1 + P * ((N + 1 - 1) \div P)
  <2>1. N + 1 - 1 = N /\ Len(b2) = N + 1 + P * q
    BY <1>1, <1>2, <1>3, <1>5, Sizes
  <2> QED
    BY <1>1, <2>1, Zenon
<1>7. ASSUME NEW n \in 1 .. Len(b2)
      PROVE  IF At(n) < P THEN Index(n) \in 1 .. N + 1 /\ b2[n] = PlainAt(Index(n))
             ELSE b2[n] = Padding
  <2>1. CASE n \in 1 .. Len(b)
    BY <1>3, <1>5, <2>1, SMTT(30) DEF Placed
  <2>2. CASE n = Len(b) + 1
    <3>1. r \in 0 .. 2 * P - 1 /\ n = 2 * (q * P) + r + 1
      BY <1>2, <1>3, <2>2, Sizes
    <3>2. At(n) = r /\ Index(n) = q * P + r + 1
      BY <3>1, InPage
    <3> QED
      BY <1>1, <1>5, <2>2, <3>2, Sizes
  <2> QED
    BY <1>3, <1>5, <2>1, <2>2, Sizes, SMTT(30)
<1> QED
  BY <1>6, <1>7 DEF Laid, Placed, b2

\* A byte behind a complete one: the other half of the page comes first.
LEMMA AcrossPadding ==
  ASSUME NEW b \in Seq(Int), NEW N \in Nat \ {0}, Laid(TRUE, b, N), N % P = 0
  PROVE  Laid(TRUE, b \o ([n \in 1 .. P |-> Padding] \o <<PlainAt(N + 1)>>), N + 1)
<1> DEFINE w == [n \in 1 .. P |-> Padding] \o <<PlainAt(N + 1)>>
           b2 == b \o w
<1>1. PICK q \in Nat : N = (q + 1) * P /\ (N - 1) \div P = q /\ N \div P = q + 1
  BY Multiple, Sizes
<1>2. q * P \in Nat /\ P * q = q * P /\ (q + 1) * P = q * P + P /\ P * (q + 1) = q * P + P
  BY Sizes
<1>3. Len(b) = 2 * (q * P) + P /\ Placed(b, N)
  <2>1. Len(b) = N + P * ((N - 1) \div P) /\ Placed(b, N)
    BY Zenon DEF Laid
  <2>2. Len(b) = N + P * q
    BY <1>1, <2>1, Zenon
  <2> QED
    BY <1>1, <1>2, <2>1, <2>2, Sizes, SMTT(30)
<1>4. PlainAt(N + 1) \in Int /\ Padding \in Int
  BY Sizes DEF PlainAt, Info, Padding
<1>5. [n \in 1 .. P |-> Padding] \in Seq(Int) /\ Len([n \in 1 .. P |-> Padding]) = P
  BY <1>4, Sizes
<1>6. /\ w \in Seq(Int) /\ Len(w) = P + 1
      /\ \A n \in 1 .. P : w[n] = Padding
      /\ w[P + 1] = PlainAt(N + 1)
  BY <1>4, <1>5, Sizes
<1> HIDE DEF w
<1>7. /\ b2 \in Seq(Int) /\ Len(b2) = Len(b) + P + 1
      /\ \A n \in 1 .. Len(b) : b2[n] = b[n]
      /\ \A n \in Len(b) + 1 .. Len(b) + P + 1 : b2[n] = w[n - Len(b)]
  <2>1. /\ b2 \in Seq(Int) /\ Len(b2) = Len(b) + Len(w)
        /\ \A n \in 1 .. Len(b) : b2[n] = b[n]
        /\ \A n \in Len(b) + 1 .. Len(b) + Len(w) : b2[n] = w[n - Len(b)]
    BY <1>6, Appended, Zenon
  <2>2. Len(b) + Len(w) = Len(b) + P + 1
    BY <1>6, Sizes
  <2> QED
    BY <2>1, <2>2, Zenon
<1> HIDE DEF b2
<1>8. Len(b2) = N + 1 + P * ((N + 1 - 1) \div P)
  <2>1. N + 1 - 1 = N /\ Len(b2) = N + 1 + P * (q + 1)
    BY <1>1, <1>2, <1>3, <1>7, Sizes
  <2> QED
    BY <1>1, <2>1, Zenon
<1>9. ASSUME NEW n \in 1 .. Len(b2)
      PROVE  IF At(n) < P THEN Index(n) \in 1 .. N + 1 /\ b2[n] = PlainAt(Index(n))
             ELSE b2[n] = Padding
  <2>1. CASE n \in 1 .. Len(b)
    BY <1>3, <1>7, <2>1 DEF Placed
  <2>2. CASE n \in Len(b) + 1 .. Len(b) + P
    <3> DEFINE r == n - 1 - 2 * (q * P)
    <3>1. r \in P .. 2 * P - 1 /\ n = 2 * (q * P) + r + 1
      BY <1>2, <1>3, <2>2, Sizes
    <3>2. At(n) = r
      <4> HIDE DEF r
      <4>1. r \in 0 .. 2 * P - 1
        BY <3>1, Sizes
      <4> QED
        BY <3>1, <4>1, InPage, Zenon
    <3>3. b2[n] = w[n - Len(b)] /\ n - Len(b) \in 1 .. P
      BY <1>7, <2>2, Sizes, SMTT(30)
    <3> QED
      BY <1>6, <3>1, <3>2, <3>3, Sizes
  <2>3. CASE n = Len(b) + P + 1
    <3>1. 0 \in 0 .. 2 * P - 1 /\ n = 2 * ((q + 1) * P) + 0 + 1
      BY <1>2, <1>3, <2>3, Sizes
    <3>2. At(n) = 0 /\ Index(n) = (q + 1) * P + 0 + 1
      BY <3>1, InPage
    <3>3. b2[n] = PlainAt(N + 1)
      <4>1. Len(b) \in Nat /\ n \in Len(b) + 1 .. Len(b) + P + 1 /\ n - Len(b) = P + 1
        BY <2>3, Sizes
      <4> QED
        BY <1>6, <1>7, <4>1, Zenon
    <3> QED
      BY <1>1, <1>2, <3>2, <3>3, Sizes
  <2> QED
    BY <1>3, <1>7, <2>1, <2>2, <2>3, Sizes
<1>10. Laid(TRUE, b2, N + 1)
  BY <1>8, <1>9 DEF Laid, Placed
<1> QED
  BY <1>10, Zenon DEF b2, w

\* A byte without padding.
LEMMA WithoutPages ==
  ASSUME NEW b \in Seq(Int), NEW N \in Nat \ {0}, Laid(FALSE, b, N)
  PROVE  Laid(FALSE, b \o <<PlainAt(N + 1)>>, N + 1)
<1> DEFINE w == <<PlainAt(N + 1)>>
<1>1. w \in Seq(Int) /\ Len(w) = 1 /\ w[1] = PlainAt(N + 1)
  BY Sizes DEF PlainAt, Info
<1>2. Len(b) = N /\ \A n \in 1 .. N : b[n] = PlainAt(n)
  BY DEF Laid
<1> HIDE DEF w
<1>3. /\ Len(b \o w) = N + 1
      /\ \A n \in 1 .. N : (b \o w)[n] = b[n]
      /\ (b \o w)[N + 1] = w[1]
  <2>1. /\ Len(b \o w) = Len(b) + Len(w)
        /\ \A n \in 1 .. Len(b) : (b \o w)[n] = b[n]
        /\ \A n \in Len(b) + 1 .. Len(b) + Len(w) : (b \o w)[n] = w[n - Len(b)]
    BY <1>1, Appended, Zenon
  <2> QED
    BY <1>1, <1>2, <2>1
<1>4. \A n \in 1 .. N + 1 : (b \o w)[n] = PlainAt(n)
  BY <1>1, <1>2, <1>3
<1>5. Laid(FALSE, b \o w, N + 1)
  BY <1>3, <1>4 DEF Laid
<1> QED
  BY <1>5, Zenon DEF w

-----------------------------------------------------------------------------
(* The inductive invariant: as long as the disk has room and nobody cut    *)
(* the input, what is written is laid out, for as many bytes as were read. *)

Intact == ~full /\ inLen = len

ImageTypeOK ==
  /\ pc \in {"config", "visit", "options", "open", "header", "copy", "exited"}
  /\ page_size_4k \in BOOLEAN /\ full \in BOOLEAN
  /\ inLen \in Nat /\ len \in Nat /\ i \in Nat /\ ch \in Int
  /\ body \in Seq(Int)

CopyInv ==
  /\ pc \notin {"copy", "exited"} => body = <<>>
  /\ pc = "copy" => i <= len /\ (Intact => Laid(page_size_4k, body, INFO + i))
  /\ pc = "exited" /\ body # <<>> /\ Intact => Laid(page_size_4k, body, INFO + len)

IInv == ImageTypeOK /\ CopyInv

\* The guard of the padding that asks for i > 8 only excludes what could not
\* be anyway.
LEMMA GuardNotNeeded ==
  ASSUME ImageTypeOK
  PROVE  PadNow <=> page_size_4k /\ (INFO + i) % P = 0
<1>1. i \in Nat /\ i + INFO = INFO + i /\ INFO + i \in Nat \ {0}
  BY Sizes DEF ImageTypeOK
<1>2. ASSUME i <= INFO PROVE (INFO + i) % P # 0
  <2>1. INFO + i = 0 * P + (INFO + i) /\ INFO + i \in 0 .. P - 1
    BY <1>1, <1>2, Sizes
  <2>2. (INFO + i) % P = INFO + i
    BY <2>1, Division, Sizes
  <2> QED
    BY <1>1, <2>2
<1> QED
  BY <1>1, <1>2, Sizes DEF PadNow, P

LEMMA CopyByteStep ==
  ASSUME IInv, CopyByte
  PROVE  IInv'
<1> DEFINE N == INFO + i
           pad == IF PadNow THEN [n \in 1 .. PAGE_PAD_SIZE |-> Padding] ELSE <<>>
<1>1. /\ i \in Nat /\ len \in Nat /\ i < len /\ body \in Seq(Int) /\ ch' \in Int
      /\ N \in Nat \ {0} /\ pc = "copy" /\ i' = i + 1 /\ INFO + i' = N + 1
      /\ UNCHANGED <<pc, page_size_4k, inLen, len, full>>
  BY Sizes DEF IInv, ImageTypeOK, CopyByte
<1>2. pad \in Seq(Int)
  BY Sizes DEF P, Padding
<1>3. body' = IF full THEN body ELSE body \o (pad \o <<ch'>>)
  BY Zenon DEF CopyByte, Writes
<1>4. pad \o <<ch'>> \in Seq(Int)
  BY <1>1, <1>2
<1> HIDE DEF pad
<1>5. body' \in Seq(Int)
  BY <1>1, <1>3, <1>4
<1>6. ImageTypeOK'
  BY <1>1, <1>5 DEF IInv, ImageTypeOK
<1>7. ASSUME Intact PROVE Laid(page_size_4k, body', N + 1)
  <2>1. Laid(page_size_4k, body, N) /\ body' = body \o (pad \o <<ch'>>)
    BY <1>1, <1>3, <1>7 DEF IInv, CopyInv, Intact
  <2>2. ch' = PlainAt(N + 1)
    BY <1>1, <1>7, Sizes DEF CopyByte, Intact, PlainAt
  <2>3. CASE page_size_4k /\ N % P = 0
    <3>1. pad = [n \in 1 .. P |-> Padding]
      BY <2>3, GuardNotNeeded DEF IInv, pad, P
    <3> QED
      BY <1>1, <2>1, <2>2, <2>3, <3>1, AcrossPadding DEF ImageTypeOK, IInv
  <2>4. CASE ~(page_size_4k /\ N % P = 0)
    <3>1. pad = <<>>
      BY <2>4, GuardNotNeeded, Zenon DEF IInv, pad
    <3>2. body' = body \o <<PlainAt(N + 1)>>
      <4>1. <<>> \o <<ch'>> = <<ch'>>
        BY <1>1
      <4> QED
        BY <2>1, <2>2, <3>1, <4>1, Zenon
    <3>3. CASE page_size_4k
      BY <1>1, <2>1, <2>4, <3>2, <3>3, WithinHalf DEF ImageTypeOK, IInv
    <3>4. CASE ~page_size_4k
      BY <1>1, <2>1, <3>2, <3>4, WithoutPages DEF ImageTypeOK, IInv
    <3> QED
      BY <3>3, <3>4
  <2> QED
    BY <2>3, <2>4
<1>8. CopyInv'
  BY <1>1, <1>7 DEF CopyInv, Intact
<1> QED
  BY <1>6, <1>8 DEF IInv

LEMMA WriteHeaderStep ==
  ASSUME IInv, WriteHeader
  PROVE  IInv'
<1> DEFINE front == [n \in 1 .. INFO |-> Info]
<1>1. front \in Seq(Int)
  BY Sizes DEF Info
<1>2. /\ body = <<>> /\ pc' = "copy" /\ i' = 0 /\ ch' \in Int /\ len \in Nat
      /\ UNCHANGED <<page_size_4k, inLen, len, full>>
  BY DEF IInv, ImageTypeOK, CopyInv, WriteHeader, Unread
<1>3. body' = IF full THEN body ELSE body \o front
  BY Zenon DEF WriteHeader, Writes
<1> HIDE DEF front
<1>4. ~full => body' = front
  BY <1>1, <1>2, <1>3
<1>5. ImageTypeOK'
  BY <1>1, <1>2, <1>3, <1>4 DEF IInv, ImageTypeOK
<1>6. page_size_4k \in BOOLEAN /\ INFO + 0 = INFO
  BY Sizes DEF IInv, ImageTypeOK
<1>7. ~full => Laid(page_size_4k, body', INFO)
  BY <1>4, <1>6, FrontLaid DEF front
<1>8. CopyInv'
  BY <1>2, <1>6, <1>7 DEF CopyInv, Intact
<1> QED
  BY <1>5, <1>8 DEF IInv

LEMMA OtherSteps ==
  ASSUME IInv, [Next]_vars, ~CopyByte, ~WriteHeader
  PROVE  IInv'
<1> USE DEF IInv, ImageTypeOK, CopyInv, Intact
<1>1. CASE Parse
  BY <1>1 DEF Parse, imageVars
<1>2. CASE ParseOk
  BY <1>2 DEF ParseOk, imageVars
<1>3. CASE ParseFails
  BY <1>3 DEF ParseFails, Return, imageVars
<1>4. CASE Visit
  BY <1>4 DEF Visit, imageVars
<1>5. CASE NoMoreValues
  BY <1>5 DEF NoMoreValues, imageVars
<1>6. CASE CommandLine
  BY <1>6 DEF CommandLine
<1>7. CASE OpenFiles
  BY <1>7, GPSignAssumption DEF OpenFiles
<1>8. CASE OpenFilesFails
  BY <1>8 DEF OpenFilesFails, Return, imageVars
<1>9. CASE Close
  BY <1>9 DEF Close, Return, imageVars
<1>10. CASE CutInput
  BY <1>10 DEF CutInput
<1>11. CASE DiskFull
  BY <1>11 DEF DiskFull
<1>12. CASE Terminated \/ UNCHANGED vars
  BY <1>12 DEF Terminated, vars, imageVars
<1> QED
  BY <1>1, <1>2, <1>3, <1>4, <1>5, <1>6, <1>7, <1>8, <1>9, <1>10, <1>11, <1>12 DEF Next

LEMMA InitHolds == Init => IInv
<1> SUFFICES ASSUME Init PROVE IInv
  OBVIOUS
<1>1. pc = "config" /\ inLen = 0 /\ len = 0 /\ i = 0 /\ ch = 0 /\ body = <<>>
  BY DEF Init
<1>2. page_size_4k \in BOOLEAN /\ full \in BOOLEAN
  BY Zenon DEF Init
<1> QED
  BY <1>1, <1>2 DEF IInv, ImageTypeOK, CopyInv

(* The inductive invariant holds in every state of every behaviour.        *)
THEOREM Invariance == Spec => []IInv
<1>1. IInv /\ [Next]_vars => IInv'
  BY CopyByteStep, WriteHeaderStep, OtherSteps
<1> QED
  BY <1>1, InitHolds, PTL DEF Spec

-----------------------------------------------------------------------------
\* The image as ImageLayout describes it, by the plain bytes.
LEMMA LaidOut == IInv => ImageLayout
<1> SUFFICES ASSUME IInv, pc = "exited", body # <<>>, ~full, inLen = len
             PROVE  IF page_size_4k
                    THEN /\ Len(body) = Len(Plain) + P * ((Len(Plain) - 1) \div P)
                         /\ \A n \in DOMAIN body :
                              body[n] = IF At(n) < P THEN Plain[Index(n)] ELSE Padding
                    ELSE body = Plain
  BY DEF ImageLayout, P, At, Page, Index
<1>1. Laid(page_size_4k, body, INFO + len) /\ body \in Seq(Int) /\ len \in Nat
  BY DEF IInv, ImageTypeOK, CopyInv, Intact
<1>2. /\ [n \in 1 .. INFO |-> Info] \in Seq(Int) /\ Len([n \in 1 .. INFO |-> Info]) = INFO
      /\ [n \in 1 .. len |-> n] \in Seq(Int) /\ Len([n \in 1 .. len |-> n]) = len
  BY <1>1, Sizes DEF Info
<1>3. /\ Plain \in Seq(Int) /\ Len(Plain) = INFO + len
      /\ \A t \in 1 .. INFO + len : Plain[t] = PlainAt(t)
  BY <1>1, <1>2, Appended, Sizes DEF Plain, PlainAt
<1>4. CASE page_size_4k
  BY <1>1, <1>3, <1>4 DEF Laid, Placed
<1>5. CASE ~page_size_4k
  BY <1>1, <1>3, <1>5, SMTT(30) DEF Laid
<1> QED
  BY <1>4, <1>5

(* Wherever the page ends, and however much is in front of the file, the   *)
(* boot ROM reads all of it and no padding (gpsign.c:622-637): for 2048    *)
(* and 8, the sizes of the code, as for the small ones of the run.         *)
THEOREM LayoutKept == Spec => []ImageLayout
BY Invariance, LaidOut, PTL

-----------------------------------------------------------------------------
(* The configuration header. A buffer with an entry and a copy of each     *)
(* section of a list.                                                      *)

Names == {"s", "r", "f", "m"}

AWord == [src : Names \union {"toc", "end", "zero", "beyond"}, at : Int, val : Int]
Buffer == [0 .. 127 -> AWord]

\* The words of the buffer that hold a copy of a section.
InCopy(w, s) == Start[s] <= w /\ w < Start[s] + Copied[s]

Filled(c, p) ==
  /\ p \in Seq(Names)
  /\ \A j, k \in 1 .. Len(p) : p[j] = p[k] => j = k
  /\ c.toc_idx = Len(p) * 8
  /\ c.buffer \in Buffer
  /\ \A j \in 1 .. Len(p) : \A k \in 0 .. 7 : c.buffer[(j - 1) * 8 + k] = TocEntry(p[j])[k]
  /\ \A j \in 1 .. Len(p) : \A w \in 0 .. 127 :
       InCopy(w, p[j]) => c.buffer[w] = SectionWord(p[j], w - Start[p[j]])
  /\ \A w \in 0 .. 127 :
       w >= Len(p) * 8 => c.buffer[w] = Zeroed \/ \E j \in 1 .. Len(p) : InCopy(w, p[j])

\* The sections lie behind a table of five entries, none over another.
LEMMA Places ==
  /\ \A s \in Names : /\ Start[s] \in Nat /\ Start[s] >= 40 /\ Start[s] + Copied[s] <= 128
                      /\ Copied[s] \in Nat /\ Words[s] \in Nat /\ 1 <= Words[s] /\ Words[s] <= Copied[s]
  /\ \A s, t \in Names : s # t => Start[s] + Copied[s] <= Start[t] \/ Start[t] + Copied[t] <= Start[s]
<1>1. /\ Start["s"] = 40 /\ Start["r"] = 60 /\ Start["f"] = 83 /\ Start["m"] = 98
      /\ Words["s"] = 20 /\ Words["r"] = 23 /\ Words["f"] = 15 /\ Words["m"] = 4
      /\ Copied["s"] = 20 /\ Copied["r"] = 23 /\ Copied["f"] = 15 /\ Copied["m"] = 15
  BY DEF Start, Words, Copied
<1> QED
  BY <1>1 DEF Names

LEMMA Apart ==
  ASSUME NEW s \in Names, NEW t \in Names, s # t, NEW w \in 0 .. 127, InCopy(w, s)
  PROVE  ~InCopy(w, t)
<1> DEFINE a == Start[s]
           b == Copied[s]
           d == Start[t]
           e == Copied[t]
<1>1. a \in Nat /\ b \in Nat /\ d \in Nat /\ e \in Nat
  BY Places
<1>2. a + b <= d \/ d + e <= a
  BY Places
<1>3. a <= w /\ w < a + b
  BY DEF InCopy
<1>4. InCopy(w, t) <=> d <= w /\ w < d + e
  BY DEF InCopy
<1> HIDE DEF a, b, d, e
<1> QED
  BY <1>1, <1>2, <1>3, <1>4

LEMMA WordTypes ==
  ASSUME NEW s \in Names
  PROVE  TocEntry(s) \in [0 .. 8 - 1 -> AWord] /\ \A w \in Int : SectionWord(s, w) \in AWord
<1>1. Start[s] \in Int /\ Words[s] \in Int
  BY Places
<1>2. ASSUME NEW src \in Names \union {"toc", "end", "zero", "beyond"}, NEW at \in Int, NEW val \in Int
      PROVE  Word(src, at, val) \in AWord
  BY Zenon DEF Word, AWord
<1>3. ASSUME NEW w \in 0 .. 8 - 1
      PROVE  Word("toc", w, CASE w = 0 -> Start[s] [] w = 1 -> Words[s] [] OTHER -> 0) \in AWord
  <2>1. (CASE w = 0 -> Start[s] [] w = 1 -> Words[s] [] OTHER -> 0) \in Int /\ w \in Int
    BY <1>1
  <2> QED
    BY <1>2, <2>1, Zenon
<1>4. ASSUME NEW w \in Int PROVE SectionWord(s, w) \in AWord
  <2>1. 0 \in Int
    OBVIOUS
  <2> QED
    BY <1>2, <2>1, Zenon DEF SectionWord
<1>5. TocWords - 1 = 8 - 1
  BY DEF TocWords
<1> QED
  BY <1>3, <1>4, <1>5, Zenon DEF TocEntry

LEMMA PutFacts ==
  ASSUME NEW b \in Buffer, NEW at \in Nat, NEW n \in Nat, NEW words \in [0 .. n - 1 -> AWord]
  PROVE  /\ Put(b, at, words) \in Buffer
         /\ \A w \in 0 .. 127 : at <= w /\ w < at + n => Put(b, at, words)[w] = words[w - at]
         /\ \A w \in 0 .. 127 : w < at \/ at + n <= w => Put(b, at, words)[w] = b[w]
<1> DEFINE v(w) == IF w - at \in 0 .. n - 1 THEN words[w - at] ELSE b[w]
<1>1. Put(b, at, words) = [w \in 0 .. 127 |-> v(w)]
  BY Zenon DEF Put, Buffer
<1>2. ASSUME NEW w \in 0 .. 127
      PROVE  /\ v(w) \in AWord
             /\ at <= w /\ w < at + n => v(w) = words[w - at]
             /\ w < at \/ at + n <= w => v(w) = b[w]
  <2>1. b[w] \in AWord /\ (w - at \in 0 .. n - 1 => words[w - at] \in AWord)
    BY DEF Buffer
  <2>2. w - at \in 0 .. n - 1 <=> at <= w /\ w < at + n
    OBVIOUS
  <2>3. ~(w < at \/ at + n <= w) <=> at <= w /\ w < at + n
    OBVIOUS
  <2> QED
    BY <2>1, <2>2, <2>3, Zenon
<1> HIDE DEF v
<1> QED
  BY <1>1, <1>2, Zenon DEF Buffer

\* An entry is put into the buffer, and a section.
LEMMA EntryPut ==
  ASSUME NEW b \in Buffer, NEW at \in Nat, NEW entry \in [0 .. 8 - 1 -> AWord]
  PROVE  /\ Put(b, at, entry) \in Buffer
         /\ \A k \in 0 .. 7 : at + k <= 127 => Put(b, at, entry)[at + k] = entry[k]
         /\ \A w \in 0 .. 127 : w < at \/ w >= at + 8 => Put(b, at, entry)[w] = b[w]
<1> DEFINE f == Put(b, at, entry)
<1>1. 8 \in Nat
  OBVIOUS
<1>2. /\ f \in Buffer
      /\ \A w \in 0 .. 127 : at <= w /\ w < at + 8 => f[w] = entry[w - at]
      /\ \A w \in 0 .. 127 : w < at \/ at + 8 <= w => f[w] = b[w]
  BY <1>1, PutFacts, Zenon
<1> HIDE DEF f
<1>3. ASSUME NEW k \in 0 .. 7, at + k <= 127 PROVE f[at + k] = entry[k]
  <2>1. at + k \in 0 .. 127 /\ (at + k) - at = k /\ at <= at + k /\ at + k < at + 8
    BY <1>3
  <2>2. f[at + k] = entry[(at + k) - at]
    BY <1>2, <2>1, Zenon
  <2> QED
    BY <2>1, <2>2, Zenon
<1> QED
  BY <1>2, <1>3 DEF f

LEMMA SectionPut ==
  ASSUME NEW b \in Buffer, NEW s \in Names
  PROVE  LET f == Put(b, Start[s], [w \in 0 .. Copied[s] - 1 |-> SectionWord(s, w)])
         IN  /\ f \in Buffer
             /\ \A w \in 0 .. 127 :
                  /\ InCopy(w, s) => f[w] = SectionWord(s, w - Start[s])
                  /\ ~InCopy(w, s) => f[w] = b[w]
<1> DEFINE at == Start[s]
           n == Copied[s]
           words == [w \in 0 .. n - 1 |-> SectionWord(s, w)]
           f == Put(b, at, words)
<1>1. at \in Nat /\ n \in Nat
  BY Places
<1>2. words \in [0 .. n - 1 -> AWord] /\ \A w \in 0 .. n - 1 : words[w] = SectionWord(s, w)
  BY WordTypes
<1>3. \A w : InCopy(w, s) <=> at <= w /\ w < at + n
  BY DEF InCopy
<1> HIDE DEF at, n, words
<1>4. /\ f \in Buffer
      /\ \A w \in 0 .. 127 : at <= w /\ w < at + n => f[w] = words[w - at]
      /\ \A w \in 0 .. 127 : w < at \/ at + n <= w => f[w] = b[w]
  BY <1>1, <1>2, PutFacts
<1> HIDE DEF f
<1>5. ASSUME NEW w \in 0 .. 127
      PROVE  /\ InCopy(w, s) => f[w] = SectionWord(s, w - at)
             /\ ~InCopy(w, s) => f[w] = b[w]
  <2>1. at <= w /\ w < at + n => w - at \in 0 .. n - 1
    BY <1>1
  <2>2. (at <= w /\ w < at + n) \/ w < at \/ at + n <= w
    BY <1>1
  <2> QED
    BY <1>2, <1>3, <1>4, <2>1, <2>2, Zenon
<1> QED
  BY <1>4, <1>5, Zenon DEF at, n, words, f

\* One more section.
LEMMA Added ==
  ASSUME NEW c, NEW p \in Seq(Names), Filled(c, p), Len(p) <= 3, NEW s \in Names,
         \A j \in 1 .. Len(p) : p[j] # s
  PROVE  Filled([buffer |-> AddSection(c.buffer, c.toc_idx, s), toc_idx |-> c.toc_idx + TocWords],
                Append(p, s))
<1> DEFINE n == Len(p)
           q == Append(p, s)
           b == c.buffer
           b1 == Put(b, n * 8, TocEntry(s))
           b2 == Put(b1, Start[s], [w \in 0 .. Copied[s] - 1 |-> SectionWord(s, w)])
<1>1. /\ p \in Seq(Names) /\ n \in Nat /\ n <= 3 /\ c.toc_idx = n * 8 /\ n * 8 \in Nat
      /\ b \in Buffer
  <2>1. c.toc_idx = n * 8 /\ b \in Buffer
    BY Zenon DEF Filled
  <2>2. n \in Nat
    OBVIOUS
  <2> QED
    BY <2>1, <2>2
<1>2. /\ q \in Seq(Names) /\ Len(q) = n + 1 /\ q[n + 1] = s
      /\ \A j \in 1 .. n : q[j] = p[j] /\ p[j] \in Names /\ p[j] # s
  BY <1>1
<1>3. TocEntry(s) \in [0 .. 8 - 1 -> AWord]
  BY WordTypes
<1>4. /\ b1 \in Buffer
      /\ \A k \in 0 .. 7 : n * 8 + k <= 127 => b1[n * 8 + k] = TocEntry(s)[k]
      /\ \A w \in 0 .. 127 : w < n * 8 \/ w >= n * 8 + 8 => b1[w] = b[w]
  BY <1>1, <1>3, EntryPut
<1> HIDE DEF b1
<1>5. /\ b2 \in Buffer
      /\ \A w \in 0 .. 127 :
           /\ InCopy(w, s) => b2[w] = SectionWord(s, w - Start[s])
           /\ ~InCopy(w, s) => b2[w] = b1[w]
  BY <1>4, SectionPut, Zenon
<1>6. b2 = AddSection(c.buffer, c.toc_idx, s)
  BY <1>1, Zenon DEF AddSection, b1
<1> HIDE DEF b2
<1>7. ASSUME NEW t \in Names, NEW w \in 0 .. 127, InCopy(w, t) PROVE w >= 40
  <2>1. Start[t] \in Nat /\ Start[t] >= 40 /\ Start[t] <= w
    BY <1>7, Places DEF InCopy
  <2> QED
    BY <2>1
<1>8. ASSUME NEW j \in 1 .. n + 1, NEW k \in 0 .. 7
      PROVE  b2[(j - 1) * 8 + k] = TocEntry(q[j])[k]
  <2> DEFINE x == (j - 1) * 8 + k
  <2>1. x \in 0 .. 127 /\ x < 40
    BY <1>1
  <2>2. b2[x] = b1[x]
    <3> HIDE DEF x
    <3>1. ~(x >= 40)
      BY <2>1
    <3> QED
      BY <1>5, <1>7, <2>1, <3>1, Zenon
  <2>3. CASE j = n + 1
    <3>1. x = n * 8 + k /\ n * 8 + k <= 127
      BY <1>1, <2>3
    <3>2. b1[n * 8 + k] = TocEntry(s)[k]
      BY <1>4, <3>1
    <3> QED
      BY <1>2, <2>2, <2>3, <3>1, <3>2, Zenon
  <2>4. CASE j \in 1 .. n
    <3>1. x < n * 8
      BY <1>1, <2>4
    <3>2. b1[x] = b[x]
      BY <1>4, <2>1, <3>1, Zenon
    <3>3. b[x] = TocEntry(p[j])[k]
      BY <2>4, Zenon DEF Filled
    <3> QED
      BY <1>2, <2>2, <2>4, <3>2, <3>3, Zenon
  <2> QED
    BY <1>1, <2>3, <2>4
<1>9. ASSUME NEW j \in 1 .. n + 1, NEW w \in 0 .. 127, InCopy(w, q[j])
      PROVE  b2[w] = SectionWord(q[j], w - Start[q[j]])
  <2>1. CASE j = n + 1
    BY <1>2, <1>5, <1>9, <2>1, Zenon
  <2>2. CASE j \in 1 .. n
    <3>1. q[j] = p[j] /\ p[j] \in Names /\ p[j] # s /\ InCopy(w, p[j])
      BY <1>2, <1>9, <2>2, Zenon
    <3>2. ~InCopy(w, s)
      BY <3>1, Apart, Zenon
    <3>3. w >= n * 8 + 8
      <4>1. w >= 40
        BY <1>7, <3>1, Zenon
      <4> QED
        BY <1>1, <4>1
    <3>4. b2[w] = b[w]
      BY <1>4, <1>5, <3>2, <3>3, Zenon
    <3>5. b[w] = SectionWord(p[j], w - Start[p[j]])
      BY <2>2, <3>1, Zenon DEF Filled
    <3> QED
      BY <3>1, <3>4, <3>5, Zenon
  <2> QED
    BY <1>1, <2>1, <2>2
<1>10. ASSUME NEW w \in 0 .. 127, w >= (n + 1) * 8
       PROVE  b2[w] = Zeroed \/ \E j \in 1 .. n + 1 : InCopy(w, q[j])
  <2>1. w >= n * 8 /\ w >= n * 8 + 8 /\ n + 1 \in 1 .. n + 1 /\ \A j \in 1 .. n : j \in 1 .. n + 1
    BY <1>1, <1>10
  <2>2. CASE InCopy(w, s)
    BY <1>2, <2>1, <2>2, Zenon
  <2>3. CASE ~InCopy(w, s)
    <3>1. b2[w] = b[w]
      BY <1>4, <1>5, <2>1, <2>3, Zenon
    <3>2. b[w] = Zeroed \/ \E j \in 1 .. n : InCopy(w, p[j])
      BY <2>1, Zenon DEF Filled
    <3> QED
      BY <1>2, <2>1, <3>1, <3>2, Zenon
  <2> QED
    BY <2>2, <2>3
<1>11. ASSUME NEW j \in 1 .. n + 1, NEW k \in 1 .. n + 1, q[j] = q[k]
       PROVE  j = k
  <2>1. (j = n + 1 \/ j \in 1 .. n) /\ (k = n + 1 \/ k \in 1 .. n)
    BY <1>1
  <2>2. \A a, d \in 1 .. n : p[a] = p[d] => a = d
    BY DEF Filled
  <2> QED
    BY <1>2, <1>11, <2>1, <2>2, Zenon
<1> DEFINE c2 == [buffer |-> b2, toc_idx |-> c.toc_idx + TocWords]
<1>12. c2.buffer = b2 /\ c2.toc_idx = (n + 1) * 8
  BY <1>1 DEF TocWords
<1> HIDE DEF q, c2, n
<1>13. Filled(c2, q)
  BY <1>2, <1>5, <1>8, <1>9, <1>10, <1>11, <1>12, Zenon DEF Filled
<1> QED
  BY <1>6, <1>13 DEF c2, q, n

\* A section is added if it is valid.
LEMMA AddedIfValid ==
  ASSUME NEW c, NEW T \in SUBSET Names, NEW p \in Seq(T), Filled(c, p), Len(p) <= 3,
         NEW s \in Names, s \notin T
  PROVE  LET q == p \o Listed(s)
         IN  /\ q \in Seq(T \union {s}) /\ Len(q) <= Len(p) + 1
             /\ Filled(AddIfValid(c, s), q)
<1>1. p \in Seq(Names) /\ p \in Seq(T \union {s}) /\ \A j \in 1 .. Len(p) : p[j] # s
  OBVIOUS
<1>2. CASE Valid(s)
  <2>1. p \o Listed(s) = Append(p, s)
    <3>1. p \o <<s>> = Append(p, s)
      OBVIOUS
    <3> QED
      BY <1>2, <3>1, Zenon DEF Listed
  <2>2. Append(p, s) \in Seq(T \union {s}) /\ Len(Append(p, s)) <= Len(p) + 1
    BY <1>1
  <2>3. Filled([buffer |-> AddSection(c.buffer, c.toc_idx, s), toc_idx |-> c.toc_idx + TocWords],
               Append(p, s))
    BY <1>1, Added
  <2> QED
    BY <1>2, <2>1, <2>2, <2>3, Zenon DEF AddIfValid
<1>3. CASE ~Valid(s)
  <2>1. p \o Listed(s) = p
    <3>1. p \o <<>> = p
      OBVIOUS
    <3> QED
      BY <1>3, <3>1, Zenon DEF Listed
  <2>2. Len(p) <= Len(p) + 1
    OBVIOUS
  <2> QED
    BY <1>1, <1>3, <2>1, <2>2, Zenon DEF AddIfValid
<1> QED
  BY <1>2, <1>3

\* Nothing yet.
LEMMA NothingFilled == Filled(Cleared, <<>>)
<1>1. Cleared.toc_idx = 0 /\ Cleared.buffer = [w \in 0 .. HeaderWords - 1 |-> Zeroed]
  BY DEF Cleared
<1>2. HeaderWords - 1 = 127 /\ Zeroed \in AWord
  BY DEF HeaderWords, Zeroed, Word, AWord
<1>3. Cleared.buffer \in Buffer /\ \A w \in 0 .. 127 : Cleared.buffer[w] = Zeroed
  BY <1>1, <1>2, Zenon DEF Buffer
<1>4. <<>> \in Seq(Names) /\ Len(<<>>) = 0 /\ 1 .. 0 = {} /\ 0 = 0 * 8
  OBVIOUS
<1> QED
  BY <1>1, <1>3, <1>4, Zenon DEF Filled

\* All four of them.
LEMMA AllFilled ==
  /\ Present \in Seq(Names) /\ Len(Present) <= 4
  /\ Filled(AddIfValid(AddIfValid(AddIfValid(AddIfValid(Cleared, "s"), "r"), "f"), "m"), Present)
<1> DEFINE c1 == AddIfValid(Cleared, "s")
           c2 == AddIfValid(c1, "r")
           c3 == AddIfValid(c2, "f")
           c4 == AddIfValid(c3, "m")
           p1 == <<>> \o Listed("s")
           p2 == p1 \o Listed("r")
           p3 == p2 \o Listed("f")
           p4 == p3 \o Listed("m")
           T1 == {} \union {"s"}
           T2 == T1 \union {"r"}
           T3 == T2 \union {"f"}
           T4 == T3 \union {"m"}
<1>1. /\ {} \in SUBSET Names /\ T1 \in SUBSET Names /\ T2 \in SUBSET Names /\ T3 \in SUBSET Names
      /\ T4 = Names
      /\ "s" \in Names /\ "r" \in Names /\ "f" \in Names /\ "m" \in Names
      /\ "s" \notin {} /\ "r" \notin T1 /\ "f" \notin T2 /\ "m" \notin T3
  BY DEF Names
<1> HIDE DEF T1, T2, T3, T4
<1>2. p1 \in Seq(T1) /\ Len(p1) <= 1 /\ Filled(c1, p1)
  <2>1. <<>> \in Seq({}) /\ Len(<<>>) <= 3 /\ Len(<<>>) + 1 = 1
    OBVIOUS
  <2>2. p1 \in Seq({} \union {"s"}) /\ Len(p1) <= Len(<<>>) + 1 /\ Filled(c1, p1)
    BY <1>1, <2>1, NothingFilled, AddedIfValid, Zenon
  <2> QED
    BY <2>1, <2>2 DEF T1
<1> HIDE DEF c1, p1
<1>3. p2 \in Seq(T2) /\ Len(p2) <= 2 /\ Filled(c2, p2)
  <2>1. Len(p1) <= 3 /\ Len(p1) \in Nat
    BY <1>2
  <2>2. p2 \in Seq(T2) /\ Len(p2) <= Len(p1) + 1 /\ Filled(c2, p2)
    BY <1>1, <1>2, <2>1, AddedIfValid, Zenon DEF T2
  <2> QED
    BY <1>2, <2>1, <2>2
<1> HIDE DEF c2, p2
<1>4. p3 \in Seq(T3) /\ Len(p3) <= 3 /\ Filled(c3, p3)
  <2>1. Len(p2) <= 3 /\ Len(p2) \in Nat
    BY <1>3
  <2>2. p3 \in Seq(T3) /\ Len(p3) <= Len(p2) + 1 /\ Filled(c3, p3)
    BY <1>1, <1>3, <2>1, AddedIfValid, Zenon DEF T3
  <2> QED
    BY <1>3, <2>1, <2>2
<1> HIDE DEF c3, p3
<1>5. p4 \in Seq(T4) /\ Len(p4) <= 4 /\ Filled(c4, p4)
  <2>1. Len(p3) <= 3 /\ Len(p3) \in Nat
    BY <1>4
  <2>2. p4 \in Seq(T4) /\ Len(p4) <= Len(p3) + 1 /\ Filled(c4, p4)
    BY <1>1, <1>4, <2>1, AddedIfValid, Zenon DEF T4
  <2> QED
    BY <1>4, <2>1, <2>2
<1>6. p4 = Present
  <2>1. <<>> \o Listed("s") = Listed("s")
    BY DEF Listed
  <2> QED
    BY <2>1, Zenon DEF p1, p2, p3, Present
<1> QED
  BY <1>1, <1>5, <1>6, Zenon DEF c1, c2, c3

\* What the boot ROM finds in such a buffer with an entry of ones behind.
LEMMA Described ==
  ASSUME NEW c, Filled(c, Present), Present \in Seq(Names), Len(Present) <= 4, Valid("s"),
         header = Put(c.buffer, c.toc_idx, [w \in 0 .. TocWords - 1 |-> TocEnd])
  PROVE  TocDescribesHeader
<1> DEFINE K == Len(Present)
           p == Present
           b == c.buffer
           ones == [w \in 0 .. 8 - 1 |-> TocEnd]
<1>1. /\ p \in Seq(Names) /\ K \in Nat /\ K <= 4 /\ K * 8 \in Nat
      /\ \A j \in 1 .. K : p[j] \in Names
  OBVIOUS
<1>2. /\ c.toc_idx = K * 8 /\ b \in Buffer
      /\ \A j \in 1 .. K : \A k \in 0 .. 7 : b[(j - 1) * 8 + k] = TocEntry(p[j])[k]
      /\ \A j \in 1 .. K : \A w \in 0 .. 127 : InCopy(w, p[j]) => b[w] = SectionWord(p[j], w - Start[p[j]])
      /\ \A w \in 0 .. 127 : w >= K * 8 => b[w] = Zeroed \/ \E j \in 1 .. K : InCopy(w, p[j])
      /\ \A j, k \in 1 .. K : p[j] = p[k] => j = k
  BY Zenon DEF Filled
<1>3. TocEnd \in AWord /\ TocWords = 8 /\ HeaderWords - 1 = 127 /\ Len(Sections) = 4
  BY DEF TocEnd, Word, AWord, TocWords, HeaderWords, Sections
<1>4. ones \in [0 .. 8 - 1 -> AWord] /\ \A k \in 0 .. 7 : ones[k] = TocEnd
  BY <1>3
<1>5. header = Put(b, K * 8, ones)
  BY <1>2, <1>3, Zenon
<1> HIDE DEF K, p, b, ones
<1>6. /\ header \in Buffer
      /\ \A k \in 0 .. 7 : K * 8 + k <= 127 => header[K * 8 + k] = ones[k]
      /\ \A w \in 0 .. 127 : w < K * 8 \/ w >= K * 8 + 8 => header[w] = b[w]
  <2> DEFINE at == K * 8
  <2>1. at \in Nat
    BY <1>1
  <2> HIDE DEF at
  <2>2. /\ Put(b, at, ones) \in Buffer
        /\ \A k \in 0 .. 7 : at + k <= 127 => Put(b, at, ones)[at + k] = ones[k]
        /\ \A w \in 0 .. 127 : w < at \/ w >= at + 8 => Put(b, at, ones)[w] = b[w]
    BY <1>2, <1>4, <2>1, EntryPut, Zenon
  <2> QED
    BY <1>5, <2>2, Zenon DEF at
\* The entries.
<1>7. Entry(K) = TocEnd
  <2>1. 0 \in 0 .. 7 /\ K * 8 + 0 <= 127 /\ K * 8 + 0 = K * 8
    BY <1>1
  <2> QED
    <3>1. header[K * 8 + 0] = ones[0] /\ ones[0] = TocEnd
      BY <1>4, <1>6, <2>1, Zenon
    <3> QED
      BY <1>3, <2>1, <3>1, Zenon DEF Entry
<1>8. ASSUME NEW n \in Nat, n < K
      PROVE  /\ n + 1 \in 1 .. K /\ p[n + 1] \in Names
             /\ Entry(n).src = "toc" /\ Entry(n).val = Start[p[n + 1]]
             /\ header[n * 8 + 1].val = Words[p[n + 1]]
  <2>1. n + 1 \in 1 .. K /\ n + 1 - 1 = n /\ p[n + 1] \in Names
    BY <1>1, <1>8
  <2>2. n * 8 \in 0 .. 127 /\ n * 8 < K * 8 /\ n * 8 + 1 \in 0 .. 127 /\ n * 8 + 1 < K * 8
        /\ n * 8 + 0 = n * 8 /\ 0 \in 0 .. 7 /\ 1 \in 0 .. 7
    BY <1>1, <1>8
  <2>3. header[n * 8] = b[n * 8] /\ header[n * 8 + 1] = b[n * 8 + 1]
    BY <1>6, <2>2, Zenon
  <2>4. b[n * 8 + 0] = TocEntry(p[n + 1])[0] /\ b[n * 8 + 1] = TocEntry(p[n + 1])[1]
    <3>1. \A k \in 0 .. 7 : b[(n + 1 - 1) * 8 + k] = TocEntry(p[n + 1])[k]
      <4>1. \A k \in 0 .. 7 : b[((n + 1) - 1) * 8 + k] = TocEntry(p[n + 1])[k]
        BY <1>2, <2>1, Zenon
      <4>2. (n + 1) - 1 = n
        OBVIOUS
      <4> QED
        BY <2>1, <4>1, <4>2, Zenon
    <3> QED
      BY <2>1, <2>2, <3>1, Zenon
  <2>5. \A s : TocEntry(s)[0] = Word("toc", 0, Start[s]) /\ TocEntry(s)[1] = Word("toc", 1, Words[s])
    BY <1>3 DEF TocEntry
  <2>6. /\ header[n * 8] = Word("toc", 0, Start[p[n + 1]])
        /\ header[n * 8 + 1] = Word("toc", 1, Words[p[n + 1]])
    BY <2>2, <2>3, <2>4, <2>5, Zenon
  <2> QED
    BY <1>3, <2>1, <2>6 DEF Entry, Word
<1>9. Walked = K
  <2>1. ASSUME NEW n \in Nat, n < K PROVE Entry(n) # TocEnd
    BY <1>8, <2>1 DEF TocEnd, Word
  <2>2. K \in 0 .. 4 /\ \A m \in 0 .. K - 1 : m \in Nat /\ m < K
    BY <1>1
  <2>3. ASSUME NEW n \in 0 .. 4, Entry(n) = TocEnd, \A m \in 0 .. n - 1 : Entry(m) # TocEnd
        PROVE  n = K
    <3>1. ~(n < K)
      BY <2>1, <2>3
    <3>2. ~(K \in 0 .. n - 1)
      BY <1>7, <2>3
    <3> QED
      BY <1>1, <3>1, <3>2
  <2>4. \A m \in 0 .. K - 1 : Entry(m) # TocEnd
    BY <2>1, <2>2
  <2> DEFINE Stops(n) == Entry(n) = TocEnd /\ \A m \in 0 .. n - 1 : Entry(m) # TocEnd
  <2>5. K \in 0 .. 4 /\ Stops(K) /\ \A n \in 0 .. 4 : Stops(n) => n = K
    BY <1>7, <2>2, <2>3, <2>4
  <2>6. Walked = CHOOSE n \in 0 .. 4 : Stops(n)
    BY <1>3, Zenon DEF Walked
  <2> HIDE DEF Stops
  <2> QED
    BY <2>5, <2>6
\* The regions.
<1>10. ASSUME NEW n \in Nat, n < K
       PROVE  /\ Region(n) # {}
              /\ \A w \in Region(n) :
                   /\ w \in 0 .. 127 /\ w >= 40 /\ InCopy(w, p[n + 1])
                   /\ w - Start[p[n + 1]] < Words[p[n + 1]]
              /\ \A w \in 0 .. 127 :
                   InCopy(w, p[n + 1]) /\ w \notin Region(n) => ~(w - Start[p[n + 1]] < Words[p[n + 1]])
  <2> DEFINE a == Start[p[n + 1]]
             m == Words[p[n + 1]]
             o == Copied[p[n + 1]]
  <2>1. /\ a \in Nat /\ a >= 40 /\ a + o <= 128 /\ o \in Nat /\ m \in Nat /\ 1 <= m /\ m <= o
    BY <1>8, <1>10, Places
  <2>2. Region(n) = a .. a + m - 1
    BY <1>3, <1>8, <1>10, Zenon DEF Region
  <2>3. \A w : InCopy(w, p[n + 1]) <=> a <= w /\ w < a + o
    BY DEF InCopy
  <2> HIDE DEF a, m, o
  <2>4. a \in Region(n)
    BY <2>1, <2>2
  <2>5. ASSUME NEW w \in Region(n)
        PROVE  w \in 0 .. 127 /\ w >= 40 /\ InCopy(w, p[n + 1]) /\ w - a < m
    <3>1. w \in Int /\ a <= w /\ w < a + m
      BY <2>1, <2>2
    <3>2. w \in 0 .. 127 /\ w >= 40 /\ a <= w /\ w < a + o /\ w - a < m
      BY <2>1, <3>1
    <3> QED
      BY <2>3, <3>2, Zenon
  <2>6. ASSUME NEW w \in 0 .. 127, InCopy(w, p[n + 1]), w \notin Region(n)
        PROVE  ~(w - a < m)
    <3>1. a <= w
      BY <2>3, <2>6, Zenon
    <3> QED
      BY <2>1, <2>2, <2>6, <3>1
  <2> QED
    BY <2>4, <2>5, <2>6 DEF a, m
<1>11. \A w \in 0 .. 127 : w >= (K + 1) * 8 => header[w] = b[w]
  <2>1. \A w \in 0 .. 127 : w >= (K + 1) * 8 => w >= K * 8 + 8
    BY <1>1
  <2> QED
    BY <1>6, <2>1, Zenon
<1>12. ASSUME NEW n \in Nat, n < K
       PROVE  /\ Region(n) \subseteq (K + 1) * 8 .. 127
              /\ \A w \in Region(n) : header[w] = Word(p[n + 1], w - Entry(n).val, 0)
              /\ \A m \in 0 .. n - 1 : Region(m) \intersect Region(n) = {}
  <2>1. ASSUME NEW w \in Region(n)
        PROVE  w \in (K + 1) * 8 .. 127 /\ w \in 0 .. 127 /\ w >= (K + 1) * 8 /\ w >= K * 8
    <3>1. w \in 0 .. 127 /\ w >= 40
      BY <1>10, <1>12, Zenon
    <3>2. (K + 1) * 8 <= 40 /\ K * 8 <= 40 /\ (K + 1) * 8 \in Nat /\ K * 8 \in Nat
      BY <1>1
    <3> QED
      BY <3>1, <3>2
  <2>2. ASSUME NEW w \in Region(n) PROVE header[w] = Word(p[n + 1], w - Entry(n).val, 0)
    <3>1. w \in 0 .. 127 /\ w >= (K + 1) * 8
      BY <2>1
    <3>2. InCopy(w, p[n + 1]) /\ w - Start[p[n + 1]] < Words[p[n + 1]]
      BY <1>10, <1>12, <2>2
    <3>3. header[w] = SectionWord(p[n + 1], w - Start[p[n + 1]])
      BY <1>2, <1>8, <1>11, <1>12, <3>1, <3>2, Zenon
    <3> QED
      BY <1>8, <1>12, <3>2, <3>3, Zenon DEF SectionWord
  <2>3. ASSUME NEW m \in 0 .. n - 1 PROVE Region(m) \intersect Region(n) = {}
    <3>1. m \in Nat /\ m < K /\ m + 1 # n + 1
      BY <1>1, <1>12
    <3>2. /\ p[m + 1] \in Names /\ p[n + 1] \in Names /\ p[m + 1] # p[n + 1]
      BY <1>2, <1>8, <1>12, <3>1, Zenon
    <3>3. \A w \in Region(m) : w \in 0 .. 127 /\ InCopy(w, p[m + 1])
      BY <1>10, <3>1, Zenon
    <3>4. \A w \in Region(n) : InCopy(w, p[n + 1])
      BY <1>10, <1>12, Zenon
    <3> QED
      BY <3>2, <3>3, <3>4, Apart, Zenon
  <2> QED
    BY <2>1, <2>2, <2>3
<1>13. ASSUME NEW w \in (K + 1) * 8 .. 127, w \notin UNION {Region(n) : n \in 0 .. K - 1}
       PROVE  header[w].src \in {"zero", "beyond"}
  <2>1. w \in 0 .. 127 /\ w >= (K + 1) * 8 /\ w >= K * 8
    BY <1>1
  <2>2. header[w] = b[w]
    BY <1>11, <2>1, Zenon
  <2>3. CASE b[w] = Zeroed
    BY <2>2, <2>3 DEF Zeroed, Word
  <2>4. CASE \E j \in 1 .. K : InCopy(w, p[j])
    <3>1. PICK j \in 1 .. K : InCopy(w, p[j])
      BY <2>4
    <3>2. b[w] = SectionWord(p[j], w - Start[p[j]])
      BY <1>2, <2>1, <3>1, Zenon
    <3> DEFINE n == j - 1
    <3>3. n \in Nat /\ n < K /\ n \in 0 .. K - 1 /\ n + 1 = j
      BY <1>1
    <3> HIDE DEF n
    <3>4. w \notin Region(n)
      BY <1>13, <3>3
    <3>5. ~(w - Start[p[j]] < Words[p[j]])
      BY <1>10, <2>1, <3>1, <3>3, <3>4, Zenon
    <3>6. b[w] = Word("beyond", w - Start[p[j]], 0)
      BY <3>2, <3>5, Zenon DEF SectionWord
    <3> QED
      BY <2>2, <3>6 DEF Word
  <2> QED
    BY <1>2, <2>1, <2>3, <2>4
<1>14. \A n \in 0 .. K - 1 : n \in Nat /\ n < K
  BY <1>1
<1>15. K \in 0 .. 4
  BY <1>1
<1> QED
  BY <1>3, <1>7, <1>9, <1>10, <1>12, <1>13, <1>14, <1>15, Zenon DEF TocDescribesHeader, K, p
\* The header is written once, from variables that no longer change: before
\* it is written there is none, and the one that is there afterwards is the
\* one of these variables.
HeaderInv ==
  /\ pc \notin {"copy", "exited"} => header = <<>>
  /\ header # <<>> => Valid("s") /\ header = ch_buffer

LEMMA HeaderInit == Init => HeaderInv
BY Zenon DEF Init, HeaderInv

\* A step that leaves both alone, unless there is no header at all.
LEMMA HeaderKept ==
  ASSUME HeaderInv, header' = header,
         conf' = conf \/ pc \in {"visit", "options"},
         pc' \in {"copy", "exited"} => pc \in {"copy", "exited"} \/ header = <<>>,
         pc \in {"copy", "exited"} => pc' \in {"copy", "exited"}
  PROVE  HeaderInv'
<1>1. (pc \notin {"copy", "exited"} => header = <<>>)'
  BY Zenon DEF HeaderInv
<1>2. CASE conf' = conf
  <2>1. Valid("s")' = Valid("s") /\ ch_buffer' = ch_buffer
    BY <1>2, Zenon DEF Valid, ch_buffer, AddIfValid
  <2> QED
    BY <1>1, <2>1, Zenon DEF HeaderInv
<1>3. CASE pc \in {"visit", "options"}
  <2>1. header' = <<>>
    BY <1>3 DEF HeaderInv
  <2> QED
    BY <1>1, <2>1, Zenon DEF HeaderInv
<1> QED
  BY <1>2, <1>3

LEMMA HeaderWritten == HeaderInv /\ WriteHeader => HeaderInv'
<1> SUFFICES ASSUME HeaderInv, WriteHeader PROVE HeaderInv'
  OBVIOUS
<1>1. pc' = "copy" /\ conf' = conf /\ header' = IF Valid("s") /\ ~full THEN ch_buffer ELSE <<>>
  BY Zenon DEF WriteHeader
<1>2. Valid("s")' = Valid("s") /\ ch_buffer' = ch_buffer
  BY <1>1, Zenon DEF Valid, ch_buffer, AddIfValid
<1>3. header' # <<>> => Valid("s") /\ header' = ch_buffer
  BY <1>1, Zenon
<1> QED
  BY <1>1, <1>2, <1>3, Zenon DEF HeaderInv

LEMMA HeaderSteps == HeaderInv /\ [Next]_vars => HeaderInv'
<1> SUFFICES ASSUME HeaderInv, [Next]_vars PROVE HeaderInv'
  OBVIOUS
<1>1. CASE Parse
  BY <1>1, HeaderKept DEF Parse, imageVars
<1>2. CASE ParseOk
  BY <1>2, HeaderKept DEF ParseOk, imageVars
<1>3. CASE ParseFails
  BY <1>3, HeaderKept DEF ParseFails, Return, imageVars, HeaderInv
<1>4. CASE Visit
  <2>1. pc = "visit" /\ pc' \in {"visit", "options"} /\ header' = header
    BY <1>4 DEF Visit, imageVars
  <2> QED
    BY <2>1, HeaderKept
<1>5. CASE NoMoreValues
  BY <1>5, HeaderKept DEF NoMoreValues, imageVars
<1>6. CASE CommandLine
  <2>1. pc = "options" /\ pc' = "open" /\ header' = header
    BY <1>6 DEF CommandLine
  <2> QED
    BY <2>1, HeaderKept
<1>7. CASE OpenFiles
  BY <1>7, HeaderKept DEF OpenFiles
<1>8. CASE OpenFilesFails
  BY <1>8, HeaderKept DEF OpenFilesFails, Return, imageVars, HeaderInv
<1>9. CASE WriteHeader
  BY <1>9, HeaderWritten
<1>10. CASE CopyByte
  BY <1>10, HeaderKept DEF CopyByte
<1>11. CASE Close
  BY <1>11, HeaderKept DEF Close, Return, imageVars
<1>12. CASE CutInput
  BY <1>12, HeaderKept DEF CutInput
<1>13. CASE DiskFull
  BY <1>13, HeaderKept DEF DiskFull
<1>14. CASE UNCHANGED vars
  BY <1>14, HeaderKept DEF vars, imageVars
<1> QED
  BY <1>1, <1>2, <1>3, <1>4, <1>5, <1>6, <1>7, <1>8, <1>9, <1>10, <1>11, <1>12, <1>13, <1>14
     DEF Next, Terminated

\* Whatever sections the configuration makes valid and wherever the program
\* is, the table of contents of the header in the image leads the boot ROM to
\* exactly these sections, each whole and none over another or over the
\* table. (fillup_ch, gpsign.c:322-374)
THEOREM TocLeadsToSections == Spec => []TocDescribesHeader
<1>1. Init => HeaderInv
  BY HeaderInit
<1>2. HeaderInv /\ [Next]_vars => HeaderInv'
  BY HeaderSteps
<1>3. HeaderInv => TocDescribesHeader
  <2>1. CASE header = <<>>
    BY <2>1 DEF TocDescribesHeader
  <2>2. ASSUME HeaderInv, header # <<>> PROVE TocDescribesHeader
    <3> DEFINE c == AddIfValid(AddIfValid(AddIfValid(AddIfValid(Cleared, "s"), "r"), "f"), "m")
    <3>1. Present \in Seq(Names) /\ Len(Present) <= 4 /\ Filled(c, Present)
      BY AllFilled
    <3>2. Valid("s") /\ header = Put(c.buffer, c.toc_idx, [w \in 0 .. TocWords - 1 |-> TocEnd])
      BY <2>2, Zenon DEF HeaderInv, ch_buffer
    <3> HIDE DEF c
    <3> QED
      BY <3>1, <3>2, Described, Zenon
  <2> QED
    BY <2>1, <2>2
<1> QED
  BY <1>1, <1>2, <1>3, PTL DEF Spec

-----------------------------------------------------------------------------
(* The configuration that reaches the image.                               *)

\* The values that are too wide, and those among the first N that set key.
TooWideIn(vs) == {n \in DOMAIN vs : Refused(variable_map, vs[n])}
Sets(vs, N, key) == {n \in 1 .. N : vs[n].key = key /\ ScanResult(vs[n].value) # 0}

\* What key is worth after the first N values.
Worth(vs, N, key) ==
  IF Sets(vs, N, key) = {} THEN Defaults[key]
  ELSE Cut(variable_map[key], Val(vs[Max(Sets(vs, N, key))].value))

\* The first N values are what is looked at of vs.
Reaches(vs, N) ==
  /\ \A n \in 1 .. N - 1 : n \notin TooWideIn(vs)
  /\ N \in TooWideIn(vs) \/ N = Len(vs)

LEMMA MapTypes ==
  /\ \A key \in DOMAIN variable_map : variable_map[key] # "TYPE_S"
  /\ DOMAIN Defaults = DOMAIN variable_map
  /\ LoadAddr \in DOMAIN variable_map
BY DEF variable_map, Defaults, LoadAddr

LEMMA NothingSet == \A vs, key : key \in DOMAIN variable_map => Worth(vs, 0, key) = Defaults[key]
<1>1. 1 .. 0 = {}
  OBVIOUS
<1>2. \A vs, key : Sets(vs, 0, key) = {}
  BY <1>1 DEF Sets
<1> QED
  BY <1>2, Zenon DEF Worth

\* One more value.
LEMMA OneMoreValue ==
  ASSUME NEW vs, NEW N \in Nat, NEW key \in DOMAIN variable_map,
         NEW c, DOMAIN c = DOMAIN variable_map, c[key] = Worth(vs, N, key)
  PROVE  Handle(variable_map, c, vs[N + 1])[key] = Worth(vs, N + 1, key)
<1> DEFINE e == vs[N + 1]
           A == Sets(vs, N, key)
           A1 == Sets(vs, N + 1, key)
<1>1. A \subseteq 1 .. N /\ A1 \subseteq 1 .. N + 1 /\ A = A1 \cap 1 .. N
  BY DEF Sets
<1>2. N + 1 \in A1 <=> e.key = key /\ ScanResult(e.value) # 0
  BY DEF Sets
<1>3. variable_map[key] # "TYPE_S"
  BY MapTypes
<1>4. CASE N + 1 \in A1
  <2>1. e.key = key /\ ScanResult(e.value) # 0
    BY <1>2, <1>4
  <2>2. Max(A1) = N + 1
    BY <1>1, <1>4 DEF Max
  <2>3. Worth(vs, N + 1, key) = Cut(variable_map[key], Val(e.value))
    BY <1>4, <2>2, Zenon DEF Worth
  <2>4. /\ ~Ignored(variable_map, e)
        /\ Stored(variable_map, e) = Cut(variable_map[key], Val(e.value))
    BY <1>3, <2>1, Zenon DEF Ignored, Stored
  <2> HIDE DEF e
  <2>5. Handle(variable_map, c, e)[key] = Stored(variable_map, e)
    BY <2>1, <2>4, Zenon DEF Handle
  <2> QED
    BY <2>3, <2>4, <2>5, Zenon DEF e
<1>5. CASE N + 1 \notin A1
  <2>1. A1 = A
    BY <1>1, <1>5
  <2>2. Worth(vs, N + 1, key) = Worth(vs, N, key)
    BY <2>1, Zenon DEF Worth
  <2> HIDE DEF e
  <2>3. Handle(variable_map, c, e)[key] = c[key]
    <3>1. CASE Ignored(variable_map, e)
      BY <3>1, Zenon DEF Handle
    <3>2. CASE ~Ignored(variable_map, e)
      <4>1. e.key # key
        BY <1>2, <1>3, <1>5, <3>2, Zenon DEF Ignored
      <4> QED
        BY <3>2, <4>1, Zenon DEF Handle
    <3> QED
      BY <3>1, <3>2
  <2> QED
    BY <2>2, <2>3, Zenon DEF e
<1> QED
  BY <1>4, <1>5

LEMMA HandleDomain ==
  ASSUME NEW c, NEW e PROVE DOMAIN Handle(variable_map, c, e) = DOMAIN c
BY Zenon DEF Handle

\* The configuration is made of the first N values.
Holding(c, vs, N) ==
  /\ DOMAIN c = DOMAIN variable_map
  /\ \A key \in DOMAIN variable_map : c[key] = Worth(vs, N, key)

\* The same but for the load address, which the command line may give.
HoldingBut(c, vs, N) ==
  /\ DOMAIN c = DOMAIN variable_map
  /\ \A key \in DOMAIN variable_map :
       c[key] = Worth(vs, N, key) \/ (key = LoadAddr /\ c[key] \in LoadAddresses)

Working == {"open", "header", "copy"}

(* While the values are visited, the configuration holds those visited and *)
(* none of them was too wide; after that it holds all up to the first that *)
(* is too wide. Nothing goes on when the parser refused the file.          *)
ConfInv ==
  /\ \E S : values \in Seq(S)
  /\ visited \in 0 .. Len(values)
  /\ phase = "open" => ~Opened
  /\ pc = "config" => visited = 0 /\ conf = Defaults
  /\ pc = "visit" =>
       /\ status = "ok"
       /\ \A n \in 1 .. visited : n \notin TooWideIn(values)
       /\ Holding(conf, values, visited)
  /\ pc = "options" /\ Opened =>
       status = "ok" /\ Reaches(values, visited) /\ Holding(conf, values, visited)
  /\ pc \in Working /\ Opened =>
       status = "ok" /\ Reaches(values, visited) /\ HoldingBut(conf, values, visited)

LEMMA ConfInit == Init => ConfInv
<1> SUFFICES ASSUME Init PROVE ConfInv
  OBVIOUS
<1>1. /\ values = <<>> /\ visited = 0 /\ size = 0 /\ eof = FALSE /\ pc = "config" /\ conf = Defaults
  BY DEF Init, LcfgInit, ScannerInit
<1>2. values \in Seq({}) /\ Len(values) = 0
  BY <1>1
<1>3. visited \in 0 .. Len(values)
  BY <1>1, <1>2
<1>4. pc # "visit" /\ pc # "options" /\ pc \notin Working
  BY <1>1 DEF Working
<1> QED
  BY <1>1, <1>2, <1>3, <1>4, Zenon DEF ConfInv, Opened

LEMMA Appends ==
  ASSUME NEW vs, NEW S, vs \in Seq(S), NEW e
  PROVE  \E T : Append(vs, e) \in Seq(T)
<1>1. vs \in Seq(S \union {e})
  OBVIOUS
<1>2. Append(vs, e) \in Seq(S \union {e})
  BY <1>1
<1> QED
  BY <1>2, Zenon

\* A step of the parser leaves "open" behind, and at most appends a value.
LEMMA ParserStep ==
  ASSUME ConfInv, LcfgNext
  PROVE  phase' # "open" /\ \E S : values' \in Seq(S)
<1>1. PICK S : values \in Seq(S)
  BY Zenon DEF ConfInv
<1>2. ASSUME NEW e PROVE \E T : Append(values, e) \in Seq(T)
  BY <1>1, Appends
<1>3. ASSUME values' = values PROVE \E T : values' \in Seq(T)
  BY <1>1, <1>3, Zenon
<1>4. ASSUME NEW key, AddValue(key) PROVE \E T : values' \in Seq(T)
  BY <1>2, <1>4, Zenon DEF AddValue
<1>5. CASE OpenFile
  <2>1. phase' = "scan" /\ values' = values
    BY <1>5, Zenon DEF OpenFile
  <2> QED
    BY <1>3, <2>1
<1>6. CASE OpenFails
  <2>1. phase' = "done" /\ values' = values
    BY <1>6, Zenon DEF OpenFails
  <2> QED
    BY <1>3, <2>1
<1>7. CASE ReadToken
  <2>1. phase' = "scan" /\ values' = values
    BY <1>7, Zenon DEF ReadToken, parserVars
  <2> QED
    BY <1>3, <2>1
<1>8. CASE NextToken \/ FirstToken
  <2>1. phase' \in {"scan", "parse"} /\ values' = values
    BY <1>8 DEF NextToken, FirstToken
  <2> QED
    BY <1>3, <2>1
<1>9. CASE ScanFails \/ Finish
  <2>1. phase' = "done" /\ values' = values
    BY <1>9, Zenon DEF ScanFails, Finish
  <2> QED
    BY <1>3, <2>1
<1>10. ASSUME Deal PROVE phase' # "open"
  BY <1>10 DEF Deal
<1>11. CASE \/ Name \/ Equals \/ OpenList \/ OpenMap \/ CloseMap \/ Comma \/ Nested
            \/ CloseList \/ Unexpected
  <2>1. Deal /\ values' = values
    BY <1>11, Zenon DEF Name, Equals, OpenList, OpenMap, CloseMap, Comma, Nested, CloseList,
                        Unexpected
  <2> QED
    BY <1>3, <1>10, <2>1
<1>12. CASE Value
  BY <1>4, <1>10, <1>12, Zenon DEF Value
<1>13. CASE Element
  BY <1>4, <1>10, <1>13, Zenon DEF Element
<1> QED
  BY <1>5, <1>6, <1>7, <1>8, <1>9, <1>11, <1>12, <1>13, Zenon DEF LcfgNext

LEMMA VisitStep == ConfInv /\ Visit => ConfInv'
<1> SUFFICES ASSUME ConfInv, Visit PROVE ConfInv'
  OBVIOUS
<1> DEFINE N == visited
           e == values[N + 1]
<1>1. /\ pc = "visit" /\ visited < Len(values) /\ visited' = visited + 1
      /\ conf' = Handle(variable_map, conf, e)
      /\ pc' = IF Refused(variable_map, e) THEN "options" ELSE "visit"
      /\ UNCHANGED lcfgVars
  BY Zenon DEF Visit
<1>2. /\ values' = values /\ phase' = phase /\ status' = status /\ Opened' = Opened
  BY <1>1 DEF lcfgVars, scannerVars, bufferVars, parserVars, Opened
<1>3. PICK S : values \in Seq(S)
  BY Zenon DEF ConfInv
<1>4. visited \in Nat /\ Len(values) \in Nat /\ visited' \in 1 .. Len(values)
  BY <1>1, <1>3 DEF ConfInv
<1>5. /\ status = "ok" /\ Holding(conf, values, N)
      /\ \A n \in 1 .. N : n \notin TooWideIn(values)
  BY <1>1, Zenon DEF ConfInv
<1>6. Holding(conf', values, N + 1)
  <2>1. DOMAIN conf' = DOMAIN variable_map
    BY <1>1, <1>5, HandleDomain, Zenon DEF Holding
  <2>2. ASSUME NEW key \in DOMAIN variable_map PROVE conf'[key] = Worth(values, N + 1, key)
    BY <1>1, <1>4, <1>5, OneMoreValue, Zenon DEF Holding
  <2> QED
    BY <2>1, <2>2, Zenon DEF Holding
<1>7. N + 1 \in TooWideIn(values) <=> Refused(variable_map, e)
  <2>1. N + 1 \in DOMAIN values
    BY <1>1, <1>3, <1>4
  <2> QED
    BY <2>1, Zenon DEF TooWideIn
<1>8. \A n \in 1 .. (N + 1) - 1 : n \notin TooWideIn(values)
  BY <1>4, <1>5
<1>9. CASE Refused(variable_map, e)
  <2>1. pc' = "options"
    BY <1>1, <1>9
  <2>2. pc' # "config" /\ pc' # "visit" /\ pc' \notin Working
    BY <2>1 DEF Working
  <2>3. Reaches(values, N + 1)
    BY <1>7, <1>8, <1>9, Zenon DEF Reaches
  <2>4. visited' \in 0 .. Len(values)
    BY <1>4
  <2>5. (phase = "open" => ~Opened) /\ visited' = N + 1
    BY <1>1, Zenon DEF ConfInv
  <2> HIDE DEF N, e
  <2> QED
    BY <1>2, <1>3, <1>5, <1>6, <2>1, <2>2, <2>3, <2>4, <2>5, Zenon DEF ConfInv
<1>10. CASE ~Refused(variable_map, e)
  <2>1. pc' = "visit"
    BY <1>1, <1>10
  <2>2. pc' # "config" /\ pc' # "options" /\ pc' \notin Working
    BY <2>1 DEF Working
  <2>3. \A n \in 1 .. N + 1 : n \notin TooWideIn(values)
    <3> TAKE n \in 1 .. N + 1
    <3>1. n \in 1 .. N \/ n = N + 1
      BY <1>4
    <3> QED
      BY <1>5, <1>7, <1>10, <3>1, Zenon
  <2>4. visited' \in 0 .. Len(values)
    BY <1>4
  <2>5. (phase = "open" => ~Opened) /\ visited' = N + 1
    BY <1>1, Zenon DEF ConfInv
  <2> HIDE DEF N, e
  <2> QED
    BY <1>2, <1>3, <1>5, <1>6, <2>1, <2>2, <2>3, <2>4, <2>5, Zenon DEF ConfInv
<1> QED
  BY <1>9, <1>10

\* A step that leaves the configuration and the file alone.
LEMMA ConfKept ==
  ASSUME ConfInv, UNCHANGED <<lcfgVars, conf, visited>>,
         \/ pc' = pc
         \/ pc \in Working /\ pc' \in Working
         \/ pc' = "exited"
  PROVE  ConfInv'
<1>1. /\ values' = values /\ phase' = phase /\ status' = status /\ Opened' = Opened
      /\ conf' = conf /\ visited' = visited
  BY DEF lcfgVars, scannerVars, bufferVars, parserVars, Opened
<1>2. /\ pc' = "config" => pc = "config"
      /\ pc' = "visit" => pc = "visit"
      /\ pc' = "options" => pc = "options"
      /\ pc' \in Working => pc \in Working
  BY DEF Working
<1> QED
  BY <1>1, <1>2, Zenon DEF ConfInv

LEMMA ConfSteps == ConfInv /\ [Next]_vars => ConfInv'
<1> SUFFICES ASSUME ConfInv, [Next]_vars PROVE ConfInv'
  OBVIOUS
<1>0. PICK S : values \in Seq(S)
  BY Zenon DEF ConfInv
<1>1. CASE Parse
  <2>1. pc = "config" /\ pc' = "config" /\ LcfgNext /\ conf' = conf /\ visited' = visited
    BY <1>1, Zenon DEF Parse
  <2>2. phase' # "open" /\ \E T : values' \in Seq(T)
    BY <2>1, ParserStep
  <2>3. PICK T : values' \in Seq(T)
    BY <2>2
  <2>4. visited' = 0 /\ conf' = Defaults
    BY <2>1, Zenon DEF ConfInv
  <2>5. visited' \in 0 .. Len(values')
    BY <2>3, <2>4
  <2>6. pc' # "visit" /\ pc' # "options" /\ pc' \notin Working
    BY <2>1 DEF Working
  <2> QED
    BY <2>2, <2>4, <2>5, <2>6, Zenon DEF ConfInv
<1>2. CASE ParseOk
  <2>1. pc = "config" /\ pc' = "visit" /\ status = "ok" /\ UNCHANGED <<lcfgVars, conf, visited>>
    BY <1>2 DEF ParseOk
  <2>2. /\ values' = values /\ phase' = phase /\ status' = status /\ Opened' = Opened
        /\ conf' = conf /\ visited' = visited
    BY <2>1 DEF lcfgVars, scannerVars, bufferVars, parserVars, Opened
  <2>3. visited = 0 /\ conf = Defaults
    BY <2>1, Zenon DEF ConfInv
  <2>4. Holding(conf, values, 0)
    BY <2>3, MapTypes, NothingSet, Zenon DEF Holding
  <2>5. \A n \in 1 .. 0 : n \notin TooWideIn(values)
    OBVIOUS
  <2>6. pc' # "config" /\ pc' # "options" /\ pc' \notin Working
    BY <2>1 DEF Working
  <2> QED
    BY <2>1, <2>2, <2>3, <2>4, <2>5, <2>6, Zenon DEF ConfInv
<1>3. CASE ParseFails
  BY <1>3, ConfKept DEF ParseFails, Return
<1>4. CASE Visit
  BY <1>4, VisitStep
<1>5. CASE NoMoreValues
  <2>1. pc' = "options" /\ UNCHANGED <<lcfgVars, conf, visited>>
    BY <1>5 DEF NoMoreValues
  <2>2. /\ values' = values /\ phase' = phase /\ status' = status /\ Opened' = Opened
        /\ conf' = conf /\ visited' = visited
    BY <2>1 DEF lcfgVars, scannerVars, bufferVars, parserVars, Opened
  <2>3. pc' # "config" /\ pc' # "visit" /\ pc' \notin Working
    BY <2>1 DEF Working
  <2>4. Opened => status = "ok" /\ Reaches(values, visited) /\ Holding(conf, values, visited)
    <3>1. CASE pc = "visit" /\ visited = Len(values)
      <4>1. /\ status = "ok" /\ Holding(conf, values, visited)
            /\ \A n \in 1 .. visited : n \notin TooWideIn(values)
        BY <3>1, Zenon DEF ConfInv
      <4>2. \A n \in 1 .. visited - 1 : n \in 1 .. visited
        BY <1>0, <3>1
      <4> QED
        BY <3>1, <4>1, <4>2, Zenon DEF Reaches
    <3>2. CASE pc = "config" /\ phase = "open"
      BY <3>2, Zenon DEF ConfInv
    <3> QED
      BY <1>5, <3>1, <3>2, Zenon DEF NoMoreValues
  <2> QED
    BY <2>1, <2>2, <2>3, <2>4, Zenon DEF ConfInv
<1>6. CASE CommandLine
  <2>1. pc = "options" /\ pc' = "open" /\ UNCHANGED <<lcfgVars, visited>>
    BY <1>6 DEF CommandLine
  <2>2. /\ values' = values /\ phase' = phase /\ status' = status /\ Opened' = Opened
        /\ visited' = visited
    BY <2>1 DEF lcfgVars, scannerVars, bufferVars, parserVars, Opened
  <2>3. pc' # "config" /\ pc' # "visit" /\ pc' # "options"
    BY <2>1
  <2>4. PICK address \in LoadAddresses \union {NotGiven} :
          conf' = IF address # NotGiven THEN [conf EXCEPT ![LoadAddr] = address] ELSE conf
    BY <1>6, Zenon DEF CommandLine
  <2>5. ASSUME Opened
        PROVE  status = "ok" /\ Reaches(values, visited) /\ HoldingBut(conf', values, visited)
    <3>1. status = "ok" /\ Reaches(values, visited) /\ Holding(conf, values, visited)
      BY <2>1, <2>5, Zenon DEF ConfInv
    <3>2. address # NotGiven => address \in LoadAddresses
      BY Zenon
    <3>3. DOMAIN conf' = DOMAIN variable_map
      BY <2>4, <3>1, Zenon DEF Holding
    <3>4. ASSUME NEW key \in DOMAIN variable_map
          PROVE  \/ conf'[key] = Worth(values, visited, key)
                 \/ key = LoadAddr /\ conf'[key] \in LoadAddresses
      <4>1. DOMAIN conf = DOMAIN variable_map /\ conf[key] = Worth(values, visited, key)
        BY <3>1, Zenon DEF Holding
      <4>2. CASE address # NotGiven /\ key = LoadAddr
        BY <2>4, <3>2, <4>1, <4>2, Zenon
      <4>3. CASE address # NotGiven /\ key # LoadAddr
        <5>1. conf' = [conf EXCEPT ![LoadAddr] = address]
          BY <2>4, <4>3, Zenon
        <5>2. conf'[key] = conf[key]
          BY <4>1, <4>3, <5>1, Zenon
        <5> QED
          BY <4>1, <5>2, Zenon
      <4>4. CASE address = NotGiven
        BY <2>4, <4>1, <4>4, Zenon
      <4> QED
        BY <4>2, <4>3, <4>4
    <3> QED
      BY <3>1, <3>3, <3>4, Zenon DEF HoldingBut
  <2> QED
    BY <2>2, <2>3, <2>5, Zenon DEF ConfInv
<1>7. CASE OpenFiles
  BY <1>7, ConfKept DEF OpenFiles, Working
<1>8. CASE OpenFilesFails
  BY <1>8, ConfKept DEF OpenFilesFails, Return
<1>9. CASE WriteHeader
  BY <1>9, ConfKept DEF WriteHeader, Working
<1>10. CASE CopyByte
  BY <1>10, ConfKept DEF CopyByte
<1>11. CASE Close
  BY <1>11, ConfKept DEF Close, Return
<1>12. CASE CutInput
  BY <1>12, ConfKept DEF CutInput
<1>13. CASE DiskFull
  BY <1>13, ConfKept DEF DiskFull
<1>14. CASE UNCHANGED vars
  BY <1>14, ConfKept DEF vars
<1> QED
  BY <1>1, <1>2, <1>3, <1>4, <1>5, <1>6, <1>7, <1>8, <1>9, <1>10, <1>11, <1>12, <1>13, <1>14
     DEF Next, Terminated

(* Whatever pairs the parser found in whatever file: an image is made only *)
(* of a file it accepted, and of each variable with the last value for its *)
(* key, up to the first pair that is too wide, or the load address of the  *)
(* command line. (gpsign.c:567-601, compare.h:30-91)                       *)
THEOREM ConfigurationReached ==
  Spec => [](pc \in Working /\ Opened =>
               /\ status = "ok"
               /\ Reaches(values, visited) /\ HoldingBut(conf, values, visited))
<1>1. ConfInv => (pc \in Working /\ Opened =>
                    /\ status = "ok"
                    /\ Reaches(values, visited) /\ HoldingBut(conf, values, visited))
  BY Zenon DEF ConfInv
<1> QED
  BY <1>1, ConfInit, ConfSteps, PTL DEF Spec

-----------------------------------------------------------------------------
(* The reading of the configuration file.                                  *)

\* How many characters the scanner has consumed.
Place == IF UsedUp THEN fpos ELSE (fpos - size) + offset

(* What is in the buffer is a piece of the file, and less than a buffer    *)
(* full only at its end, unless it is a stream.                            *)
BufferInv ==
  /\ file \in Files /\ source \in {"regular", "stream", "directory"}
  /\ source # "directory" =>
       /\ fpos \in 0 .. Len(Text) /\ size \in 0 .. BUFFER_SIZE /\ offset \in 0 .. BUFFER_SIZE
       /\ size <= fpos
       /\ size > 0 => offset <= size
       /\ source = "regular" /\ size > 0 /\ size < BUFFER_SIZE => fpos = Len(Text)
       /\ source = "regular" /\ eof => Place = Len(Text)

(* Nothing is read of a directory, and the scanner stops at the character  *)
(* the buffer was cleared to.                                              *)
DirectoryInv ==
  source = "directory" =>
    /\ phase \in {"open", "scan", "done"} /\ status # "ok"
    /\ phase = "open" \/ (phase = "scan" /\ scan # "error") =>
         ~eof /\ offset = 0 /\ size \in {0, -1}
    /\ phase = "scan" /\ scan # "error" => scan = "busy" /\ state = "start"

ReadInv == BufferInv /\ DirectoryInv

LEMMA TextLength == ASSUME BufferInv PROVE Len(Text) \in Nat
BY ScannerAssumption DEF BufferInv, Text

LEMMA ReadInit == Init => ReadInv
<1> SUFFICES ASSUME Init PROVE ReadInv
  OBVIOUS
<1>1. /\ file \in Files /\ fpos = 0 /\ offset = 0 /\ size = 0 /\ eof = FALSE
      /\ phase = "open" /\ status = "running" /\ source \in {"regular", "stream", "directory"}
  BY DEF Init, LcfgInit, ScannerInit
<1>2. Len(Text) \in Nat
  BY <1>1, ScannerAssumption DEF Text
<1>3. BufferInv
  BY <1>1, <1>2, ScannerAssumption DEF BufferInv
<1>4. DirectoryInv
  BY <1>1 DEF DirectoryInv
<1> QED
  BY <1>3, <1>4 DEF ReadInv

\* A character is the next one of the file.
LEMMA OneCharacter ==
  ASSUME BufferInv, ScanChar, source # "directory"
  PROVE  /\ Place < Len(Text) /\ Char = Text[Place + 1]
         /\ Place' = IF Consumed(state, Char) THEN Place + 1 ELSE Place
         /\ BufferInv'
<1>1. /\ ~UsedUp /\ ~AtEnd
      /\ offset' = IF Consumed(state, Char) THEN offset + 1 ELSE offset
      /\ UNCHANGED <<file, source, fpos, size, eof>>
  BY Zenon DEF ScanChar
<1>2. /\ fpos \in 0 .. Len(Text) /\ size \in 0 .. BUFFER_SIZE /\ offset \in 0 .. BUFFER_SIZE
      /\ size <= fpos
      /\ size > 0 => offset <= size
      /\ source = "regular" /\ size > 0 /\ size < BUFFER_SIZE => fpos = Len(Text)
  BY Zenon DEF BufferInv
<1>3. Len(Text) \in Nat /\ BUFFER_SIZE \in Nat /\ Text' = Text
  BY <1>1, TextLength, ScannerAssumption DEF Text
<1>4. size > 0 /\ offset < size /\ offset # BUFFER_SIZE /\ ~eof
  BY <1>1, <1>2, <1>3 DEF UsedUp, AtEnd
<1>5. Place = (fpos - size) + offset /\ Place < Len(Text)
  BY <1>1, <1>2, <1>3, <1>4 DEF Place
<1>6. Char = Text[Place + 1]
  BY <1>2, <1>4, <1>5 DEF Char
<1> HIDE DEF Text
<1>7. ASSUME NEW k \in {0, 1}, offset' = offset + k
      PROVE  Place' = Place + k
  <2>1. UsedUp' <=> offset + k = BUFFER_SIZE
    BY <1>1, <1>4, <1>7 DEF UsedUp
  <2>2. Place' = IF UsedUp' THEN fpos ELSE (fpos - size) + (offset + k)
    BY <1>1, <1>7, Zenon DEF Place
  <2>3. offset + k = BUFFER_SIZE => size = BUFFER_SIZE
    BY <1>2, <1>3, <1>4
  <2> QED
    BY <1>2, <1>3, <1>5, <2>1, <2>2, <2>3
<1>8. Place' = IF Consumed(state, Char) THEN Place + 1 ELSE Place
  <2>1. offset + 0 = offset /\ Place + 0 = Place
    BY <1>2, <1>5
  <2> QED
    BY <1>1, <1>7, <2>1
<1>9. offset' \in 0 .. BUFFER_SIZE /\ offset' <= size
  BY <1>1, <1>2, <1>3, <1>4
<1> QED
  BY <1>1, <1>2, <1>3, <1>4, <1>5, <1>6, <1>8, <1>9, Zenon DEF BufferInv

\* A read leaves the place where it is.
LEMMA OneRead ==
  ASSUME BufferInv, FillBuffer, source # "directory"
  PROVE  Place' = Place /\ BufferInv'
<1>1. PICK n \in ReadResults :
        /\ size' = n
        /\ eof' = (n = 0)
        /\ offset' = IF n > 0 THEN 0 ELSE offset
        /\ fpos' = IF n > 0 THEN fpos + n ELSE fpos
  BY Zenon DEF FillBuffer
<1>2. ~eof /\ UsedUp /\ UNCHANGED <<file, source>>
  BY Zenon DEF FillBuffer
<1>3. Len(Text) \in Nat /\ BUFFER_SIZE \in Nat \ {0} /\ Text' = Text
  BY <1>2, TextLength, ScannerAssumption DEF Text
<1>4. /\ fpos \in 0 .. Len(Text) /\ offset \in 0 .. BUFFER_SIZE
  BY Zenon DEF BufferInv
<1>5. /\ n \in 0 .. BUFFER_SIZE /\ fpos + n <= Len(Text)
      /\ n = 0 => fpos = Len(Text)
      /\ source = "regular" /\ n < BUFFER_SIZE => fpos + n = Len(Text)
  <2>1. source = "regular" \/ source = "stream"
    BY DEF BufferInv
  <2> QED
    BY <1>3, <1>4, <2>1 DEF ReadResults
<1> HIDE DEF Text
<1>6. CASE n = 0
  <2>1. size' = 0 /\ fpos' = fpos /\ offset' = offset /\ fpos = Len(Text)
    BY <1>1, <1>5, <1>6
  <2>2. Place' = fpos /\ Place = fpos
    BY <1>2, <2>1 DEF Place, UsedUp
  <2>3. /\ fpos' \in 0 .. Len(Text) /\ size' \in 0 .. BUFFER_SIZE /\ offset' \in 0 .. BUFFER_SIZE
        /\ size' <= fpos' /\ ~(size' > 0)
    BY <1>3, <1>4, <2>1
  <2>4. Place' = Len(Text)
    BY <2>1, <2>2
  <2> QED
    BY <1>2, <1>3, <2>2, <2>3, <2>4, Zenon DEF BufferInv
<1>7. CASE n # 0
  <2>1. n > 0
    BY <1>3, <1>5, <1>7
  <2>2. size' = n /\ fpos' = fpos + n /\ offset' = 0 /\ ~eof'
    BY <1>1, <1>7, <2>1
  <2>3. ~UsedUp'
    BY <1>3, <1>7, <2>2 DEF UsedUp
  <2>4. Place' = Place
    <3>1. Place' = (fpos' - size') + offset' /\ Place = fpos
      BY <1>2, <2>3, Zenon DEF Place
    <3> QED
      BY <1>3, <1>4, <1>5, <2>2, <3>1
  <2>5. /\ fpos' \in 0 .. Len(Text) /\ size' \in 0 .. BUFFER_SIZE /\ offset' \in 0 .. BUFFER_SIZE
        /\ size' <= fpos' /\ offset' <= size'
        /\ source = "regular" /\ size' < BUFFER_SIZE => fpos' = Len(Text)
    BY <1>3, <1>4, <1>5, <2>2
  <2> QED
    BY <1>2, <1>3, <2>2, <2>4, <2>5, Zenon DEF BufferInv
<1> QED
  BY <1>6, <1>7

\* The end of a regular file is noticed only there.
LEMMA AtTheEnd ==
  ASSUME BufferInv, EndOfFile, source # "directory"
  PROVE  /\ source = "regular" => Place = Len(Text)
         /\ Place' = Place /\ BufferInv'
<1>1. AtEnd /\ UNCHANGED <<file, source, fpos, offset, size>>
  BY Zenon DEF EndOfFile
<1>2. Place' = Place /\ Text' = Text
  BY <1>1, Zenon DEF Place, UsedUp, Text
<1>3. /\ fpos \in 0 .. Len(Text) /\ size \in 0 .. BUFFER_SIZE
      /\ source = "regular" /\ size > 0 /\ size < BUFFER_SIZE => fpos = Len(Text)
      /\ source = "regular" /\ eof => Place = Len(Text)
  BY Zenon DEF BufferInv
<1>4. Len(Text) \in Nat /\ BUFFER_SIZE \in Nat
  BY TextLength, ScannerAssumption
<1>5. source = "regular" => Place = Len(Text)
  <2>1. CASE eof
    BY <1>3, <2>1
  <2>2. CASE ~eof
    <3>1. size < BUFFER_SIZE /\ offset = size /\ ~UsedUp
      BY <1>1, <2>2 DEF AtEnd
    <3>2. size > 0 /\ Place = (fpos - size) + offset
      BY <1>3, <3>1 DEF UsedUp, Place
    <3> QED
      BY <1>3, <1>4, <3>1, <3>2
  <2> QED
    BY <2>1, <2>2
<1> QED
  BY <1>1, <1>2, <1>5, Zenon DEF BufferInv

LEMMA StaysOut ==
  ASSUME ReadInv, UNCHANGED lcfgVars
  PROVE  ReadInv' /\ Place' = Place
<1>1. UNCHANGED <<file, source, fpos, offset, size, eof, state, scan, phase, status>>
  BY DEF lcfgVars, scannerVars, bufferVars, parserVars
<1>2. Place' = Place /\ Text' = Text
  BY <1>1, Zenon DEF Place, UsedUp, Text
<1> QED
  BY <1>1, <1>2, Zenon DEF ReadInv, BufferInv, DirectoryInv

\* The parser's own steps leave the buffer alone.
LEMMA BufferStays ==
  ASSUME BufferInv, UNCHANGED bufferVars
  PROVE  BufferInv' /\ Place' = Place
<1>1. UNCHANGED <<file, source, fpos, offset, size, eof>>
  BY DEF bufferVars
<1>2. Place' = Place /\ Text' = Text
  BY <1>1, Zenon DEF Place, UsedUp, Text
<1> QED
  BY <1>1, <1>2, Zenon DEF BufferInv

LEMMA OwnSteps ==
  ASSUME LcfgNext, ~ReadToken
  PROVE  UNCHANGED bufferVars
<1>1. CASE OpenFile \/ OpenFails \/ NextToken \/ FirstToken \/ ScanFails \/ Finish
  BY <1>1, Zenon DEF OpenFile, OpenFails, NextToken, FirstToken, ScanFails, Finish, StartScan,
                     scannerVars
<1>2. CASE Deal
  BY <1>2, Zenon DEF Deal
<1>3. CASE \/ Name \/ Equals \/ Value \/ OpenList \/ OpenMap \/ CloseMap
           \/ Comma \/ Element \/ Nested \/ CloseList \/ Unexpected
  BY <1>2, <1>3, Zenon DEF Name, Equals, Value, OpenList, OpenMap, CloseMap, Comma, Element,
                           Nested, CloseList, Unexpected
<1> QED
  BY <1>1, <1>3, Zenon DEF LcfgNext

\* A directory is never taken for a file.
LEMMA DirectoryStep ==
  ASSUME BufferInv, DirectoryInv, LcfgNext, source' = source, source = "directory"
  PROVE  DirectoryInv'
<1>1. /\ phase \in {"open", "scan", "done"} /\ status # "ok"
      /\ phase = "open" \/ (phase = "scan" /\ scan # "error") =>
           ~eof /\ offset = 0 /\ size \in {0, -1}
      /\ phase = "scan" /\ scan # "error" => scan = "busy" /\ state = "start"
  BY Zenon DEF DirectoryInv
<1>2. CASE OpenFile
  <2>1. /\ phase = "open" /\ phase' = "scan" /\ scan' = "busy" /\ state' = "start"
        /\ status' = status /\ UNCHANGED <<offset, size, eof>>
    BY <1>2 DEF OpenFile, StartScan, bufferVars
  <2> QED
    BY <1>1, <2>1 DEF DirectoryInv
<1>3. CASE OpenFails \/ ScanFails
  <2>1. phase' = "done" /\ status' = "error"
    BY <1>3, Zenon DEF OpenFails, ScanFails
  <2> QED
    BY <2>1 DEF DirectoryInv
<1>4. CASE ReadToken
  <2>1. phase = "scan" /\ phase' = "scan" /\ status' = status /\ Scan
    BY <1>4, Zenon DEF ReadToken, parserVars
  <2>2. scan = "busy"
    BY <2>1, Zenon DEF Scan, FillBuffer, ScanChar, EndOfFile
  <2>3. ~eof /\ offset = 0 /\ size \in {0, -1} /\ state = "start"
    BY <1>1, <2>1, <2>2
  <2>4. BUFFER_SIZE \in Nat \ {0}
    BY ScannerAssumption
  <2>5. CASE FillBuffer
    <3>1. PICK n \in ReadResults :
            size' = n /\ eof' = (n = 0) /\ offset' = IF n > 0 THEN 0 ELSE offset
      BY <2>5, Zenon DEF FillBuffer
    <3>2. ReadResults = {-1}
      BY DEF ReadResults
    <3>3. n = -1
      BY <3>1, <3>2
    <3>4. size' = -1 /\ ~eof' /\ offset' = offset
      <4>1. n # 0 /\ ~(n > 0)
        BY <3>3
      <4> QED
        BY <3>1, <3>3, <4>1, Zenon
    <3>5. scan' = scan /\ state' = state
      BY <2>5, Zenon DEF FillBuffer
    <3> QED
      BY <1>1, <2>1, <2>2, <2>3, <3>4, <3>5 DEF DirectoryInv
  <2>6. CASE ScanChar
    <3>1. size = -1
      BY <2>3, <2>6 DEF ScanChar, UsedUp
    <3>2. Char = NUL
      BY <3>1 DEF Char
    <3>3. NextState("start", NUL) = "invalid"
      BY DEF NextState, NUL, Blank, Punctuation, Alpha, OneOf, Quote
    <3>4. scan' = "error"
      BY <2>3, <2>6, <3>2, <3>3, Zenon DEF ScanChar
    <3> QED
      BY <1>1, <2>1, <3>4 DEF DirectoryInv
  <2>7. CASE EndOfFile
    <3>1. ~AtEnd
      BY <2>3, <2>4 DEF AtEnd, UsedUp
    <3> QED
      BY <2>7, <3>1, Zenon DEF EndOfFile
  <2> QED
    BY <2>1, <2>5, <2>6, <2>7, Zenon DEF Scan
<1>5. CASE Deal \/ NextToken \/ FirstToken \/ Finish
  <2>1. phase = "parse" \/ (phase = "scan" /\ scan = "ok")
    BY <1>5, Zenon DEF Deal, NextToken, FirstToken, Finish
  <2> QED
    BY <1>1, <2>1
<1>6. CASE \/ Name \/ Equals \/ Value \/ OpenList \/ OpenMap \/ CloseMap
           \/ Comma \/ Element \/ Nested \/ CloseList \/ Unexpected
  BY <1>5, <1>6, Zenon DEF Name, Equals, Value, OpenList, OpenMap, CloseMap, Comma, Element,
                           Nested, CloseList, Unexpected
<1> QED
  BY <1>2, <1>3, <1>4, <1>5, <1>6, Zenon DEF LcfgNext

\* A read of characters in step with the file.
InOrder ==
  source # "directory" =>
    /\ ScanChar => /\ Place < Len(Text) /\ Char = Text[Place + 1]
                   /\ Place' = IF Consumed(state, Char) THEN Place + 1 ELSE Place
    /\ ~ScanChar => Place' = Place
    /\ EndOfFile /\ source = "regular" => Place = Len(Text)

LEMMA ReadStep == ReadInv /\ [Next]_vars => ReadInv' /\ InOrder
<1> SUFFICES ASSUME ReadInv, [Next]_vars PROVE ReadInv' /\ InOrder
  OBVIOUS
<1>1. BufferInv /\ DirectoryInv
  BY DEF ReadInv
<1>2. ASSUME source # "directory", EndOfFile
      PROVE  source = "regular" => Place = Len(Text)
  BY <1>1, <1>2, AtTheEnd
<1>3. ASSUME source # "directory", ScanChar
      PROVE  /\ Place < Len(Text) /\ Char = Text[Place + 1]
             /\ Place' = IF Consumed(state, Char) THEN Place + 1 ELSE Place
  BY <1>1, <1>3, OneCharacter
<1>4. ASSUME ReadInv', source # "directory" => ScanChar \/ Place' = Place
      PROVE  ReadInv' /\ InOrder
  BY <1>2, <1>3, <1>4, Zenon DEF InOrder
<1>5. CASE Parse
  <2>1. LcfgNext
    BY <1>5, Zenon DEF Parse
  <2>2. CASE ~ReadToken
    <3>1. UNCHANGED bufferVars
      BY <2>1, <2>2, OwnSteps
    <3>2. BufferInv' /\ Place' = Place
      BY <1>1, <3>1, BufferStays
    <3>3. source' = source
      BY <3>1 DEF bufferVars
    <3>4. DirectoryInv'
      BY <1>1, <2>1, <3>3, DirectoryStep, Zenon DEF DirectoryInv
    <3> QED
      BY <1>4, <3>2, <3>4, Zenon DEF ReadInv
  <2>3. CASE ReadToken
    <3>1. FillBuffer \/ ScanChar \/ EndOfFile
      BY <2>3, Zenon DEF ReadToken, Scan
    <3>2. source' = source /\ file' = file
      BY <3>1, Zenon DEF FillBuffer, ScanChar, EndOfFile
    <3>3. DirectoryInv'
      BY <1>1, <2>1, <3>2, DirectoryStep, Zenon DEF DirectoryInv
    <3>4. CASE source = "directory"
      <4>1. BufferInv'
        BY <1>1, <3>2, <3>4, Zenon DEF BufferInv
      <4> QED
        BY <1>4, <3>3, <3>4, <4>1, Zenon DEF ReadInv
    <3>5. CASE source # "directory"
      <4>1. BufferInv' /\ (ScanChar \/ Place' = Place)
        BY <1>1, <3>1, <3>5, OneCharacter, OneRead, AtTheEnd, Zenon
      <4> QED
        BY <1>4, <3>3, <4>1, Zenon DEF ReadInv
    <3> QED
      BY <3>4, <3>5
  <2> QED
    BY <2>2, <2>3
<1>6. CASE ~Parse
  <2>1. UNCHANGED lcfgVars
    BY <1>6, Zenon DEF Next, ParseOk, ParseFails, Visit, NoMoreValues, CommandLine, OpenFiles,
                       OpenFilesFails, WriteHeader, CopyByte, Close, CutInput, DiskFull,
                       Terminated, vars
  <2> QED
    BY <1>4, <2>1, StaysOut, Zenon
<1> QED
  BY <1>5, <1>6

(* However the borders of the buffer fall, whatever size it has and however *)
(* little a pipe delivers at once, the automaton of the scanner gets every  *)
(* character of the file exactly once and in order, but for the one behind  *)
(* an identifier, which it gets again; and a regular file is taken for read *)
(* only at its end. (lcfg_static.c:513-573)                                 *)
THEOREM EveryCharacterInOrder == Spec => [][InOrder]_vars
<1>1. ReadInv /\ [Next]_vars => [InOrder]_vars
  BY ReadStep
<1>2. ReadInv /\ [Next]_vars => ReadInv'
  BY ReadStep
<1> QED
  BY <1>1, <1>2, ReadInit, PTL DEF Spec

(* A directory, of which reading fails, is never accepted for an empty     *)
(* configuration file. (lcfg_static.c:513-573)                             *)
THEOREM DirectoryRefused == Spec => [](source = "directory" => status # "ok")
<1>1. ReadInv => (source = "directory" => status # "ok")
  BY DEF ReadInv, DirectoryInv
<1>2. ReadInv /\ [Next]_vars => ReadInv'
  BY ReadStep
<1> QED
  BY <1>1, <1>2, ReadInit, PTL DEF Spec

-----------------------------------------------------------------------------
(* The configuration that is written in the file.                          *)

\* A set of numbers has a least one.
LEMMA LeastOne ==
  ASSUME NEW T \in SUBSET Nat, T # {}
  PROVE  \E e \in T : \A m \in T : e <= m
<1> DEFINE R == {ss \in Nat \X Nat : ss[1] < ss[2]}
<1>1. IsWellFoundedOn(R, Nat)
  BY NatLessThanWellFounded, Zenon DEF OpToRel
<1>2. \A x, y \in T : x \in Nat /\ y \in Nat /\ (<<y, x>> \notin R => x <= y)
  OBVIOUS
<1> HIDE DEF R
<1>3. \E x \in T : \A y \in T : <<y, x>> \notin R
  BY <1>1, WFMin, Zenon
<1> QED
  BY <1>2, <1>3, Zenon

\* A set of numbers with a bound has a greatest one.
LEMMA GreatestOne ==
  ASSUME NEW N \in Nat, NEW T \in SUBSET (1 .. N), T # {}
  PROVE  Max(T) \in T
<1> DEFINE D == {N - t : t \in T}
<1>1. D \in SUBSET Nat /\ D # {}
  <2>1. \A t \in T : t \in 1 .. N /\ N - t \in Nat
    OBVIOUS
  <2>2. PICK t \in T : TRUE
    OBVIOUS
  <2>3. N - t \in D
    OBVIOUS
  <2> QED
    BY <2>1, <2>3
<1>2. PICK e \in D : \A m \in D : e <= m
  BY <1>1, LeastOne
<1>3. PICK t \in T : e = N - t
  BY <1>2
<1>4. \A m \in T : t >= m
  <2> TAKE m \in T
  <2>1. N - m \in D
    OBVIOUS
  <2> QED
    BY <1>2, <1>3, <2>1
<1> QED
  BY <1>4 DEF Max

\* The characters at the beginning of a string that are of one kind.
LEMMA SpanFacts ==
  ASSUME NEW S, NEW s \in Seq(S), NEW kind
  PROVE  /\ Span(s, kind) \in 0 .. Len(s)
         /\ \A k \in 1 .. Span(s, kind) : s[k] \in kind
         /\ Span(s, kind) = Len(s) \/ s[Span(s, kind) + 1] \notin kind
<1> DEFINE T == {n \in 0 .. Len(s) : n = Len(s) \/ s[n + 1] \notin kind}
<1>1. Len(s) \in Nat /\ T \in SUBSET Nat /\ Len(s) \in T
  OBVIOUS
<1>2. PICK e \in T : \A m \in T : e <= m
  BY <1>1, LeastOne
<1>3. ASSUME NEW k \in 1 .. e PROVE s[k] \in kind
  <2>1. k - 1 \in 0 .. Len(s) /\ k - 1 \notin T /\ (k - 1) + 1 = k
    BY <1>1, <1>2
  <2> QED
    BY <2>1
<1>4. \E n \in 0 .. Len(s) :
        /\ \A k \in 1 .. n : s[k] \in kind
        /\ n = Len(s) \/ s[n + 1] \notin kind
  BY <1>2, <1>3
<1> QED
  BY <1>4, Zenon DEF Span

\* sscanf comes to the end of a string just where nothing is to be seen of it.
LEMMA NothingSeen ==
  ASSUME NEW v \in Seq(STRING)
  PROVE  ScanResult(v) = EOF <=> Unseen(v)
<1> DEFINE n == Span(v, Space)
           t == Trimmed(v)
<1>1. /\ n \in 0 .. Len(v) /\ Len(v) \in Nat
      /\ \A k \in 1 .. n : v[k] \in Space
      /\ n = Len(v) \/ v[n + 1] \notin Space
  BY SpanFacts
<1>2. t = SubSeq(v, n + 1, Len(v))
  BY Zenon DEF Trimmed, Behind
<1> HIDE DEF n, t
<1>3. /\ t = <<>> <=> n = Len(v)
      /\ n < Len(v) => t[1] = v[n + 1]
  <2>1. t \in Seq(STRING) /\ Len(t) = Len(v) - n
    BY <1>1, <1>2
  <2>2. n < Len(v) => t[1] = v[n + 1]
    BY <1>1, <1>2
  <2>3. t = <<>> <=> Len(t) = 0
    BY <2>1
  <2> QED
    BY <1>1, <2>1, <2>2, <2>3
<1>4. EndOfString \notin Space
  BY Zenon DEF EndOfString, Space
<1>5. ScanResult(v) = EOF <=> t = <<>> \/ t[1] = EndOfString
  BY DEF ScanResult, StartsWith, EOF, t
<1>6. ASSUME n = Len(v) PROVE Unseen(v)
  BY <1>1, <1>6 DEF Unseen
<1>7. ASSUME n < Len(v), v[n + 1] = EndOfString PROVE Unseen(v)
  <2> SUFFICES ASSUME NEW k \in DOMAIN v, v[k] \notin Space
               PROVE  \E j \in 1 .. k : v[j] = EndOfString
    BY DEF Unseen
  <2>1. n + 1 \in 1 .. k
    BY <1>1, <1>7
  <2> QED
    BY <1>7, <2>1
<1>8. ASSUME n < Len(v), Unseen(v) PROVE v[n + 1] = EndOfString
  <2>1. n + 1 \in DOMAIN v /\ v[n + 1] \notin Space
    BY <1>1, <1>8
  <2>2. PICK j \in 1 .. n + 1 : v[j] = EndOfString
    BY <1>8, <2>1 DEF Unseen
  <2>3. j \notin 1 .. n
    BY <1>1, <1>4, <2>2
  <2>4. j = n + 1
    BY <1>1, <2>2, <2>3
  <2> QED
    BY <2>2, <2>4
<1>9. n = Len(v) \/ n < Len(v)
  BY <1>1
<1> QED
  BY <1>3, <1>5, <1>6, <1>7, <1>8, <1>9

\* The code and the reference agree on what a value is to its variable.
LEMMA CountsAndAmount ==
  ASSUME NEW n, Means[n].value \in Seq(STRING)
  PROVE  /\ Counts(n) <=> ScanResult(Means[n].value) # 0
         /\ Amount(n) = Val(Means[n].value)
<1> DEFINE v == Means[n].value
<1>1. ScanResult(v) \in {EOF, 0, 1} /\ EOF # 0 /\ EOF # 1
  BY DEF ScanResult, EOF
<1>2. ScanResult(v) = EOF <=> Unseen(v)
  BY NothingSeen
<1>3. ScanResult(v) # 0 <=> Unseen(v) \/ ScanResult(v) = 1
  BY <1>1, <1>2
<1>4. Val(v) = IF Unseen(v) THEN 0 ELSE Scanned(v)
  BY <1>2, Zenon DEF Val
<1> QED
  BY <1>3, <1>4, Zenon DEF Counts, Amount

\* Where the reader found what the file means, the reference agrees.
LEMMA AsConfigured ==
  ASSUME file \in Files, values = Means, NEW S, values \in Seq(S), visited \in 0 .. Len(values),
         Reaches(values, visited), NEW key
  PROVE  Worth(values, visited, key) = Configured(key)
<1>1. DOMAIN Means = 1 .. Len(values) /\ Len(values) \in Nat /\ visited \in Nat
  OBVIOUS
<1>5. ASSUME NEW n \in DOMAIN Means
      PROVE  /\ Counts(n) <=> ScanResult(values[n].value) # 0
             /\ Amount(n) = Val(values[n].value)
  <2>1. Means[n].value \in Seq(STRING)
    BY GPSignAssumption, Zenon DEF Means
  <2> QED
    BY <2>1, CountsAndAmount, Zenon
<1>2. TooWide = TooWideIn(values) /\ TooWide \subseteq 1 .. Len(values)
  <2>1. ASSUME NEW n \in DOMAIN Means
        PROVE  Refused(variable_map, values[n]) <=>
                 /\ values[n].key \in DOMAIN variable_map /\ Counts(n)
                 /\ Overflows(variable_map[values[n].key], Amount(n))
    BY <1>5, MapTypes, Zenon DEF Refused, Ignored
  <2>2. TooWide = TooWideIn(values)
    BY <2>1, Zenon DEF TooWide, TooWideIn
  <2> QED
    BY <1>1, <2>2 DEF TooWide
<1>3. Reached = 1 .. visited
  <2>1. CASE visited \in TooWide
    <3>1. ASSUME NEW n \in TooWide PROVE n >= visited
      <4>1. n \in 1 .. Len(values) /\ n \notin 1 .. visited - 1
        BY <1>2, <3>1, Zenon DEF Reaches
      <4> QED
        BY <1>1, <4>1
    <3>2. Min(TooWide) = visited
      BY <1>2, <2>1, <3>1 DEF Min
    <3> QED
      BY <2>1, <3>2, Zenon DEF Reached
  <2>2. CASE visited \notin TooWide
    <3>1. visited = Len(values)
      BY <1>2, <2>2, Zenon DEF Reaches
    <3>2. TooWide = {}
      BY <1>1, <1>2, <2>2, <3>1 DEF Reaches
    <3> QED
      BY <1>1, <3>1, <3>2, Zenon DEF Reached
  <2> QED
    BY <2>1, <2>2
<1>4. Assigned(key) = Sets(values, visited, key) /\ Assigned(key) \subseteq 1 .. visited
  <2>1. \A n \in 1 .. visited : n \in DOMAIN Means
    BY <1>1
  <2> QED
    BY <1>3, <1>5, <2>1, Zenon DEF Assigned, Sets
<1>6. CASE Assigned(key) = {}
  BY <1>4, <1>6, Zenon DEF Worth, Configured
<1>7. CASE Assigned(key) # {}
  <2> DEFINE m == Max(Assigned(key))
  <2>1. m \in DOMAIN Means
    <3>1. Assigned(key) \in SUBSET (1 .. visited)
      BY <1>4
    <3>2. m \in Assigned(key)
      BY <1>1, <1>7, <3>1, GreatestOne, Zenon
    <3> HIDE DEF m
    <3> QED
      BY <1>1, <3>1, <3>2
  <2>2. Amount(m) = Val(values[m].value)
    BY <1>5, <2>1
  <2>3. m = Max(Sets(values, visited, key))
    BY <1>4
  <2> HIDE DEF m
  <2>4. Configured(key) = Cut(variable_map[key], Amount(m))
    BY <1>7, Zenon DEF Configured, m
  <2>5. Worth(values, visited, key) = Cut(variable_map[key], Val(values[m].value))
    BY <1>4, <1>7, <2>3, Zenon DEF Worth
  <2> QED
    BY <2>2, <2>4, <2>5
<1> QED
  BY <1>6, <1>7

(* As far as the parser yields what is written in the file, which is what  *)
(* AcceptedAsWritten says, no image is made with half a configuration, for *)
(* any file. (gpsign.c:567-601, compare.h:30-91)                           *)
THEOREM ConfigurationWhole == Spec => ([]AcceptedAsWritten => []ImageHoldsConfig)
<1>1. ConfInv /\ ReadInv /\ AcceptedAsWritten => ImageHoldsConfig
  <2> SUFFICES ASSUME ConfInv, ReadInv, AcceptedAsWritten, pc \in Working, Opened
               PROVE  /\ status = "ok"
                      /\ source = "regular" /\ Wrong = "nothing" =>
                           \A key \in DOMAIN conf :
                             \/ conf[key] = Configured(key)
                             \/ key = LoadAddr /\ conf[key] \in LoadAddresses
    BY Zenon DEF ImageHoldsConfig, Working
  <2>1. /\ status = "ok" /\ Reaches(values, visited) /\ HoldingBut(conf, values, visited)
        /\ visited \in 0 .. Len(values)
    BY Zenon DEF ConfInv
  <2>2. PICK S : values \in Seq(S)
    BY Zenon DEF ConfInv
  <2>3. ASSUME source = "regular", Wrong = "nothing", NEW key \in DOMAIN conf
        PROVE  \/ conf[key] = Configured(key)
               \/ key = LoadAddr /\ conf[key] \in LoadAddresses
    <3>1. values = Means
      BY <2>1, <2>3, Zenon DEF AcceptedAsWritten
    <3>2. Worth(values, visited, key) = Configured(key)
      BY <2>1, <2>2, <3>1, AsConfigured, Zenon DEF ReadInv, BufferInv
    <3>3. key \in DOMAIN variable_map
      BY <2>1, Zenon DEF HoldingBut
    <3> QED
      BY <2>1, <3>2, <3>3, Zenon DEF HoldingBut
  <2> QED
    BY <2>1, <2>3, Zenon
<1>2. ReadInv /\ [Next]_vars => ReadInv'
  BY ReadStep
<1> QED
  BY <1>1, <1>2, ConfInit, ConfSteps, ReadInit, PTL DEF Spec

-----------------------------------------------------------------------------
(* The paths of the parser.                                                *)

\* What one level of a path may be: no name holds a dot.
Component == Seq(InIdentifier) \ {<<>>}
PathChars == InIdentifier \union {Dot}

ScannerStates ==
  {"start", "comm_start", "in_oneline", "in_multiline", "multiline_end", "in_identifier",
   "in_str", "in_esc", "esc_hex_exp_first", "esc_hex_exp_second"}

(* The names the scanner hands out are such components.                    *)
TokenInv ==
  /\ DOMAIN token = {"type", "string"}
  /\ scan = "busy" => state \in ScannerStates
  /\ scan = "busy" /\ state = "in_identifier" => token.string \in Component
  /\ token.type = "identifier" => token.string \in Component
  /\ token_t.type = "identifier" => token_t.string \in Component

ParserStates == {"top_level", "in_map", "exp_equals", "exp_value", "in_list", "invalid"}
Frames == [s : ParserStates, list_counter : Nat]

(* The frame at the bottom of the stack is that of the file.               *)
StackInv ==
  /\ stack \in Seq(Frames) /\ Len(stack) >= 1
  /\ stack[1].s \in {"top_level", "invalid"}

\* No list has had more than ten elements so far.
ShortLists == \A k \in DOMAIN stack : stack[k].list_counter <= 10

(* The path of the k-th frame of the stack leads to the next one by one    *)
(* component, in a list by the number of the element.                      *)
Leads(paths, names, stk) ==
  /\ paths[1] = <<>>
  /\ \A k \in 1 .. Len(stk) : paths[k] \in Seq(PathChars)
  /\ \A k \in 1 .. Len(stk) - 1 :
       /\ names[k] \in Component
       /\ paths[k + 1] = Push(paths[k], names[k])
       /\ stk[k].s = "in_list" =>
            stk[k].list_counter \in 1 .. 10 /\ names[k] = <<Figure[stk[k].list_counter]>>

Follows(p, stk) == \E paths, names : Leads(paths, names, stk) /\ p = paths[Len(stk)]

PathFollowsStack == Follows(path, stack)

\* The key of a value that is added.
NestedKey ==
  values' # values =>
    Last(values').key = IF In("in_list") THEN Push(path, <<Figure[Top.list_counter + 1]>>)
                        ELSE path

-----------------------------------------------------------------------------
LEMMA NoDot == Dot \notin InIdentifier /\ Alpha \subseteq InIdentifier
BY DEF Dot, InIdentifier, Alpha, Hexadecimal

LEMMA Figures == \A n \in 0 .. 9 : Figure[n + 1] \in InIdentifier
<1>1. ASSUME NEW n \in 0 .. 9 PROVE Figure[n + 1] \in InIdentifier
  <2>1. {"0", "1", "2", "3", "4", "5", "6", "7", "8", "9"} \subseteq InIdentifier
    BY DEF InIdentifier, Hexadecimal
  <2>2. Figure[n + 1] \in {"0", "1", "2", "3", "4", "5", "6", "7", "8", "9"}
    <3>1. \/ n = 0 \/ n = 1 \/ n = 2 \/ n = 3 \/ n = 4
          \/ n = 5 \/ n = 6 \/ n = 7 \/ n = 8 \/ n = 9
      OBVIOUS
    <3> QED
      BY <3>1 DEF Figure
  <2> QED
    BY <2>1, <2>2
<1> QED
  BY <1>1

\* The path is cut off where it was extended.
LEMMA PopUndoesPush ==
  ASSUME NEW p \in Seq(PathChars), NEW name \in Component
  PROVE  Push(p, name) \in Seq(PathChars) /\ Pop(Push(p, name)) = p
<1>1. name \in Seq(InIdentifier) /\ name # <<>> /\ name \in Seq(PathChars)
  BY DEF Component, PathChars
<1>2. \A k \in 1 .. Len(name) : name[k] # Dot
  BY <1>1, NoDot
<1>3. CASE p = <<>>
  <2>1. Push(p, name) = name
    <3>1. <<>> \o name = name
      BY <1>1
    <3> QED
      BY <1>3, <3>1 DEF Push
  <2>2. {k \in DOMAIN name : name[k] = Dot} = {}
    BY <1>1, <1>2
  <2>3. Pop(name) = <<>>
    BY <2>2 DEF Pop
  <2> QED
    BY <1>1, <1>3, <2>1, <2>3
<1>4. CASE p # <<>>
  <2> DEFINE q == Append(p, Dot) \o name
             n == Len(p)
             dots == {k \in DOMAIN q : q[k] = Dot}
  <2>1. Append(p, Dot) \in Seq(PathChars) /\ Len(Append(p, Dot)) = n + 1 /\ n \in Nat
    BY DEF PathChars
  <2>2. /\ q \in Seq(PathChars) /\ Len(q) = (n + 1) + Len(name)
        /\ \A k \in 1 .. n : q[k] = p[k]
        /\ q[n + 1] = Dot
        /\ \A k \in 1 .. Len(name) : q[(n + 1) + k] = name[k]
    BY <1>1, <2>1
  <2>3. Push(p, name) = q
    BY <1>4 DEF Push
  <2> HIDE DEF q
  <2>4. n + 1 \in dots /\ dots \subseteq 1 .. n + 1
    <3>1. DOMAIN q = 1 .. (n + 1) + Len(name)
      BY <2>2
    <3>2. ASSUME NEW k \in dots PROVE k \in 1 .. n + 1
      <4>1. k \in 1 .. (n + 1) + Len(name) /\ q[k] = Dot
        BY <3>1
      <4>2. ASSUME k > n + 1 PROVE FALSE
        <5>1. k - (n + 1) \in 1 .. Len(name) /\ (n + 1) + (k - (n + 1)) = k
          BY <1>1, <2>1, <4>1, <4>2
        <5>2. q[k] = name[k - (n + 1)]
          BY <2>2, <5>1, Zenon
        <5> QED
          BY <1>2, <4>1, <5>1, <5>2, Zenon
      <4> QED
        BY <2>1, <4>1, <4>2
    <3>3. n + 1 \in DOMAIN q
      BY <1>1, <2>1, <3>1
    <3> QED
      BY <2>2, <3>2, <3>3
  <2>5. Max(dots) = n + 1
    BY <2>1, <2>4 DEF Max
  <2>6. Pop(q) = SubSeq(q, 1, (n + 1) - 1)
    BY <2>4, <2>5, Zenon DEF Pop
  <2>7. SubSeq(q, 1, (n + 1) - 1) = p
    <3>1. (n + 1) - 1 = n
      BY <2>1
    <3>2. SubSeq(q, 1, n) \in Seq(PathChars) /\ Len(SubSeq(q, 1, n)) = n
          /\ \A k \in 1 .. n : SubSeq(q, 1, n)[k] = q[k]
      BY <1>1, <2>1, <2>2
    <3> QED
      BY <2>1, <2>2, <3>1, <3>2
  <2> QED
    BY <2>2, <2>3, <2>6, <2>7
<1> QED
  BY <1>3, <1>4

\* The path of an element of a list.
LEMMA PushIntPushes ==
  ASSUME NEW p \in Seq(PathChars), NEW n \in 0 .. 9
  PROVE  <<Figure[n + 1]>> \in Component /\ PushInt(p, n) = Push(p, <<Figure[n + 1]>>)
<1> DEFINE f == Figure[n + 1]
<1>1. f \in InIdentifier
  BY Figures
<1>2. \A x : CatUint(x, n) = Append(x, f)
  <2>1. n < 10
    OBVIOUS
  <2> QED
    BY <2>1, Zenon DEF CatUint
<1> HIDE DEF f
<1>3. <<f>> \in Component
  <2>1. <<f>> \in Seq(InIdentifier) /\ Len(<<f>>) = 1
    BY <1>1
  <2>2. Len(<<>>) = 0
    OBVIOUS
  <2> QED
    BY <2>1, <2>2 DEF Component
<1>4. \A x \in Seq(PathChars) : Append(x, f) = x \o <<f>>
  BY <1>1 DEF PathChars
<1>5. PushInt(p, n) = Push(p, <<f>>)
  <2> DEFINE x == IF p = <<>> THEN p ELSE Append(p, Dot)
  <2>1. x \in Seq(PathChars)
    BY DEF PathChars
  <2>2. PushInt(p, n) = CatUint(x, n) /\ Push(p, <<f>>) = x \o <<f>>
    BY Zenon DEF PushInt, Push
  <2> HIDE DEF x
  <2> QED
    BY <1>2, <1>4, <2>1, <2>2, Zenon
<1> QED
  BY <1>3, <1>5, Zenon DEF f

\* A step that changes no more of the stack than the frame on top.
LEMMA FollowsStay ==
  ASSUME NEW p, NEW st \in Seq(Frames), NEW st2 \in Seq(Frames), Follows(p, st),
         Len(st) >= 1, Len(st2) = Len(st),
         \A k \in 1 .. Len(st) - 1 : st2[k] = st[k]
  PROVE  Follows(p, st2)
<1>1. PICK paths, names : Leads(paths, names, st) /\ p = paths[Len(st)]
  BY Zenon DEF Follows
<1>2. Leads(paths, names, st2)
  BY <1>1, Zenon DEF Leads
<1> QED
  BY <1>1, <1>2, Zenon DEF Follows

\* One level more.
LEMMA FollowsDown ==
  ASSUME NEW p, NEW st \in Seq(Frames), NEW st2 \in Seq(Frames), Follows(p, st),
         NEW name \in Component,
         Len(st) >= 1, Len(st2) = Len(st) + 1,
         \A k \in 1 .. Len(st) - 1 : st2[k] = st[k],
         st2[Len(st)].s = "in_list" =>
           st2[Len(st)].list_counter \in 1 .. 10
           /\ name = <<Figure[st2[Len(st)].list_counter]>>
  PROVE  Follows(Push(p, name), st2)
<1> DEFINE n == Len(st)
<1>1. n \in Nat \ {0} /\ n + 1 # 1 /\ (n + 1) - 1 = n
  OBVIOUS
<1>2. PICK paths, names : Leads(paths, names, st) /\ p = paths[n]
  BY Zenon DEF Follows
<1>3. /\ paths[1] = <<>>
      /\ \A k \in 1 .. n : paths[k] \in Seq(PathChars)
      /\ \A k \in 1 .. n - 1 :
           /\ names[k] \in Component
           /\ paths[k + 1] = Push(paths[k], names[k])
           /\ st[k].s = "in_list" =>
                st[k].list_counter \in 1 .. 10 /\ names[k] = <<Figure[st[k].list_counter]>>
  BY <1>2, Zenon DEF Leads
<1>4. Push(p, name) \in Seq(PathChars)
  <2>1. p \in Seq(PathChars)
    BY <1>1, <1>2, <1>3
  <2> QED
    BY <2>1, PopUndoesPush
<1> DEFINE q == Push(p, name)
           paths2 == [k \in 1 .. n + 1 |-> IF k = n + 1 THEN q ELSE paths[k]]
           names2 == [k \in 1 .. n |-> IF k = n THEN name ELSE names[k]]
<1> HIDE DEF n, q
<1>5. paths2[n + 1] = q /\ \A k \in 1 .. n : paths2[k] = paths[k]
  BY <1>1
<1>6. names2[n] = name /\ \A k \in 1 .. n - 1 : names2[k] = names[k]
  BY <1>1
<1> HIDE DEF paths2, names2
<1>7. paths2[1] = <<>>
  BY <1>1, <1>3, <1>5
<1>8. \A k \in 1 .. n + 1 : paths2[k] \in Seq(PathChars)
  <2>1. \A k \in 1 .. n + 1 : k \in 1 .. n \/ k = n + 1
    BY <1>1
  <2> QED
    BY <1>3, <1>4, <1>5, <2>1, Zenon DEF q
<1>9. ASSUME NEW k \in 1 .. n
      PROVE  /\ names2[k] \in Component
             /\ paths2[k + 1] = Push(paths2[k], names2[k])
             /\ st2[k].s = "in_list" =>
                  st2[k].list_counter \in 1 .. 10 /\ names2[k] = <<Figure[st2[k].list_counter]>>
  <2>1. CASE k = n
    <3>1. paths2[n] = p
      BY <1>1, <1>2, <1>5
    <3> QED
      BY <1>5, <1>6, <2>1, <3>1, Zenon DEF q, n
  <2>2. CASE k # n
    <3>1. k \in 1 .. n - 1 /\ k + 1 \in 1 .. n
      BY <1>1, <2>2
    <3>2. names2[k] = names[k] /\ paths2[k] = paths[k] /\ paths2[k + 1] = paths[k + 1]
      BY <1>5, <1>6, <3>1, Zenon
    <3>3. st2[k] = st[k]
      BY <3>1, Zenon DEF n
    <3> QED
      BY <1>3, <3>1, <3>2, <3>3, Zenon
  <2> QED
    BY <2>1, <2>2
<1>10. Len(st2) = n + 1 /\ Len(st2) - 1 = n
  BY <1>1 DEF n
<1>11. Leads(paths2, names2, st2) /\ paths2[Len(st2)] = q
  BY <1>5, <1>7, <1>8, <1>9, <1>10, Zenon DEF Leads
<1> QED
  BY <1>11, Zenon DEF Follows, q

\* And one less.
LEMMA FollowsUp ==
  ASSUME NEW p, NEW st \in Seq(Frames), NEW st2 \in Seq(Frames), Follows(p, st),
         Len(st) >= 2, Len(st2) = Len(st) - 1,
         \A k \in 1 .. Len(st) - 1 : st2[k] = st[k]
  PROVE  Follows(Pop(p), st2)
<1> DEFINE n == Len(st)
<1>1. n \in Nat /\ n >= 2 /\ n - 1 \in 1 .. n /\ n - 1 \in 1 .. n - 1 /\ (n - 1) + 1 = n
      /\ 1 .. n - 1 \subseteq 1 .. n /\ 1 .. (n - 1) - 1 \subseteq 1 .. n - 1
  OBVIOUS
<1>2. PICK paths, names : Leads(paths, names, st) /\ p = paths[n]
  BY Zenon DEF Follows
<1> HIDE DEF n
<1>3. /\ paths[1] = <<>>
      /\ \A k \in 1 .. n : paths[k] \in Seq(PathChars)
      /\ \A k \in 1 .. n - 1 :
           /\ names[k] \in Component
           /\ paths[k + 1] = Push(paths[k], names[k])
           /\ st[k].s = "in_list" =>
                st[k].list_counter \in 1 .. 10 /\ names[k] = <<Figure[st[k].list_counter]>>
  BY <1>2, Zenon DEF Leads, n
<1>4. paths[n - 1] \in Seq(PathChars) /\ names[n - 1] \in Component
      /\ p = Push(paths[n - 1], names[n - 1])
  <2>1. paths[(n - 1) + 1] = Push(paths[n - 1], names[n - 1])
    BY <1>1, <1>3, Zenon
  <2> QED
    BY <1>1, <1>2, <1>3, <2>1, Zenon
<1>5. Pop(p) = paths[n - 1]
  BY <1>4, PopUndoesPush
<1>6. Leads(paths, names, st2)
  <2>1. Len(st2) = n - 1
    BY DEF n
  <2>2. \A k \in 1 .. n - 1 : st2[k] = st[k]
    BY DEF n
  <2>3. \A k \in 1 .. n - 1 : k \in 1 .. n
    BY <1>1
  <2>4. \A k \in 1 .. (n - 1) - 1 : k \in 1 .. n - 1
    BY <1>1
  <2> QED
    BY <1>3, <2>1, <2>2, <2>3, <2>4, Zenon DEF Leads
<1>7. Len(st2) = n - 1
  BY DEF n
<1> QED
  BY <1>5, <1>6, <1>7, Zenon DEF Follows

-----------------------------------------------------------------------------
(* The names of the scanner.                                               *)

\* What leads to the state of an identifier, and to its token.
LEMMA ScannerSteps ==
  ASSUME NEW q \in ScannerStates, NEW c
  PROVE  /\ NextState(q, c) \in ScannerStates \union {"invalid"}
         /\ NextState(q, c) = "in_identifier" =>
              \/ q = "start" /\ c \in Alpha /\ c # Quote
              \/ q = "in_identifier" /\ c \in InIdentifier
         /\ TokenType(q, c) = "identifier" => q = "in_identifier" /\ c \notin InIdentifier
<1>1. ASSUME NEW A, NEW f, NEW o, NEW S, f \in [A -> S], o \in S
      PROVE  OneOf(c, f, o) \in S
  BY <1>1 DEF OneOf
<1> DEFINE Others == (ScannerStates \ {"in_identifier"}) \union {"invalid"}
<1>2. /\ "in_identifier" \notin Others /\ Others \subseteq ScannerStates \union {"invalid"}
      /\ \A x \in {"start", "comm_start", "in_oneline", "in_multiline", "multiline_end",
                   "in_str", "in_esc", "esc_hex_exp_first", "esc_hex_exp_second", "invalid"} :
           x \in Others
  BY DEF ScannerStates
<1> HIDE DEF Others
<1>3. CASE q = "start"
  <2> DEFINE f == [x \in {"/", Quote} |-> IF x = Quote THEN "in_str" ELSE "comm_start"]
  <2>1. NextState("start", c) =
          IF c \in Blank \union Punctuation THEN "start"
          ELSE IF c \in Alpha THEN "in_identifier" ELSE OneOf(c, f, "invalid")
    BY Zenon DEF NextState
  <2>2. f \in [{"/", Quote} -> Others]
    BY <1>2
  <2> HIDE DEF f
  <2>3. OneOf(c, f, "invalid") \in Others
    BY <1>1, <1>2, <2>2, Zenon
  <2>4. Quote \notin Alpha
    BY DEF Quote, Alpha
  <2>5. TokenType("start", c) \in Punctuation \union {NoToken}
    BY DEF TokenType
  <2>6. "identifier" \notin Punctuation \union {NoToken}
    BY DEF Punctuation, NoToken
  <2>7. NextState(q, c) \in Others \/ (NextState(q, c) = "in_identifier" /\ c \in Alpha)
    BY <1>2, <1>3, <2>1, <2>3
  <2>8. "in_identifier" \in ScannerStates
    BY DEF ScannerStates
  <2> QED
    BY <1>2, <1>3, <2>4, <2>5, <2>6, <2>7, <2>8, Zenon
<1>4. CASE q = "in_identifier"
  <2>1. NextState(q, c) = IF c \in InIdentifier THEN q ELSE "start"
    BY <1>4 DEF NextState
  <2>2. TokenType(q, c) = "identifier" => c \notin InIdentifier
    BY <1>4 DEF TokenType, Quote, NoToken
  <2> QED
    BY <1>4, <2>1, <2>2 DEF ScannerStates
<1>5. ASSUME q \notin {"start", "in_identifier"} PROVE TokenType(q, c) # "identifier"
  BY <1>5 DEF TokenType, NoToken
<1>6. ASSUME q \notin {"start", "in_identifier"} PROVE NextState(q, c) \in Others
  <2> DEFINE f1 == [x \in {"/", "*"} |-> IF x = "/" THEN "in_oneline" ELSE "in_multiline"]
             f2 == [x \in {"/", "*"} |-> IF x = "/" THEN "start" ELSE "multiline_end"]
             f3 == [x \in {Quote, "\\"} |-> IF x = Quote THEN "start" ELSE "in_esc"]
  <2>1. f1 \in [{"/", "*"} -> Others] /\ f2 \in [{"/", "*"} -> Others]
    BY <1>2
  <2>2. OneOf(c, f3, "in_str") \in Others
    BY <1>2 DEF OneOf
  <2>3. /\ NextState("comm_start", c) = OneOf(c, f1, "invalid")
        /\ NextState("multiline_end", c) = OneOf(c, f2, "in_multiline")
        /\ NextState("in_str", c) = OneOf(c, f3, "in_str")
    BY Zenon DEF NextState
  <2> HIDE DEF f1, f2, f3
  <2>4. NextState("comm_start", c) \in Others /\ NextState("multiline_end", c) \in Others
    <3>1. "invalid" \in Others /\ "in_multiline" \in Others
      BY <1>2
    <3>2. OneOf(c, f1, "invalid") \in Others
      BY <1>1, <2>1, <3>1, Zenon
    <3>3. OneOf(c, f2, "in_multiline") \in Others
      BY <1>1, <2>1, <3>1, Zenon
    <3> QED
      BY <2>3, <3>2, <3>3, Zenon
  <2>5. NextState("in_str", c) \in Others
    BY <2>2, <2>3
  <2>6. /\ NextState("in_oneline", c) \in Others /\ NextState("in_multiline", c) \in Others
    BY <1>2 DEF NextState
  <2>7. NextState("in_esc", c) \in Others
    BY <1>2 DEF NextState
  <2>8. /\ NextState("esc_hex_exp_first", c) \in Others
        /\ NextState("esc_hex_exp_second", c) \in Others
    BY <1>2 DEF NextState
  <2> QED
    BY <1>6, <2>4, <2>5, <2>6, <2>7, <2>8 DEF ScannerStates
<1> QED
  BY <1>2, <1>3, <1>4, <1>5, <1>6

LEMMA NameStep ==
  ASSUME TokenInv, ScanChar, token_t' = token_t
  PROVE  TokenInv'
<1>1. /\ scan = "busy" /\ state \in ScannerStates
      /\ state = "in_identifier" => token.string \in Component
      /\ token_t.type = "identifier" => token_t.string \in Component
  BY Zenon DEF TokenInv, ScanChar
<1> DEFINE c == Char
           type == TokenType(state, c)
           text == TokenString(state, c, token.string)
<1>2. /\ state' = NextState(state, c)
      /\ token' = [type |-> type, string |-> text]
      /\ scan' = IF NextState(state, c) = "invalid" THEN "error"
                 ELSE IF type # NoToken THEN "ok" ELSE "busy"
  BY Zenon DEF ScanChar
<1>3. /\ NextState(state, c) \in ScannerStates \union {"invalid"}
      /\ NextState(state, c) = "in_identifier" =>
           \/ state = "start" /\ c \in Alpha /\ c # Quote
           \/ state = "in_identifier" /\ c \in InIdentifier
      /\ type = "identifier" => state = "in_identifier" /\ c \notin InIdentifier
  BY <1>1, ScannerSteps
<1> HIDE DEF c
<1>4. ASSUME state = "start", c \in Alpha, c # Quote PROVE text \in Component
  <2>1. text = <<c>>
    BY <1>4, Zenon DEF TokenString
  <2>2. c \in InIdentifier
    BY <1>4, NoDot
  <2>3. <<c>> \in Seq(InIdentifier) /\ <<c>> # <<>>
    BY <2>2
  <2> QED
    BY <2>1, <2>3 DEF Component
<1>5. ASSUME state = "in_identifier", c \in InIdentifier PROVE text \in Component
  <2>1. text = Append(token.string, c)
    BY <1>5 DEF TokenString
  <2>2. token.string \in Seq(InIdentifier)
    BY <1>1, <1>5 DEF Component
  <2>3. Append(token.string, c) \in Seq(InIdentifier) /\ Len(Append(token.string, c)) # 0
    BY <1>5, <2>2
  <2> QED
    BY <2>1, <2>3 DEF Component
<1>6. ASSUME state = "in_identifier", c \notin InIdentifier PROVE text \in Component
  <2>1. text = token.string
    BY <1>6 DEF TokenString
  <2> QED
    BY <1>1, <1>6, <2>1
<1> HIDE DEF type, text
<1>7. token'.type = type /\ token'.string = text /\ DOMAIN token' = {"type", "string"}
  BY <1>2
<1>8. scan' = "busy" => state' \in ScannerStates
  BY <1>2, <1>3
<1>9. state' = "in_identifier" => text \in Component
  BY <1>2, <1>3, <1>4, <1>5
<1>10. type = "identifier" => text \in Component
  BY <1>3, <1>6
<1> QED
  BY <1>1, <1>7, <1>8, <1>9, <1>10, Zenon DEF TokenInv

\* The key of a value that was just added.
LEMMA LastKey ==
  ASSUME NEW key, NEW S, values \in Seq(S), AddValue(key)
  PROVE  Last(values').key = key
<1> DEFINE e == [key |-> key, value |-> token_t.string]
<1>1. values' = Append(values, e)
  BY Zenon DEF AddValue
<1>2. e.key = key
  OBVIOUS
<1> HIDE DEF e
<1>3. Len(values') = Len(values) + 1 /\ values'[Len(values) + 1] = e
  BY <1>1
<1> QED
  BY <1>2, <1>3, Zenon DEF Last

LEMMA PathTyped ==
  ASSUME PathFollowsStack, Len(stack) \in Nat \ {0}
  PROVE  path \in Seq(PathChars)
<1>1. PICK paths, names : Leads(paths, names, stack) /\ path = paths[Len(stack)]
  BY Zenon DEF PathFollowsStack, Follows
<1>2. Len(stack) \in 1 .. Len(stack)
  OBVIOUS
<1> QED
  BY <1>1, <1>2, Zenon DEF Leads

\* A scan begins anew.
LEMMA ScanBegins ==
  ASSUME TokenInv, StartScan, token_t' \in {token, token_t}
  PROVE  TokenInv'
<1>1. /\ DOMAIN token = {"type", "string"}
      /\ token.type = "identifier" => token.string \in Component
      /\ token_t.type = "identifier" => token_t.string \in Component
  BY Zenon DEF TokenInv
<1>2. /\ state' = "start" /\ token' = [token EXCEPT !.type = NoToken]
  BY Zenon DEF StartScan
<1>3. DOMAIN token' = {"type", "string"} /\ token'.type # "identifier"
  BY <1>1, <1>2 DEF NoToken
<1>4. state' \in ScannerStates /\ state' # "in_identifier"
  BY <1>2 DEF ScannerStates
<1>5. token_t'.type = "identifier" => token_t'.string \in Component
  BY <1>1
<1> QED
  BY <1>3, <1>4, <1>5, Zenon DEF TokenInv

LEMMA TokenInit == Init => TokenInv
<1> SUFFICES ASSUME Init PROVE TokenInv
  OBVIOUS
<1>1. /\ scan = "ok" /\ token = [type |-> NoToken, string |-> <<>>] /\ token_t = token
  BY DEF Init, LcfgInit, ScannerInit
<1>2. DOMAIN token = {"type", "string"} /\ token.type # "identifier" /\ scan # "busy"
  BY <1>1 DEF NoToken
<1> QED
  BY <1>1, <1>2, Zenon DEF TokenInv

LEMMA TokenStep == TokenInv /\ LcfgNext => TokenInv'
<1> SUFFICES ASSUME TokenInv, LcfgNext PROVE TokenInv'
  OBVIOUS
<1>1. ASSUME UNCHANGED <<state, token, token_t>>, scan' = "busy" => scan = "busy"
      PROVE  TokenInv'
  BY <1>1, Zenon DEF TokenInv
<1>2. CASE OpenFile \/ NextToken
  <2>1. StartScan /\ (token_t' = token_t \/ token_t' = token)
    BY <1>2, Zenon DEF OpenFile, NextToken
  <2> QED
    BY <2>1, ScanBegins
<1>3. CASE OpenFails \/ FirstToken \/ ScanFails \/ Finish
  <2>1. UNCHANGED <<state, token, token_t, scan>>
    BY <1>3, Zenon DEF OpenFails, FirstToken, ScanFails, Finish, scannerVars
  <2> QED
    BY <1>1, <2>1
<1>4. CASE ReadToken
  <2>1. token_t' = token_t
    BY <1>4, Zenon DEF ReadToken, parserVars
  <2>2. CASE FillBuffer
    BY <1>1, <2>1, <2>2, Zenon DEF FillBuffer
  <2>3. CASE ScanChar
    BY <2>1, <2>3, NameStep
  <2>4. CASE EndOfFile
    <3>1. UNCHANGED <<state, token>> /\ scan' # "busy"
      BY <2>4 DEF EndOfFile
    <3> QED
      BY <1>1, <2>1, <3>1
  <2> QED
    BY <1>4, <2>2, <2>3, <2>4, Zenon DEF ReadToken, Scan
<1>5. ASSUME Deal PROVE TokenInv'
  BY <1>1, <1>5, Zenon DEF Deal
<1>6. CASE \/ Name \/ Equals \/ Value \/ OpenList \/ OpenMap \/ CloseMap
           \/ Comma \/ Element \/ Nested \/ CloseList \/ Unexpected
  BY <1>5, <1>6, Zenon DEF Name, Equals, Value, OpenList, OpenMap, CloseMap, Comma, Element,
                           Nested, CloseList, Unexpected
<1> QED
  BY <1>2, <1>3, <1>4, <1>6, Zenon DEF LcfgNext

-----------------------------------------------------------------------------
(* The stack and the path.                                                 *)

\* What the parser does with its stack: the frame on top gets another state,
\* or counts an element, or one is put on top of it, or it is taken away.
LEMMA StackTop ==
  ASSUME StackInv
  PROVE  /\ Len(stack) \in Nat \ {0} /\ Top \in Frames /\ Top = stack[Len(stack)]
         /\ \A k \in 1 .. Len(stack) : stack[k] \in Frames
BY DEF StackInv, Top, Last

LEMMA StateSet ==
  ASSUME StackInv, NEW s \in ParserStates, Becomes(s),
         s # "invalid" => Top.s # "top_level" /\ Top.s # "invalid"
  PROVE  /\ StackInv' /\ Len(stack') = Len(stack)
         /\ \A k \in 1 .. Len(stack) - 1 : stack'[k] = stack[k]
<1>1. /\ Len(stack) \in Nat \ {0} /\ Top \in Frames /\ Top = stack[Len(stack)]
      /\ \A k \in 1 .. Len(stack) : stack[k] \in Frames
  BY StackTop
<1>2. stack \in Seq(Frames) /\ stack[1].s \in {"top_level", "invalid"}
  BY DEF StackInv
<1> DEFINE n == Len(stack)
           top2 == [Top EXCEPT !.s = s]
<1>3. top2 \in Frames /\ top2.s = s
  BY <1>1 DEF Frames
<1>4. stack' = [stack EXCEPT ![n] = top2]
  BY <1>1 DEF Becomes
<1> HIDE DEF top2
<1>5. stack' \in Seq(Frames) /\ Len(stack') = n /\ stack'[n] = top2
      /\ \A k \in 1 .. n - 1 : stack'[k] = stack[k]
  BY <1>1, <1>2, <1>3, <1>4
<1>6. stack'[1].s \in {"top_level", "invalid"}
  <2>1. CASE n = 1
    BY <1>1, <1>2, <1>3, <1>5, <2>1
  <2>2. CASE n # 1
    <3>1. 1 \in 1 .. n - 1
      <4>1. \A m \in Nat \ {0} : m # 1 => 1 \in 1 .. m - 1
        OBVIOUS
      <4> QED
        BY <1>1, <2>2, <4>1, Zenon
    <3> QED
      BY <1>2, <1>5, <3>1
  <2> QED
    BY <2>1, <2>2
<1> QED
  BY <1>1, <1>5, <1>6 DEF StackInv

\* A counting step leaves the state of the frame.
LEMMA Counted ==
  ASSUME StackInv
  PROVE  /\ CountsOn \in Seq(Frames) /\ Len(CountsOn) = Len(stack)
         /\ \A k \in 1 .. Len(stack) - 1 : CountsOn[k] = stack[k]
         /\ CountsOn[Len(stack)].list_counter = Top.list_counter + 1
         /\ CountsOn[Len(stack)].s = Top.s
         /\ CountsOn[1].s = stack[1].s
<1>1. /\ Len(stack) \in Nat \ {0} /\ Top \in Frames /\ Top = stack[Len(stack)]
      /\ \A k \in 1 .. Len(stack) : stack[k] \in Frames
  BY StackTop
<1>2. stack \in Seq(Frames)
  BY DEF StackInv
<1> DEFINE n == Len(stack)
           top2 == [Top EXCEPT !.list_counter = @ + 1]
<1>3. top2 \in Frames /\ top2.s = Top.s /\ top2.list_counter = Top.list_counter + 1
  BY <1>1 DEF Frames
<1>4. CountsOn = [stack EXCEPT ![n] = top2]
  BY <1>1 DEF CountsOn
<1> HIDE DEF top2
<1>5. CountsOn \in Seq(Frames) /\ Len(CountsOn) = n /\ CountsOn[n] = top2
      /\ \A k \in 1 .. n - 1 : CountsOn[k] = stack[k]
  BY <1>1, <1>2, <1>3, <1>4
<1>6. CountsOn[1].s = stack[1].s
  <2>1. CASE n = 1
    BY <1>1, <1>3, <1>5, <2>1
  <2>2. CASE n # 1
    <3>1. 1 \in 1 .. n - 1
      <4>1. \A m \in Nat \ {0} : m # 1 => 1 \in 1 .. m - 1
        OBVIOUS
      <4> QED
        BY <1>1, <2>2, <4>1, Zenon
    <3> QED
      BY <1>5, <3>1
  <2> QED
    BY <2>1, <2>2
<1> QED
  BY <1>3, <1>5, <1>6

LEMMA Pushed ==
  ASSUME NEW st \in Seq(Frames), NEW s \in ParserStates, Len(st) >= 1
  PROVE  /\ Append(st, Frame(s)) \in Seq(Frames) /\ Len(Append(st, Frame(s))) = Len(st) + 1
         /\ \A k \in 1 .. Len(st) : Append(st, Frame(s))[k] = st[k]
<1>1. Frame(s) \in Frames
  BY DEF Frame, Frames
<1> QED
  BY <1>1

LEMMA Popped ==
  ASSUME StackInv, Top.s \notin {"top_level", "invalid"}
  PROVE  /\ Len(stack) >= 2
         /\ Front(stack) \in Seq(Frames) /\ Len(Front(stack)) = Len(stack) - 1
         /\ \A k \in 1 .. Len(stack) - 1 : Front(stack)[k] = stack[k]
<1>1. Len(stack) \in Nat \ {0} /\ Top = stack[Len(stack)] /\ stack \in Seq(Frames)
      /\ stack[1].s \in {"top_level", "invalid"}
  BY StackTop DEF StackInv
<1>2. Len(stack) # 1
  BY <1>1
<1> QED
  BY <1>1, <1>2 DEF Front

LEMMA StackInit == Init => StackInv /\ PathFollowsStack
<1> SUFFICES ASSUME Init PROVE StackInv /\ PathFollowsStack
  OBVIOUS
<1>1. stack = <<Frame("top_level")>> /\ path = <<>>
  BY DEF Init, LcfgInit
<1>2. Frame("top_level") \in Frames /\ Frame("top_level").s = "top_level"
  BY DEF Frame, Frames, ParserStates
<1>3. stack \in Seq(Frames) /\ Len(stack) = 1 /\ stack[1] = Frame("top_level")
  BY <1>1, <1>2
<1>4. StackInv
  BY <1>2, <1>3 DEF StackInv
<1> DEFINE paths == [k \in {1} |-> <<>>]
<1>5. paths[1] = <<>> /\ <<>> \in Seq(PathChars)
  OBVIOUS
<1> HIDE DEF paths
<1>6. \A k \in 1 .. 1 : k = 1
  OBVIOUS
<1>7. 1 .. 1 - 1 = {}
  OBVIOUS
<1>8. Leads(paths, <<>>, stack)
  BY <1>3, <1>5, <1>6, <1>7 DEF Leads
<1> QED
  BY <1>1, <1>3, <1>4, <1>5, <1>8, Zenon DEF PathFollowsStack, Follows

\* What a step of the parser does to its stack and its path.
LEMMA PathStep ==
  ASSUME TokenInv, StackInv, LcfgNext, NEW S, values \in Seq(S)
  PROVE  /\ StackInv'
         /\ PathFollowsStack /\ ShortLists' => PathFollowsStack' /\ NestedKey
<1>1. /\ Len(stack) \in Nat \ {0} /\ Top \in Frames /\ Top = stack[Len(stack)]
      /\ stack \in Seq(Frames) /\ stack[1].s \in {"top_level", "invalid"} /\ Len(stack) >= 1
  BY StackTop DEF StackInv
<1>2. ASSUME StackInv', path' = path, values' = values, Len(stack') = Len(stack),
             \A k \in 1 .. Len(stack) - 1 : stack'[k] = stack[k],
             PathFollowsStack
      PROVE  PathFollowsStack' /\ NestedKey
  <2>1. stack' \in Seq(Frames) /\ Follows(path, stack)
    BY <1>2, Zenon DEF StackInv, PathFollowsStack
  <2>2. Follows(path, stack')
    BY <1>1, <1>2, <2>1, FollowsStay
  <2> QED
    BY <1>2, <2>2, Zenon DEF PathFollowsStack, NestedKey
<1>3. CASE \/ OpenFile \/ OpenFails \/ ReadToken \/ NextToken \/ FirstToken \/ ScanFails
           \/ Finish \/ Comma
  <2>1. UNCHANGED <<stack, path, values>>
    BY <1>3, Zenon DEF OpenFile, OpenFails, ReadToken, NextToken, FirstToken, ScanFails, Finish,
                       Comma, parserVars
  <2>2. StackInv'
    BY <2>1, Zenon DEF StackInv
  <2> QED
    BY <1>2, <2>1, <2>2, Zenon
<1>4. CASE Equals \/ OpenList \/ OpenMap \/ Unexpected
  <2>1. path' = path /\ values' = values
    BY <1>4, Zenon DEF Equals, OpenList, OpenMap, Unexpected
  <2>2. PICK s \in ParserStates :
          Becomes(s) /\ (s # "invalid" => Top.s # "top_level" /\ Top.s # "invalid")
    <3>1. {"exp_value", "in_list", "in_map", "invalid"} \subseteq ParserStates
      BY DEF ParserStates
    <3>2. CASE Equals
      <4>1. Becomes("exp_value") /\ Top.s = "exp_equals"
        BY <3>2, Zenon DEF Equals, In
      <4> QED
        BY <3>1, <4>1
    <3>3. CASE OpenList
      <4>1. Becomes("in_list") /\ Top.s = "exp_value"
        BY <3>3, Zenon DEF OpenList, In
      <4> QED
        BY <3>1, <4>1
    <3>4. CASE OpenMap
      <4>1. Becomes("in_map") /\ Top.s = "exp_value"
        BY <3>4, Zenon DEF OpenMap, In
      <4> QED
        BY <3>1, <4>1
    <3>5. CASE Unexpected
      <4>1. Becomes("invalid")
        BY <3>5, Zenon DEF Unexpected
      <4> QED
        BY <3>1, <4>1
    <3> QED
      BY <1>4, <3>2, <3>3, <3>4, <3>5, Zenon
  <2>3. /\ StackInv' /\ Len(stack') = Len(stack)
        /\ \A k \in 1 .. Len(stack) - 1 : stack'[k] = stack[k]
    BY <2>2, StateSet
  <2> QED
    BY <1>2, <2>1, <2>3, Zenon
<1>5. CASE Name
  <2> DEFINE s == "exp_equals"
  <2>1. /\ In("top_level") \/ In("in_map")
        /\ token_t.type = "identifier"
        /\ path' = Push(path, token_t.string) /\ stack' = Append(stack, Frame(s))
        /\ values' = values
    BY <1>5, Zenon DEF Name, Is
  <2>2. token_t.string \in Component
    BY <2>1, Zenon DEF TokenInv
  <2>3. s \in ParserStates
    BY DEF ParserStates
  <2>4. /\ stack' \in Seq(Frames) /\ Len(stack') = Len(stack) + 1
        /\ \A k \in 1 .. Len(stack) : stack'[k] = stack[k]
    BY <1>1, <2>1, <2>3, Pushed
  <2>5. 1 \in 1 .. Len(stack) /\ Len(stack) \in 1 .. Len(stack) /\ Len(stack) + 1 >= 1
        /\ \A k \in 1 .. Len(stack) - 1 : k \in 1 .. Len(stack)
    BY <1>1
  <2>6. StackInv'
    BY <1>1, <2>4, <2>5, Zenon DEF StackInv
  <2>7. stack'[Len(stack)].s # "in_list"
    BY <1>1, <2>1, <2>4, <2>5 DEF In
  <2>8. ASSUME PathFollowsStack PROVE PathFollowsStack'
    <3>1. Follows(path, stack)
      BY <2>8, Zenon DEF PathFollowsStack
    <3>2. \A k \in 1 .. Len(stack) - 1 : stack'[k] = stack[k]
      BY <2>4, <2>5
    <3>3. Follows(Push(path, token_t.string), stack')
      BY <1>1, <2>2, <2>4, <2>7, <3>1, <3>2, FollowsDown
    <3> QED
      BY <2>1, <3>3, Zenon DEF PathFollowsStack
  <2> QED
    BY <2>1, <2>6, <2>8, Zenon DEF NestedKey
<1>6. ASSUME Top.s \notin {"top_level", "invalid"}, stack' = Front(stack), path' = Pop(path)
      PROVE  StackInv' /\ (PathFollowsStack => PathFollowsStack')
  <2>1. /\ Len(stack) >= 2
        /\ stack' \in Seq(Frames) /\ Len(stack') = Len(stack) - 1
        /\ \A k \in 1 .. Len(stack) - 1 : stack'[k] = stack[k]
    BY <1>6, Popped
  <2>2. 1 \in 1 .. Len(stack) - 1 /\ Len(stack') >= 1
    BY <1>1, <2>1
  <2>3. StackInv'
    BY <1>1, <2>1, <2>2, Zenon DEF StackInv
  <2>4. ASSUME PathFollowsStack PROVE PathFollowsStack'
    <3>1. Follows(path, stack)
      BY <2>4, Zenon DEF PathFollowsStack
    <3>2. Follows(Pop(path), stack')
      BY <1>1, <2>1, <3>1, FollowsUp
    <3> QED
      BY <1>6, <3>2, Zenon DEF PathFollowsStack
  <2> QED
    BY <2>3, <2>4
<1>7. CASE CloseMap \/ CloseList
  <2>1. stack' = Front(stack) /\ path' = Pop(path) /\ values' = values
        /\ (In("in_map") \/ In("in_list"))
    BY <1>7, Zenon DEF CloseMap, CloseList
  <2>2. Top.s \notin {"top_level", "invalid"}
    BY <2>1 DEF In
  <2> QED
    BY <1>6, <2>1, <2>2, Zenon DEF NestedKey
<1>8. CASE Value
  <2>1. stack' = Front(stack) /\ path' = Pop(path) /\ In("exp_value") /\ AddValue(path)
    BY <1>8, Zenon DEF Value
  <2>2. Top.s \notin {"top_level", "invalid"} /\ ~In("in_list")
    BY <2>1 DEF In
  <2>3. Last(values').key = path
    BY <2>1, LastKey
  <2> QED
    BY <1>6, <2>1, <2>2, <2>3, Zenon DEF NestedKey
<1>9. CASE Element
  <2> DEFINE there == PushInt(path, Top.list_counter)
             f == <<Figure[Top.list_counter + 1]>>
  <2>1. In("in_list") /\ AddValue(there) /\ path' = Pop(there) /\ stack' = CountsOn
    BY <1>9, Zenon DEF Element
  <2>2. /\ stack' \in Seq(Frames) /\ Len(stack') = Len(stack)
        /\ \A k \in 1 .. Len(stack) - 1 : stack'[k] = stack[k]
        /\ stack'[Len(stack)].list_counter = Top.list_counter + 1
        /\ stack'[1].s = stack[1].s
    BY <2>1, Counted
  <2>3. StackInv'
    BY <1>1, <2>2, Zenon DEF StackInv
  <2>4. ASSUME PathFollowsStack, ShortLists' PROVE PathFollowsStack' /\ NestedKey
    <3>1. Top.list_counter \in 0 .. 9
      <4>1. Len(stack) \in DOMAIN stack'
        BY <1>1, <2>2
      <4>2. Top.list_counter + 1 <= 10
        BY <2>2, <2>4, <4>1 DEF ShortLists
      <4>3. Top.list_counter \in Nat
        BY <1>1 DEF Frames
      <4>4. \A m \in Nat : m + 1 <= 10 => m \in 0 .. 9
        OBVIOUS
      <4> QED
        BY <4>2, <4>3, <4>4, Zenon
    <3>2. path \in Seq(PathChars)
      BY <1>1, <2>4, PathTyped
    <3>3. f \in Component /\ there = Push(path, f)
      BY <3>1, <3>2, PushIntPushes
    <3>4. Pop(there) = path
      BY <3>2, <3>3, PopUndoesPush
    <3>5. Last(values').key = there
      BY <2>1, LastKey
    <3>6. Follows(path, stack')
      <4>1. Follows(path, stack)
        BY <2>4, Zenon DEF PathFollowsStack
      <4> QED
        BY <1>1, <2>2, <4>1, FollowsStay
    <3> HIDE DEF there
    <3> QED
      BY <2>1, <3>3, <3>4, <3>5, <3>6, Zenon DEF PathFollowsStack, NestedKey
  <2> QED
    BY <2>3, <2>4
<1>10. CASE Nested
  <2> DEFINE s == IF Is("[") THEN "in_list" ELSE "in_map"
             n == Len(stack)
             f == <<Figure[Top.list_counter + 1]>>
  <2>1. path' = PushInt(path, Top.list_counter) /\ stack' = Append(CountsOn, Frame(s))
        /\ values' = values
    BY <1>10, Zenon DEF Nested
  <2>2. /\ CountsOn \in Seq(Frames) /\ Len(CountsOn) = n
        /\ \A k \in 1 .. n - 1 : CountsOn[k] = stack[k]
        /\ CountsOn[n].list_counter = Top.list_counter + 1
        /\ CountsOn[1].s = stack[1].s
    BY Counted
  <2>3. s \in ParserStates
    BY DEF ParserStates
  <2> HIDE DEF s
  <2>4. /\ stack' \in Seq(Frames) /\ Len(stack') = n + 1
        /\ \A k \in 1 .. n : stack'[k] = CountsOn[k]
    BY <1>1, <2>1, <2>2, <2>3, Pushed
  <2>5. n \in 1 .. n /\ 1 \in 1 .. n /\ \A k \in 1 .. n - 1 : k \in 1 .. n
    BY <1>1
  <2>6. /\ \A k \in 1 .. n - 1 : stack'[k] = stack[k]
        /\ stack'[n].list_counter = Top.list_counter + 1
        /\ stack'[1].s = stack[1].s
    BY <2>2, <2>4, <2>5, Zenon
  <2>7. StackInv'
    <3>1. Len(stack') >= 1
      BY <1>1, <2>4
    <3> QED
      BY <1>1, <2>4, <2>6, <3>1, Zenon DEF StackInv
  <2>8. ASSUME PathFollowsStack, ShortLists' PROVE PathFollowsStack'
    <3>1. Top.list_counter \in 0 .. 9
      <4>1. n \in DOMAIN stack'
        BY <1>1, <2>4
      <4>2. Top.list_counter + 1 <= 10
        BY <2>6, <2>8, <4>1 DEF ShortLists
      <4>3. Top.list_counter \in Nat
        BY <1>1 DEF Frames
      <4>4. \A m \in Nat : m + 1 <= 10 => m \in 0 .. 9
        OBVIOUS
      <4> QED
        BY <4>2, <4>3, <4>4, Zenon
    <3>2. path \in Seq(PathChars)
      BY <1>1, <2>8, PathTyped
    <3>3. f \in Component /\ path' = Push(path, f)
      BY <2>1, <3>1, <3>2, PushIntPushes
    <3>4. stack'[n].list_counter \in 1 .. 10 /\ f = <<Figure[stack'[n].list_counter]>>
      BY <2>6, <3>1
    <3>5. Follows(path, stack)
      BY <2>8, Zenon DEF PathFollowsStack
    <3> HIDE DEF f
    <3>6. Follows(Push(path, f), stack')
      BY <1>1, <2>4, <2>6, <3>3, <3>4, <3>5, FollowsDown
    <3> QED
      BY <3>3, <3>6, Zenon DEF PathFollowsStack
  <2> QED
    BY <2>1, <2>7, <2>8, Zenon DEF NestedKey
<1> QED
  BY <1>3, <1>4, <1>5, <1>7, <1>8, <1>9, <1>10, Zenon DEF LcfgNext

(* A name or a number for every level: whatever was parsed before, the     *)
(* path, that is cut at its last dot and extended at every token, leads    *)
(* from the file's level to the one on top of the stack, and the key of a  *)
(* value is that path, or the place in the list behind it; as long as no   *)
(* list has more than ten elements, for the eleventh of which the code     *)
(* finds another number. (lcfg_static.c:309-360, 1003-1130)                *)
THEOREM KeysFollowNesting ==
  Spec => ([]ShortLists => []PathFollowsStack /\ [][NestedKey]_vars)
<1> DEFINE Inv == TokenInv /\ StackInv /\ ConfInv
<1>1. Init => Inv /\ PathFollowsStack
  BY TokenInit, StackInit, ConfInit
<1>2. Inv /\ [Next]_vars =>
        /\ Inv'
        /\ PathFollowsStack /\ ShortLists' => PathFollowsStack' /\ [NestedKey]_vars
  <2> SUFFICES ASSUME Inv, [Next]_vars
               PROVE  /\ Inv'
                      /\ PathFollowsStack /\ ShortLists' => PathFollowsStack' /\ NestedKey
    BY Zenon
  <2>1. ConfInv'
    BY ConfSteps
  <2>2. CASE LcfgNext
    <3>1. PICK S : values \in Seq(S)
      BY Zenon DEF ConfInv
    <3> QED
      BY <2>1, <2>2, <3>1, TokenStep, PathStep
  <2>3. CASE ~LcfgNext
    <3>1. UNCHANGED lcfgVars
      BY <2>3, Zenon DEF Next, Parse, ParseOk, ParseFails, Visit, NoMoreValues, CommandLine,
                         OpenFiles, OpenFilesFails, WriteHeader, CopyByte, Close, CutInput,
                         DiskFull, Terminated, vars
    <3>2. UNCHANGED <<state, token, scan, token_t, stack, path, values>>
      BY <3>1 DEF lcfgVars, scannerVars, parserVars
    <3> QED
      BY <2>1, <3>2, Zenon DEF TokenInv, StackInv, PathFollowsStack, NestedKey
  <2> QED
    BY <2>2, <2>3
<1> HIDE DEF Inv
<1> QED
  BY <1>1, <1>2, PTL DEF Spec

-----------------------------------------------------------------------------
(* The values of the parser.                                               *)

StringStates == {"in_str", "in_esc", "esc_hex_exp_first", "esc_hex_exp_second"}

\* Within a string that begins behind a, s is what was collected up to the
\* place p, but for an escape that is not complete.
Collecting(t, q, h, s, a, p) ==
  \E b \in Nat :
    /\ a <= b /\ Spells(t, s, a, b)
    /\ \/ q = "in_str" /\ p = b
       \/ q = "in_esc" /\ p = b + 1 /\ t[b + 1] = "\\"
       \/ q = "esc_hex_exp_first" /\ p = b + 2 /\ t[b + 1] = "\\" /\ t[b + 2] = "x"
       \/ q = "esc_hex_exp_second" /\ p = b + 3 /\ t[b + 1] = "\\" /\ t[b + 2] = "x"
          /\ h = t[b + 3]

\* The token that is read, or was read last, if it is a string, begins behind e.
TokenBehind(e) ==
  /\ token.type = "string" => \E a \in Nat : e < a /\ InQuotes(Text, token.string, a, Place)
  /\ scan = "busy" /\ state \in StringStates =>
       \E a \in Nat : /\ e < a /\ Text[a] = Quote
                      /\ Collecting(Text, state, hex, token.string, a, Place)

\* The values are strings of the text, one behind the other, the last of
\* which ends at e or before.
InFileOrder(t, vs, e) ==
  \E from, to : \A n \in DOMAIN vs :
    /\ InQuotes(t, vs[n].value, from[n], to[n]) /\ to[n] <= e
    /\ \A m \in 1 .. n - 1 : to[m] < from[n]

ValuesQuoted == source # "directory" => InFileOrder(Text, values, Len(Text))

(* Between the values and the token that is being read lies the one that   *)
(* waits to be dealt with.                                                 *)
ValuesInv ==
  source # "directory" =>
    /\ phase = "open" => token_t.type # "string"
    /\ \E done \in Nat, read \in Nat :
         /\ done <= read /\ read <= Place
         /\ InFileOrder(Text, values, done)
         /\ phase = "scan" /\ token_t.type = "string" =>
              \E a \in Nat : done < a /\ InQuotes(Text, token_t.string, a, read)
         /\ TokenBehind(read)

-----------------------------------------------------------------------------
LEMMA NothingSpelled == ASSUME NEW t, NEW a PROVE Spells(t, <<>>, a, a)
<1> DEFINE cuts == [k \in {0} |-> a]
<1>1. cuts[0] = a /\ Len(<<>>) = 0 /\ 1 .. 0 = {}
  OBVIOUS
<1>2. <<>> \in Seq({})
  OBVIOUS
<1> HIDE DEF cuts
<1> QED
  BY <1>1, <1>2 DEF Spells, SpellsBy

LEMMA OneMoreSpelled ==
  ASSUME NEW t, NEW s, NEW a \in Nat, NEW b \in Nat, NEW c, NEW d, a <= b,
         Spells(t, s, a, b), Stands(t, c, b, d)
  PROVE  Spells(t, Append(s, c), a, d)
<1>1. PICK S : s \in Seq(S)
  BY Zenon DEF Spells
<1>2. PICK cuts : /\ cuts[0] = a /\ cuts[Len(s)] = b
                  /\ \A k \in 1 .. Len(s) :
                       Stands(t, s[k], cuts[k - 1], cuts[k]) /\ cuts[k] \in a .. b
  BY Zenon DEF Spells, SpellsBy
<1> DEFINE n == Len(s)
           s2 == Append(s, c)
           cuts2 == [k \in 0 .. n + 1 |-> IF k = n + 1 THEN d ELSE cuts[k]]
<1>3. n \in Nat /\ Len(s2) = n + 1 /\ s2[n + 1] = c /\ (n + 1) - 1 = n
      /\ \A k \in 1 .. n : s2[k] = s[k]
  BY <1>1
<1>4. s2 \in Seq(S \union {c})
  BY <1>1
<1>5. d \in Nat /\ b < d
  BY DEF Stands
<1> HIDE DEF n, s2
<1>6. /\ cuts2[n + 1] = d /\ cuts2[0] = cuts[0] /\ cuts2[n] = cuts[n]
      /\ \A k \in 1 .. n : cuts2[k] = cuts[k] /\ cuts2[k - 1] = cuts[k - 1]
  BY <1>3
<1> HIDE DEF cuts2
<1>7. ASSUME NEW k \in 1 .. n + 1
      PROVE  Stands(t, s2[k], cuts2[k - 1], cuts2[k]) /\ cuts2[k] \in a .. d
  <2>1. CASE k = n + 1
    <3>1. s2[k] = c /\ cuts2[k] = d
      BY <1>3, <1>6, <2>1
    <3>2. k - 1 = n
      BY <1>3, <2>1
    <3>3. cuts2[k - 1] = b
      BY <1>2, <1>6, <3>2, Zenon DEF n
    <3>4. d \in a .. d
      BY <1>5
    <3> QED
      BY <3>1, <3>3, <3>4, Zenon
  <2>2. CASE k # n + 1
    <3>1. k \in 1 .. n
      BY <1>3, <2>2
    <3>2. \A m \in a .. b : m \in a .. d
      BY <1>5
    <3> QED
      BY <1>2, <1>3, <1>6, <3>1, <3>2, Zenon DEF n
  <2> QED
    BY <2>1, <2>2
<1>8. cuts2[0] = a /\ cuts2[Len(s2)] = d
  BY <1>2, <1>3, <1>6
<1>9. \A k \in 1 .. Len(s2) :
        Stands(t, s2[k], cuts2[k - 1], cuts2[k]) /\ cuts2[k] \in a .. d
  BY <1>3, <1>7, Zenon
<1>10. (\E S2 : s2 \in Seq(S2)) /\ Len(s2) = n + 1
  BY <1>3, <1>4, Zenon
<1> QED
  BY <1>8, <1>9, <1>10, Zenon DEF Spells, SpellsBy, s2

\* What the states of a string do with a character.
LEMMA StringSteps ==
  ASSUME NEW q \in ScannerStates, NEW c, NEW s
  PROVE  /\ TokenType(q, c) = "string" =>
              q = "in_str" /\ c = Quote /\ TokenString(q, c, s) = s
         /\ NextState(q, c) \in StringStates =>
              /\ TokenType(q, c) # "identifier"
              /\ \/ /\ q = "start" /\ c = Quote /\ NextState(q, c) = "in_str"
                    /\ TokenString(q, c, s) = <<>>
                 \/ /\ q = "in_str" /\ c \notin {Quote, "\\"} /\ NextState(q, c) = "in_str"
                    /\ TokenString(q, c, s) = Append(s, c)
                 \/ /\ q = "in_str" /\ c = "\\" /\ NextState(q, c) = "in_esc"
                    /\ TokenString(q, c, s) = s
                 \/ /\ q = "in_esc" /\ c \in DOMAIN Escapes /\ NextState(q, c) = "in_str"
                    /\ TokenString(q, c, s) = Append(s, Escapes[c])
                 \/ /\ q = "in_esc" /\ c = "x" /\ NextState(q, c) = "esc_hex_exp_first"
                    /\ TokenString(q, c, s) = s
                 \/ /\ q = "esc_hex_exp_first" /\ NextState(q, c) = "esc_hex_exp_second"
                    /\ TokenString(q, c, s) = s
                 \/ /\ q = "esc_hex_exp_second" /\ NextState(q, c) = "in_str"
                    /\ TokenString(q, c, s) = Append(s, HexChar(hex, c))
<1>1. Quote # "\\" /\ "x" \notin DOMAIN Escapes /\ Quote \notin Blank \union Punctuation
      /\ Quote \notin Alpha /\ "string" \notin Punctuation \union {"identifier", NoToken}
      /\ "identifier" \notin Punctuation \union {NoToken}
  BY DEF Quote, Escapes, Blank, Punctuation, Alpha, NoToken
<1>2. CASE q = "start"
  <2>1. TokenType("start", c) \in Punctuation \union {NoToken}
    BY DEF TokenType
  <2>2. NextState("start", c) =
          IF c \in Blank \union Punctuation THEN "start"
          ELSE IF c \in Alpha THEN "in_identifier"
          ELSE OneOf(c, [x \in {"/", Quote} |-> IF x = Quote THEN "in_str" ELSE "comm_start"],
                     "invalid")
    BY Zenon DEF NextState
  <2>3. NextState("start", c) \in StringStates => c = Quote /\ NextState("start", c) = "in_str"
    BY <2>2 DEF StringStates, OneOf
  <2>4. TokenString("start", Quote, s) = <<>>
    BY <1>1 DEF TokenString
  <2> QED
    BY <1>1, <1>2, <2>1, <2>3, <2>4, Zenon
<1>3. CASE q = "in_str"
  <2>1. TokenType("in_str", c) = IF c = Quote THEN "string" ELSE NoToken
    BY DEF TokenType
  <2>2. NextState("in_str", c) =
          OneOf(c, [x \in {Quote, "\\"} |-> IF x = Quote THEN "start" ELSE "in_esc"], "in_str")
    BY DEF NextState
  <2>3. NextState("in_str", c) =
          IF c = Quote THEN "start" ELSE IF c = "\\" THEN "in_esc" ELSE "in_str"
    BY <1>1, <2>2 DEF OneOf
  <2>4. TokenString("in_str", c, s) = IF c \notin {Quote, "\\"} THEN Append(s, c) ELSE s
    BY DEF TokenString
  <2> QED
    BY <1>1, <1>3, <2>1, <2>3, <2>4 DEF StringStates, NoToken
<1>4. CASE q = "in_esc"
  <2>1. TokenType("in_esc", c) = NoToken
    BY DEF TokenType
  <2>2. NextState("in_esc", c) = IF c \in DOMAIN Escapes THEN "in_str"
                                 ELSE IF c = "x" THEN "esc_hex_exp_first" ELSE "invalid"
    BY DEF NextState
  <2>3. TokenString("in_esc", c, s) = IF c \in DOMAIN Escapes THEN Append(s, Escapes[c]) ELSE s
    BY DEF TokenString
  <2> HIDE DEF Escapes
  <2> QED
    BY <1>1, <1>4, <2>1, <2>2, <2>3 DEF StringStates, NoToken
<1>5. CASE q \in {"esc_hex_exp_first", "esc_hex_exp_second"}
  <2>1. TokenType(q, c) = NoToken
    BY <1>5 DEF TokenType
  <2>2. /\ NextState("esc_hex_exp_first", c) = "esc_hex_exp_second"
        /\ NextState("esc_hex_exp_second", c) = "in_str"
    BY DEF NextState
  <2>3. /\ TokenString("esc_hex_exp_first", c, s) = s
        /\ TokenString("esc_hex_exp_second", c, s) = Append(s, HexChar(hex, c))
    BY DEF TokenString
  <2> QED
    BY <1>5, <2>1, <2>2, <2>3 DEF StringStates, NoToken
<1>6. CASE q \in {"comm_start", "in_oneline", "in_multiline", "multiline_end"}
  <2>1. TokenType(q, c) # "string"
    BY <1>6 DEF TokenType, NoToken
  <2>2. /\ NextState("comm_start", c) \notin StringStates
        /\ NextState("multiline_end", c) \notin StringStates
    BY DEF NextState, OneOf, StringStates
  <2>3. /\ NextState("in_oneline", c) \notin StringStates
        /\ NextState("in_multiline", c) \notin StringStates
    BY DEF NextState, StringStates
  <2> QED
    BY <1>6, <2>1, <2>2, <2>3
<1>7. CASE q = "in_identifier"
  <2>1. TokenType(q, c) # "string"
    BY <1>7 DEF TokenType, NoToken
  <2>2. NextState("in_identifier", c) \notin StringStates
    BY DEF NextState, StringStates
  <2> QED
    BY <1>7, <2>1, <2>2
<1> QED
  BY <1>2, <1>3, <1>4, <1>5, <1>6, <1>7 DEF ScannerStates

\* One character more of a string that begins with the quote at a.
LEMMA CollectAt ==
  ASSUME NEW t, NEW a \in Nat \ {0}, NEW p \in Nat, p < Len(t), Len(t) \in Nat,
         NEW q \in StringStates, NEW s, NEW c, c = t[p + 1],
         t[a] = Quote, Collecting(t, q, hex, s, a, p)
  PROVE  /\ TokenType(q, c) = "string" => InQuotes(t, TokenString(q, c, s), a, p + 1)
         /\ NextState(q, c) \in StringStates =>
              Collecting(t, NextState(q, c), IF q = "esc_hex_exp_first" THEN c ELSE hex,
                         TokenString(q, c, s), a, p + 1)
<1> DEFINE next == NextState(q, c)
           text == TokenString(q, c, s)
           h == IF q = "esc_hex_exp_first" THEN c ELSE hex
<1>1. /\ TokenType(q, c) = "string" => q = "in_str" /\ c = Quote /\ text = s
      /\ next \in StringStates =>
           \/ q = "start" /\ c = Quote /\ next = "in_str" /\ text = <<>>
           \/ q = "in_str" /\ c \notin {Quote, "\\"} /\ next = "in_str" /\ text = Append(s, c)
           \/ q = "in_str" /\ c = "\\" /\ next = "in_esc" /\ text = s
           \/ q = "in_esc" /\ c \in DOMAIN Escapes /\ next = "in_str"
              /\ text = Append(s, Escapes[c])
           \/ q = "in_esc" /\ c = "x" /\ next = "esc_hex_exp_first" /\ text = s
           \/ q = "esc_hex_exp_first" /\ next = "esc_hex_exp_second" /\ text = s
           \/ q = "esc_hex_exp_second" /\ next = "in_str" /\ text = Append(s, HexChar(hex, c))
  <2> q \in ScannerStates
    BY DEF StringStates, ScannerStates
  <2> QED
    BY StringSteps
<1> HIDE DEF next, text
<1>2. a \in Nat /\ 0 < a /\ t[a] = Quote /\ Collecting(t, q, hex, s, a, p)
  OBVIOUS
<1>3. PICK b \in Nat :
        /\ a <= b /\ Spells(t, s, a, b)
        /\ \/ q = "in_str" /\ p = b
           \/ q = "in_esc" /\ p = b + 1 /\ t[b + 1] = "\\"
           \/ q = "esc_hex_exp_first" /\ p = b + 2 /\ t[b + 1] = "\\" /\ t[b + 2] = "x"
           \/ q = "esc_hex_exp_second" /\ p = b + 3 /\ t[b + 1] = "\\" /\ t[b + 2] = "x"
              /\ hex = t[b + 3]
  BY <1>2, Zenon DEF Collecting
<1>4. ASSUME TokenType(q, c) = "string" PROVE InQuotes(t, text, a, p + 1)
  <2>1. q = "in_str" /\ c = Quote /\ text = s
    BY <1>1, <1>4
  <2>2. p = b
    BY <1>3, <2>1
  <2>3. (p + 1) - 1 = p /\ p + 1 \in 1 .. Len(t) /\ a < p + 1 /\ a \in 1 .. Len(t)
    BY <1>2, <1>3, <2>2
  <2> QED
    BY <1>2, <1>3, <2>1, <2>2, <2>3, Zenon DEF InQuotes
<1>5. ASSUME NEW d, NEW x, Stands(t, d, b, p + 1), text = Append(s, d), next = "in_str"
      PROVE  Collecting(t, next, x, text, a, p + 1)
  <2>1. Spells(t, text, a, p + 1)
    BY <1>3, <1>5, OneMoreSpelled
  <2>2. p + 1 \in Nat /\ a <= p + 1
    BY <1>3
  <2> QED
    BY <1>5, <2>1, <2>2, Zenon DEF Collecting
<1>6. ASSUME next \in StringStates PROVE Collecting(t, next, h, text, a, p + 1)
  <2>1. CASE q = "in_str"
    <3>1. p = b
      BY <1>3, <2>1
    <3>2. CASE c = "\\"
      <4>1. next = "in_esc" /\ text = s
        BY <1>1, <1>6, <2>1, <3>2
      <4> QED
        BY <1>3, <3>1, <3>2, <4>1, Zenon DEF Collecting
    <3>3. CASE c # "\\"
      <4>1. c \notin {Quote, "\\"} /\ next = "in_str" /\ text = Append(s, c)
        BY <1>1, <1>6, <2>1, <3>3
      <4>2. Stands(t, c, b, p + 1)
        BY <3>1, <4>1, Zenon DEF Stands
      <4> QED
        BY <1>5, <4>1, <4>2
    <3> QED
      BY <3>2, <3>3
  <2>2. CASE q = "in_esc"
    <3>1. p = b + 1 /\ t[b + 1] = "\\" /\ p + 1 = b + 2
      BY <1>3, <2>2
    <3>2. CASE c \in DOMAIN Escapes /\ next = "in_str" /\ text = Append(s, Escapes[c])
      <4>1. Stands(t, Escapes[c], b, p + 1)
        BY <3>1, <3>2, Zenon DEF Stands
      <4> QED
        BY <1>5, <3>2, <4>1
    <3>3. CASE c = "x" /\ next = "esc_hex_exp_first" /\ text = s
      BY <1>3, <3>1, <3>3, Zenon DEF Collecting
    <3> QED
      BY <1>1, <1>6, <2>2, <3>2, <3>3
  <2>3. CASE q = "esc_hex_exp_first"
    <3>1. p = b + 2 /\ t[b + 1] = "\\" /\ t[b + 2] = "x" /\ p + 1 = b + 3
      BY <1>3, <2>3
    <3>2. next = "esc_hex_exp_second" /\ text = s /\ h = c
      BY <1>1, <1>6, <2>3
    <3> HIDE DEF h
    <3>3. h = t[b + 3]
      BY <3>1, <3>2
    <3> QED
      BY <1>3, <3>1, <3>2, <3>3, Zenon DEF Collecting
  <2>4. CASE q = "esc_hex_exp_second"
    <3>1. p = b + 3 /\ t[b + 1] = "\\" /\ t[b + 2] = "x" /\ hex = t[b + 3] /\ p + 1 = b + 4
      BY <1>3, <2>4
    <3>2. next = "in_str" /\ text = Append(s, HexChar(hex, c))
      BY <1>1, <1>6, <2>4
    <3>3. Stands(t, HexChar(hex, c), b, p + 1)
      BY <3>1, Zenon DEF Stands
    <3> QED
      BY <1>5, <3>2, <3>3
  <2> QED
    BY <2>1, <2>2, <2>3, <2>4 DEF StringStates
<1> QED
  BY <1>2, <1>4, <1>6, Zenon DEF next, text, h

\* One character more of a string, or of what is not.
LEMMA CollectOne ==
  ASSUME NEW t, NEW e \in Nat, NEW p \in Nat, e <= p, p < Len(t), Len(t) \in Nat,
         NEW q \in ScannerStates, NEW s, NEW c, c = t[p + 1],
         q \in StringStates =>
           \E a \in Nat : e < a /\ t[a] = Quote /\ Collecting(t, q, hex, s, a, p)
  PROVE  /\ TokenType(q, c) = "string" =>
              \E a \in Nat : e < a /\ InQuotes(t, TokenString(q, c, s), a, p + 1)
         /\ NextState(q, c) \in StringStates =>
              \E a \in Nat :
                /\ e < a /\ t[a] = Quote
                /\ Collecting(t, NextState(q, c), IF q = "esc_hex_exp_first" THEN c ELSE hex,
                              TokenString(q, c, s), a, p + 1)
<1> DEFINE next == NextState(q, c)
           text == TokenString(q, c, s)
           h == IF q = "esc_hex_exp_first" THEN c ELSE hex
<1>1. /\ TokenType(q, c) = "string" => q = "in_str" /\ c = Quote /\ text = s
      /\ next \in StringStates =>
           \/ q = "start" /\ c = Quote /\ next = "in_str" /\ text = <<>>
           \/ q = "in_str" /\ c \notin {Quote, "\\"} /\ next = "in_str" /\ text = Append(s, c)
           \/ q = "in_str" /\ c = "\\" /\ next = "in_esc" /\ text = s
           \/ q = "in_esc" /\ c \in DOMAIN Escapes /\ next = "in_str"
              /\ text = Append(s, Escapes[c])
           \/ q = "in_esc" /\ c = "x" /\ next = "esc_hex_exp_first" /\ text = s
           \/ q = "esc_hex_exp_first" /\ next = "esc_hex_exp_second" /\ text = s
           \/ q = "esc_hex_exp_second" /\ next = "in_str" /\ text = Append(s, HexChar(hex, c))
  BY StringSteps
<1> HIDE DEF next, text
<1>2. {"in_str", "in_esc", "esc_hex_exp_first", "esc_hex_exp_second"} = StringStates
  BY DEF StringStates
\* The quote that begins a string.
<1>3. CASE next \in StringStates /\ q = "start"
  <2>1. c = Quote /\ next = "in_str" /\ text = <<>>
    BY <1>1, <1>3
  <2>2. Spells(t, text, p + 1, p + 1)
    BY <2>1, NothingSpelled
  <2>3. p + 1 \in Nat /\ e < p + 1 /\ p + 1 <= p + 1
    OBVIOUS
  <2>4. Collecting(t, next, h, text, p + 1, p + 1)
    BY <2>1, <2>2, <2>3, Zenon DEF Collecting
  <2>5. TokenType(q, c) # "string"
    BY <1>1, <1>3
  <2> QED
    BY <2>1, <2>3, <2>4, <2>5, Zenon DEF next, text, h
<1>4. CASE q \in StringStates
  <2>1. PICK a \in Nat : e < a /\ t[a] = Quote /\ Collecting(t, q, hex, s, a, p)
    BY <1>4
  <2>2. a \in Nat \ {0}
    BY <2>1
  <2>3. /\ TokenType(q, c) = "string" => InQuotes(t, text, a, p + 1)
        /\ next \in StringStates => Collecting(t, next, h, text, a, p + 1)
    BY <1>4, <2>1, <2>2, CollectAt DEF next, text
  <2> QED
    BY <2>1, <2>3, Zenon DEF next, text, h
<1>5. CASE q \notin StringStates /\ ~(next \in StringStates /\ q = "start")
  BY <1>1, <1>2, <1>5, Zenon DEF next
<1> QED
  BY <1>3, <1>4, <1>5

LEMMA PlaceTyped == ASSUME BufferInv, source # "directory" PROVE Place \in 0 .. Len(Text)
<1>1. /\ fpos \in 0 .. Len(Text) /\ size \in 0 .. BUFFER_SIZE /\ offset \in 0 .. BUFFER_SIZE
      /\ size <= fpos
      /\ size > 0 => offset <= size
  BY Zenon DEF BufferInv
<1>2. Len(Text) \in Nat /\ BUFFER_SIZE \in Nat \ {0}
  BY TextLength, ScannerAssumption
<1> QED
  BY <1>1, <1>2 DEF Place, UsedUp

\* Which a step of the scanner takes from the file.
LEMMA ScanOne ==
  ASSUME BufferInv, TokenInv, ScanChar, source # "directory",
         NEW e \in Nat, e <= Place, TokenBehind(e)
  PROVE  TokenBehind(e)' /\ e <= Place' /\ Text' = Text
<1>1. /\ Place < Len(Text) /\ Char = Text[Place + 1]
      /\ Place' = IF Consumed(state, Char) THEN Place + 1 ELSE Place
  BY OneCharacter
<1>2. /\ scan = "busy" /\ file' = file
      /\ state' = NextState(state, Char)
      /\ token' = [type |-> TokenType(state, Char),
                   string |-> TokenString(state, Char, token.string)]
      /\ hex' = IF state = "esc_hex_exp_first" THEN Char ELSE hex
  BY Zenon DEF ScanChar
<1>3. Text' = Text /\ Len(Text) \in Nat
  BY <1>2, TextLength DEF Text
<1>4. Place \in Nat
  BY PlaceTyped
<1>5. state \in ScannerStates
  BY <1>2, Zenon DEF TokenInv
<1> DEFINE c == Char
           s == token.string
           t == Text
           p == Place
           h2 == IF state = "esc_hex_exp_first" THEN c ELSE hex
<1>6. state \in StringStates =>
        \E a \in Nat : e < a /\ t[a] = Quote /\ Collecting(t, state, hex, s, a, p)
  BY <1>2, Zenon DEF TokenBehind
<1>7. token'.type = TokenType(state, c) /\ token'.string = TokenString(state, c, s)
  BY <1>2
<1>8. TokenType(state, c) = "string" \/ NextState(state, c) \in StringStates =>
        TokenType(state, c) # "identifier"
  BY <1>5, StringSteps
<1>9. TokenType(state, c) # "identifier" => Place' = p + 1
  BY <1>1 DEF Consumed
<1>10. e <= Place'
  BY <1>1, <1>4
<1>11. c = t[p + 1] /\ p < Len(t) /\ p \in Nat /\ Len(t) \in Nat
  BY <1>1, <1>3, <1>4
<1> HIDE DEF c, s, t, p
<1>12. e <= p
  BY DEF p
<1>13. /\ TokenType(state, c) = "string" =>
            \E a \in Nat : e < a /\ InQuotes(t, TokenString(state, c, s), a, p + 1)
       /\ NextState(state, c) \in StringStates =>
            \E a \in Nat : /\ e < a /\ t[a] = Quote
                           /\ Collecting(t, NextState(state, c), h2,
                                         TokenString(state, c, s), a, p + 1)
  BY <1>5, <1>6, <1>11, <1>12, CollectOne
<1>14. hex' = h2 /\ state' = NextState(state, c) /\ Text' = t
  BY <1>2, <1>3, Zenon DEF c, t
<1> HIDE DEF h2
<1>15. token'.type = "string" =>
         \E a \in Nat : e < a /\ InQuotes(Text', token'.string, a, Place')
  BY <1>7, <1>8, <1>9, <1>13, <1>14, Zenon
<1>16. state' \in StringStates =>
         \E a \in Nat : /\ e < a /\ Text'[a] = Quote
                        /\ Collecting(Text', state', hex', token'.string, a, Place')
  BY <1>7, <1>8, <1>9, <1>13, <1>14, Zenon
<1> QED
  BY <1>3, <1>10, <1>15, <1>16, Zenon DEF TokenBehind

\* A value more, behind the others.
LEMMA OneMoreInOrder ==
  ASSUME NEW t, NEW S, NEW vs \in Seq(S), NEW done \in Nat, InFileOrder(t, vs, done),
         NEW v, NEW a \in Nat, NEW b, done < a, InQuotes(t, v.value, a, b)
  PROVE  InFileOrder(t, Append(vs, v), b)
<1>1. PICK from, to : \A n \in DOMAIN vs :
        /\ InQuotes(t, vs[n].value, from[n], to[n]) /\ to[n] <= done
        /\ \A m \in 1 .. n - 1 : to[m] < from[n]
  BY Zenon DEF InFileOrder
<1> DEFINE n == Len(vs)
           vs2 == Append(vs, v)
           from2 == [k \in 1 .. n + 1 |-> IF k = n + 1 THEN a ELSE from[k]]
           to2 == [k \in 1 .. n + 1 |-> IF k = n + 1 THEN b ELSE to[k]]
<1>2. /\ n \in Nat /\ DOMAIN vs = 1 .. n /\ DOMAIN vs2 = 1 .. n + 1 /\ vs2[n + 1] = v
      /\ \A k \in 1 .. n : vs2[k] = vs[k]
  <2>1. vs2 \in Seq(S \union {v})
    OBVIOUS
  <2> QED
    BY <2>1
<1> HIDE DEF n, vs2
<1>3. /\ from2[n + 1] = a /\ to2[n + 1] = b
      /\ \A k \in 1 .. n : from2[k] = from[k] /\ to2[k] = to[k]
  BY <1>2
<1> HIDE DEF from2, to2
<1>4. b \in Nat /\ a < b /\ done < b
  <2>1. b \in 1 .. Len(t) /\ a < b
    BY Zenon DEF InQuotes
  <2>2. b \in Int
    BY <2>1
  <2> QED
    BY <2>1, <2>2
<1>5. ASSUME NEW k \in 1 .. n PROVE to[k] \in Int /\ to[k] <= done
  <2>1. InQuotes(t, vs[k].value, from[k], to[k]) /\ to[k] <= done
    BY <1>1, <1>2, Zenon
  <2>2. to[k] \in 1 .. Len(t)
    BY <2>1, Zenon DEF InQuotes
  <2> QED
    BY <2>1, <2>2
<1>6. ASSUME NEW k \in 1 .. n + 1
      PROVE  /\ InQuotes(t, vs2[k].value, from2[k], to2[k]) /\ to2[k] <= b
             /\ \A m \in 1 .. k - 1 : to2[m] < from2[k]
  <2>1. CASE k = n + 1
    <3>1. vs2[k] = v /\ from2[k] = a /\ to2[k] = b
      BY <1>2, <1>3, <2>1, Zenon
    <3>2. b <= b
      BY <1>4
    <3>3. ASSUME NEW m \in 1 .. k - 1 PROVE to2[m] < from2[k]
      <4>1. m \in 1 .. n
        BY <1>2, <2>1
      <4>2. to2[m] = to[m] /\ to[m] \in Int /\ to[m] <= done
        BY <1>3, <1>5, <4>1
      <4> QED
        BY <3>1, <4>2
    <3> QED
      BY <3>1, <3>2, <3>3, Zenon
  <2>2. CASE k # n + 1
    <3>1. k \in 1 .. n /\ \A m \in 1 .. k - 1 : m \in 1 .. n
      BY <1>2, <2>2
    <3>2. vs2[k] = vs[k] /\ from2[k] = from[k] /\ to2[k] = to[k]
      BY <1>2, <1>3, <3>1, Zenon
    <3>3. to[k] <= b
      BY <1>4, <1>5, <3>1
    <3>4. \A m \in 1 .. k - 1 : to2[m] = to[m]
      BY <1>3, <3>1, Zenon
    <3> QED
      BY <1>1, <1>2, <3>1, <3>2, <3>3, <3>4, Zenon
  <2> QED
    BY <2>1, <2>2
<1> QED
  BY <1>2, <1>6, Zenon DEF InFileOrder, vs2

LEMMA StillInOrder ==
  ASSUME NEW t, NEW vs, NEW d, NEW e, InFileOrder(t, vs, d), d \in Nat, e \in Nat, d <= e
  PROVE  InFileOrder(t, vs, e)
<1>1. PICK from, to : \A n \in DOMAIN vs :
        /\ InQuotes(t, vs[n].value, from[n], to[n]) /\ to[n] <= d
        /\ \A m \in 1 .. n - 1 : to[m] < from[n]
  BY Zenon DEF InFileOrder
<1>2. ASSUME NEW n \in DOMAIN vs PROVE to[n] <= e
  <2>1. to[n] \in 1 .. Len(t) /\ to[n] <= d
    BY <1>1, Zenon DEF InQuotes
  <2>2. to[n] \in Int
    BY <2>1
  <2> QED
    BY <2>1, <2>2
<1> QED
  BY <1>1, <1>2, Zenon DEF InFileOrder

LEMMA ValuesInit == Init => ValuesInv
<1> SUFFICES ASSUME Init PROVE ValuesInv
  OBVIOUS
<1>1. /\ file \in Files /\ fpos = 0 /\ offset = 0 /\ size = 0
      /\ phase = "open" /\ scan = "ok" /\ values = <<>>
      /\ token = [type |-> NoToken, string |-> <<>>] /\ token_t = token
  BY DEF Init, LcfgInit, ScannerInit
<1>2. token.type = NoToken /\ token_t.type = NoToken /\ NoToken # "string"
  BY <1>1 DEF NoToken
<1>3. Place = 0
  BY <1>1 DEF Place, UsedUp
<1>4. DOMAIN values = {}
  BY <1>1
<1>5. InFileOrder(Text, values, 0)
  BY <1>4, Zenon DEF InFileOrder
<1>6. TokenBehind(0)
  BY <1>1, <1>2 DEF TokenBehind
<1>7. 0 \in Nat /\ 0 <= 0 /\ 0 <= Place /\ phase # "scan"
  BY <1>1, <1>3
<1> QED
  BY <1>2, <1>5, <1>6, <1>7, Zenon DEF ValuesInv

\* The parser takes a token over, or deals with it.
LEMMA ValuesStep ==
  ASSUME BufferInv, TokenInv, ValuesInv, NEW S, values \in Seq(S), LcfgNext,
         source # "directory"
  PROVE  ValuesInv'
<1>1. PICK done \in Nat, read \in Nat :
        /\ done <= read /\ read <= Place
        /\ InFileOrder(Text, values, done)
        /\ phase = "scan" /\ token_t.type = "string" =>
             \E a \in Nat : done < a /\ InQuotes(Text, token_t.string, a, read)
        /\ TokenBehind(read)
  BY Zenon DEF ValuesInv
<1>2. phase = "open" => token_t.type # "string"
  BY Zenon DEF ValuesInv
<1>3. Place \in Nat
  BY PlaceTyped, TextLength
\* A step that leaves the parser's values, and the token that it keeps.
<1>4. ASSUME Text' = Text, values' = values, token_t' = token_t,
             phase' = "scan" => phase = "scan" \/ token_t.type # "string", phase' # "open",
             TokenBehind(read)', read <= Place'
      PROVE  ValuesInv'
  <2>1. InFileOrder(Text', values', done)
    BY <1>1, <1>4, Zenon
  <2>2. phase' = "scan" /\ token_t'.type = "string" =>
          \E a \in Nat : done < a /\ InQuotes(Text', token_t'.string, a, read)
    BY <1>1, <1>4, Zenon
  <2> QED
    BY <1>1, <1>4, <2>1, <2>2, Zenon DEF ValuesInv
\* A step of the parser does not read.
<1>5. ASSUME ~ReadToken
      PROVE  Text' = Text /\ Place' = Place /\ source' = source
  <2>1. UNCHANGED bufferVars
    BY <1>5, OwnSteps
  <2> QED
    BY <2>1, BufferStays DEF bufferVars, Text
<1>6. ASSUME ~ReadToken, StartScan, NEW e \in Nat PROVE TokenBehind(e)'
  <2>1. DOMAIN token = {"type", "string"}
    BY Zenon DEF TokenInv
  <2>2. token' = [token EXCEPT !.type = NoToken] /\ state' = "start"
    BY <1>6, Zenon DEF StartScan
  <2>3. token'.type # "string" /\ state' \notin StringStates
    BY <2>1, <2>2 DEF NoToken, StringStates
  <2> QED
    BY <2>3, Zenon DEF TokenBehind
<1>7. ASSUME ~ReadToken, UNCHANGED <<state, hex, token, scan>> PROVE TokenBehind(read)'
  BY <1>1, <1>5, <1>7, Zenon DEF TokenBehind
<1>8. CASE OpenFile
  <2>1. ~ReadToken /\ StartScan /\ phase = "open" /\ phase' = "scan"
        /\ values' = values /\ token_t' = token_t
    BY <1>8 DEF OpenFile, ReadToken
  <2>2. TokenBehind(read)' /\ read <= Place' /\ Text' = Text /\ phase' # "open"
    BY <1>1, <1>5, <1>6, <2>1
  <2> QED
    BY <1>2, <1>4, <2>1, <2>2, Zenon
<1>9. CASE OpenFails \/ ScanFails \/ Finish
  <2>1. phase' = "done" /\ UNCHANGED <<state, hex, token, scan, values, token_t>>
    BY <1>9, Zenon DEF OpenFails, ScanFails, Finish, scannerVars
  <2>2. ~ReadToken
    BY <1>9 DEF OpenFails, ScanFails, Finish, ReadToken, parserVars
  <2>3. TokenBehind(read)' /\ read <= Place' /\ Text' = Text
    BY <1>1, <1>5, <1>7, <2>1, <2>2
  <2>4. phase' # "open" /\ phase' # "scan"
    BY <2>1
  <2> QED
    BY <1>4, <2>1, <2>3, <2>4, Zenon
<1>10. CASE ReadToken
  <2>1. UNCHANGED <<phase, values, token_t>> /\ phase = "scan" /\ Scan
    BY <1>10, Zenon DEF ReadToken, parserVars
  <2>2. TokenBehind(read)' /\ read <= Place' /\ Text' = Text
    <3>1. CASE ScanChar
      BY <1>1, <3>1, ScanOne
    <3>2. CASE FillBuffer \/ EndOfFile
      <4>1. Place' = Place
        BY <3>2, OneRead, AtTheEnd
      <4>2. UNCHANGED <<file, state, hex, token>> /\ (scan' = "busy" => scan = "busy")
        BY <3>2, Zenon DEF FillBuffer, EndOfFile
      <4>3. Text' = Text
        BY <4>2 DEF Text
      <4> QED
        BY <1>1, <4>1, <4>2, <4>3, Zenon DEF TokenBehind
    <3> QED
      BY <2>1, <3>1, <3>2, Zenon DEF Scan
  <2>3. phase' = "scan" /\ phase' # "open"
    BY <2>1
  <2> QED
    BY <1>4, <2>1, <2>2, <2>3, Zenon
<1>11. CASE FirstToken
  <2>1. phase' = "parse" /\ UNCHANGED <<state, hex, token, scan, values, token_t>>
    BY <1>11, Zenon DEF FirstToken, scannerVars
  <2>2. ~ReadToken
    <3>1. phase = "scan"
      BY <1>11, Zenon DEF FirstToken
    <3> QED
      BY <2>1, <3>1 DEF ReadToken, parserVars
  <2>3. TokenBehind(read)' /\ read <= Place' /\ Text' = Text
    BY <1>1, <1>5, <1>7, <2>1, <2>2
  <2>4. phase' # "open" /\ phase' # "scan"
    BY <2>1
  <2> QED
    BY <1>4, <2>1, <2>3, <2>4, Zenon
<1>12. CASE NextToken
  <2>1. StartScan /\ phase = "parse" /\ phase' = "scan" /\ values' = values /\ token_t' = token
    BY <1>12, Zenon DEF NextToken
  <2>2. ~ReadToken
    BY <2>1 DEF ReadToken
  <2>3. Text' = Text /\ Place' = Place
    BY <1>5, <2>2
  <2>4. TokenBehind(Place)'
    <3>1. DOMAIN token = {"type", "string"}
      BY Zenon DEF TokenInv
    <3>2. token' = [token EXCEPT !.type = NoToken] /\ state' = "start"
      BY <2>1, Zenon DEF StartScan
    <3>3. token'.type # "string" /\ state' \notin StringStates
      BY <3>1, <3>2 DEF NoToken, StringStates
    <3> QED
      BY <3>3, Zenon DEF TokenBehind
  <2>5. InFileOrder(Text', values', read)
    BY <1>1, <2>1, <2>3, StillInOrder
  <2>6. token_t'.type = "string" =>
          \E a \in Nat : read < a /\ InQuotes(Text', token_t'.string, a, Place)
    BY <1>1, <2>1, <2>3, Zenon DEF TokenBehind
  <2>7. Place <= Place' /\ phase' # "open"
    BY <1>3, <2>1, <2>3
  <2> QED
    BY <1>1, <1>3, <2>3, <2>4, <2>5, <2>6, <2>7, Zenon DEF ValuesInv
<1>13. ASSUME Deal
       PROVE  /\ ~ReadToken /\ phase = "scan" /\ phase' # "open" /\ phase' # "scan"
              /\ token_t' = token_t
              /\ TokenBehind(read)' /\ read <= Place' /\ Text' = Text
  <2>1. phase = "scan" /\ phase' = "parse" /\ UNCHANGED <<state, hex, token, scan, token_t>>
    BY <1>13, Zenon DEF Deal
  <2>2. ~ReadToken
    BY <2>1 DEF ReadToken, parserVars
  <2>3. TokenBehind(read)' /\ read <= Place' /\ Text' = Text
    BY <1>1, <1>5, <1>7, <2>1, <2>2
  <2> QED
    BY <2>1, <2>2, <2>3
<1>14. CASE \/ Name \/ Equals \/ OpenList \/ OpenMap \/ CloseMap \/ Comma \/ Nested
            \/ CloseList \/ Unexpected
  <2>1. Deal /\ values' = values
    BY <1>14, Zenon DEF Name, Equals, OpenList, OpenMap, CloseMap, Comma, Nested, CloseList,
                        Unexpected
  <2> QED
    BY <1>4, <1>13, <2>1, Zenon
<1>15. CASE Value \/ Element
  <2>1. PICK key : Deal /\ AddValue(key) /\ token_t.type = "string"
    BY <1>15, Zenon DEF Value, Element, Is
  <2> DEFINE v == [key |-> key, value |-> token_t.string]
  <2>2. values' = Append(values, v)
    BY <2>1, Zenon DEF AddValue
  <2>3. v.value = token_t.string
    OBVIOUS
  <2> HIDE DEF v
  <2>4. PICK a \in Nat : done < a /\ InQuotes(Text, token_t.string, a, read)
    BY <1>1, <1>13, <2>1, Zenon
  <2>5. InFileOrder(Text, Append(values, v), read)
    BY <1>1, <2>3, <2>4, OneMoreInOrder
  <2>6. InFileOrder(Text', values', read)
    BY <1>13, <2>1, <2>2, <2>5, Zenon
  <2>7. read <= read
    OBVIOUS
  <2> QED
    BY <1>13, <2>1, <2>6, <2>7, Zenon DEF ValuesInv
<1> QED
  BY <1>8, <1>9, <1>10, <1>11, <1>12, <1>14, <1>15, Zenon DEF LcfgNext

(* Each value the parser finds is a string between two quotes of the file, *)
(* every character of which stands for itself or is the result of its      *)
(* escape; the values are found in the order of the file, and none twice:  *)
(* whatever the file, the size of the buffer and the pieces a pipe         *)
(* delivers it in. (lcfg_static.c:483-800, 941-1118)                       *)
THEOREM ValuesStandInFile == Spec => []ValuesQuoted
<1> DEFINE Inv == ReadInv /\ TokenInv /\ ConfInv /\ ValuesInv
<1>1. Init => Inv
  BY ReadInit, TokenInit, ConfInit, ValuesInit
<1>2. Inv /\ [Next]_vars => Inv'
  <2> SUFFICES ASSUME Inv, [Next]_vars PROVE Inv'
    OBVIOUS
  <2>1. ReadInv' /\ ConfInv'
    BY ReadStep, ConfSteps
  <2>2. CASE LcfgNext
    <3>1. PICK S : values \in Seq(S)
      BY Zenon DEF ConfInv
    <3>2. BufferInv
      BY Zenon DEF ReadInv
    <3>3. source' = source
      <4>1. CASE ReadToken
        BY <4>1, Zenon DEF ReadToken, Scan, FillBuffer, ScanChar, EndOfFile
      <4>2. CASE ~ReadToken
        <5>1. UNCHANGED bufferVars
          BY <2>2, <4>2, OwnSteps
        <5> QED
          BY <5>1 DEF bufferVars
      <4> QED
        BY <4>1, <4>2
    <3>4. ValuesInv'
      BY <2>2, <3>1, <3>2, <3>3, ValuesStep, Zenon DEF ValuesInv
    <3> QED
      BY <2>1, <2>2, <3>4, TokenStep
  <2>3. CASE ~LcfgNext
    <3>1. UNCHANGED lcfgVars
      BY <2>3, Zenon DEF Next, Parse, ParseOk, ParseFails, Visit, NoMoreValues, CommandLine,
                         OpenFiles, OpenFilesFails, WriteHeader, CopyByte, Close, CutInput,
                         DiskFull, Terminated, vars
    <3>2. /\ UNCHANGED <<file, source, state, hex, token, scan, token_t, phase, values>>
          /\ Place' = Place
      BY <3>1, StaysOut DEF lcfgVars, scannerVars, bufferVars, parserVars
    <3>3. Text' = Text
      BY <3>2 DEF Text
    <3> QED
      BY <2>1, <3>2, <3>3, Zenon DEF TokenInv, ValuesInv, TokenBehind
  <2> QED
    BY <2>2, <2>3
<1>3. Inv => ValuesQuoted
  <2> SUFFICES ASSUME Inv, source # "directory" PROVE InFileOrder(Text, values, Len(Text))
    BY DEF ValuesQuoted
  <2>1. PICK done \in Nat, read \in Nat :
          done <= read /\ read <= Place /\ InFileOrder(Text, values, done)
    BY Zenon DEF ValuesInv
  <2>2. Place \in 0 .. Len(Text) /\ Len(Text) \in Nat
    BY PlaceTyped, TextLength DEF ReadInv
  <2>3. done <= Len(Text)
    BY <2>1, <2>2
  <2> QED
    BY <2>1, <2>2, <2>3, StillInOrder
<1> HIDE DEF Inv
<1> QED
  BY <1>1, <1>2, <1>3, PTL DEF Spec

-----------------------------------------------------------------------------
\* What a level of the document can be.
Kinds == {"top_level", "in_list", "in_map"}

\* The stack has the frames of the document's levels, and one for an entry
\* that has begun.
Shape(c, stk) ==
  /\ (\E S : c.levels \in Seq(S)) /\ Len(c.levels) >= 1
  /\ c.expects \in {"entry", "equals", "value"}
  /\ Len(stk) = IF c.expects = "entry" THEN Len(c.levels) ELSE Len(c.levels) + 1
  /\ \A k \in 1 .. Len(c.levels) : c.levels[k].kind \in Kinds /\ stk[k].s = c.levels[k].kind
  /\ c.expects = "equals" => stk[Len(stk)].s = "exp_equals"
  /\ c.expects = "value" => stk[Len(stk)].s = "exp_value"

\* The counters, the path and the values are those of the document too, and
\* to cut the path off leads one level up.
Keyed(c, stk, p, vs) ==
  /\ vs = c.values
  /\ p = IF c.expects = "entry" THEN Inner(c).path ELSE c.key
  /\ \A k \in 1 .. Len(c.levels) :
       /\ stk[k].list_counter = c.levels[k].n /\ c.levels[k].path \in Seq(PathChars)
       /\ k > 1 => Pop(c.levels[k].path) = c.levels[k - 1].path
  /\ c.expects # "entry" =>
       /\ stk[Len(stk)].list_counter = 0
       /\ c.key \in Seq(PathChars) /\ Pop(c.key) = Inner(c).path

\* The parser deals with the token that waits in token_t.
Dealing ==
  \/ Name \/ Equals \/ Value \/ OpenList \/ OpenMap \/ CloseMap
  \/ Comma \/ Element \/ Nested \/ CloseList \/ Unexpected

\* The token tok is the one of the lexeme x.
Matches(x, tok) ==
  x.type = tok.type /\ (x.type \in {"identifier", "string"} => x.string = tok.string)

\* The tokens that the code expects are those that the grammar allows.
LEMMA ExpectedAllowed ==
  ASSUME StackInv, NEW c, Shape(c, stack)
  PROVE  Allowed(c) = Expected(Top.s) /\ Top.s # "invalid"
<1>1. Len(stack) \in Nat \ {0} /\ Top = stack[Len(stack)]
  BY StackTop
<1>2. Len(c.levels) \in 1 .. Len(c.levels)
  BY DEF Shape
<1>3. /\ Expected("exp_equals") = Follow["equals"] /\ Expected("exp_value") = Follow["value"]
      /\ \A kind \in Kinds : Expected(kind) = Follow[kind] /\ kind # "invalid"
  BY DEF Expected, Follow, Kinds
<1>4. CASE c.expects = "equals"
  <2>1. Top.s = "exp_equals" /\ Allowed(c) = Follow["equals"]
    BY <1>1, <1>4 DEF Shape, Allowed
  <2> QED
    BY <1>3, <2>1
<1>5. CASE c.expects = "value"
  <2>1. Top.s = "exp_value" /\ Allowed(c) = Follow["value"]
    BY <1>1, <1>5 DEF Shape, Allowed
  <2> QED
    BY <1>3, <2>1
<1>6. CASE c.expects = "entry"
  <2>1. Len(stack) = Len(c.levels) /\ Allowed(c) = Follow[Inner(c).kind]
    BY <1>6 DEF Shape, Allowed
  <2>2. Top.s = Inner(c).kind /\ Inner(c).kind \in Kinds
    BY <1>1, <1>2, <2>1, Zenon DEF Shape, Inner
  <2> QED
    BY <1>3, <2>1, <2>2, Zenon
<1> QED
  BY <1>4, <1>5, <1>6 DEF Shape

\* The levels with an element more.
LEMMA Counting ==
  ASSUME NEW c, NEW S, c.levels \in Seq(S), Len(c.levels) >= 1
  PROVE  /\ \E S2 : OneMore(c) \in Seq(S2)
         /\ Len(OneMore(c)) = Len(c.levels)
         /\ \A k \in 1 .. Len(c.levels) :
              /\ OneMore(c)[k].kind = c.levels[k].kind /\ OneMore(c)[k].path = c.levels[k].path
              /\ OneMore(c)[k].n = IF c.expects # "value" /\ k = Len(c.levels)
                                   THEN c.levels[k].n + 1 ELSE c.levels[k].n
<1> DEFINE m == Len(c.levels)
           new == Level(Inner(c).kind, Inner(c).path, Inner(c).n + 1)
<1>1. m \in Nat /\ m >= 1
  OBVIOUS
<1>2. new.kind = Inner(c).kind /\ new.path = Inner(c).path /\ new.n = Inner(c).n + 1
  BY DEF Level
<1>3. CASE c.expects = "value"
  <2>1. OneMore(c) = c.levels
    BY <1>3 DEF OneMore
  <2> QED
    BY <1>3, <2>1
<1>4. CASE c.expects # "value"
  <2>1. OneMore(c) = [k \in 1 .. m |-> IF k < m THEN c.levels[k] ELSE new]
    BY <1>4, Zenon DEF OneMore
  <2> HIDE DEF new
  <2>2. OneMore(c) \in Seq(S \union {new}) /\ Len(OneMore(c)) = m
    BY <1>1, <2>1
  <2>3. \A k \in 1 .. m : OneMore(c)[k] = IF k < m THEN c.levels[k] ELSE new
    BY <2>1
  <2>4. ASSUME NEW k \in 1 .. m
        PROVE  /\ OneMore(c)[k].kind = c.levels[k].kind /\ OneMore(c)[k].path = c.levels[k].path
               /\ OneMore(c)[k].n = IF k = m THEN c.levels[k].n + 1 ELSE c.levels[k].n
    <3>1. CASE k = m
      <4>1. ~(k < m)
        BY <1>1, <3>1
      <4>2. OneMore(c)[k] = new
        BY <2>3, <4>1
      <4> QED
        BY <1>2, <3>1, <4>2, Zenon DEF Inner
    <3>2. CASE k # m
      <4>1. k < m
        BY <1>1, <3>2
      <4> QED
        BY <2>3, <3>2, <4>1
    <3> QED
      BY <3>1, <3>2
  <2> QED
    BY <1>4, <2>2, <2>4
<1> QED
  BY <1>3, <1>4

\* What a lexeme does to the document.
LEMMA AfterFacts ==
  ASSUME NEW c, NEW x
  PROVE  /\ x.type = "identifier" =>
              After(c, x) = Config(c.levels, "equals", Push(Inner(c).path, x.string), c.values)
         /\ x.type = "=" => After(c, x) = Config(c.levels, "value", c.key, c.values)
         /\ x.type = "string" =>
              After(c, x) = Config(OneMore(c), "entry", c.key,
                                   Append(c.values, [key |-> NextKey(c), value |-> x.string]))
         /\ x.type = "[" =>
              After(c, x) = Config(Append(OneMore(c), Level("in_list", NextKey(c), 0)),
                                   "entry", c.key, c.values)
         /\ x.type = "{" =>
              After(c, x) = Config(Append(OneMore(c), Level("in_map", NextKey(c), 0)),
                                   "entry", c.key, c.values)
         /\ x.type \in {"]", "}"} =>
              After(c, x) = Config(Front(c.levels), "entry", c.key, c.values)
         /\ x.type = "," => After(c, x) = c
<1> DEFINE ty == x.type
           e1 == Config(c.levels, "equals", Push(Inner(c).path, x.string), c.values)
           e2 == Config(c.levels, "value", c.key, c.values)
           e3 == Config(OneMore(c), "entry", c.key,
                        Append(c.values, [key |-> NextKey(c), value |-> x.string]))
           e4 == Config(Append(OneMore(c), Level("in_list", NextKey(c), 0)),
                        "entry", c.key, c.values)
           e5 == Config(Append(OneMore(c), Level("in_map", NextKey(c), 0)),
                        "entry", c.key, c.values)
           e6 == Config(Front(c.levels), "entry", c.key, c.values)
           r == After(c, x)
<1>1. r = CASE ty = "identifier" -> e1 [] ty = "=" -> e2 [] ty = "string" -> e3
            [] ty = "[" -> e4 [] ty = "{" -> e5 [] ty \in {"]", "}"} -> e6
            [] ty = "," -> c
  BY Zenon DEF After
<1> HIDE DEF ty, e1, e2, e3, e4, e5, e6, r
<1>2. ty = "identifier" => r = e1
  BY <1>1
<1>3. ty = "=" => r = e2
  BY <1>1
<1>4. ty = "string" => r = e3
  BY <1>1
<1>5. ty = "[" => r = e4
  BY <1>1
<1>6. ty = "{" => r = e5
  BY <1>1
<1>7. ty \in {"]", "}"} => r = e6
  BY <1>1
<1>8. ty = "," => r = c
  BY <1>1
<1> QED
  BY <1>2, <1>3, <1>4, <1>5, <1>6, <1>7, <1>8, Zenon DEF ty, e1, e2, e3, e4, e5, e6, r

\* The fields of a document and of a level.
LEMMA ConfigFields ==
  ASSUME NEW a, NEW b, NEW d, NEW e
  PROVE  /\ Config(a, b, d, e).levels = a /\ Config(a, b, d, e).expects = b
         /\ Config(a, b, d, e).key = d /\ Config(a, b, d, e).values = e
BY DEF Config

\* What the frame on top says of what stands next.
LEMMA TopExpects ==
  ASSUME StackInv, NEW c, Shape(c, stack)
  PROVE  /\ Top.s = "exp_equals" => c.expects = "equals"
         /\ Top.s = "exp_value" => c.expects = "value"
         /\ Top.s \in Kinds => c.expects = "entry"
         /\ c.expects = "entry" => Top = stack[Len(c.levels)] /\ Top.s = Inner(c).kind
         /\ Len(c.levels) \in Nat \ {0} /\ Len(c.levels) \in 1 .. Len(c.levels)
<1>1. Len(stack) \in Nat \ {0} /\ Top = stack[Len(stack)]
  BY StackTop
<1>2. Len(c.levels) \in Nat \ {0} /\ Len(c.levels) \in 1 .. Len(c.levels)
  BY DEF Shape
<1>3. /\ "exp_equals" \notin Kinds /\ "exp_value" \notin Kinds /\ "exp_equals" # "exp_value"
      /\ "equals" # "value" /\ "entry" # "equals" /\ "entry" # "value"
  BY DEF Kinds
<1>4. c.expects = "equals" => Top.s = "exp_equals"
  BY <1>1, Zenon DEF Shape
<1>5. c.expects = "value" => Top.s = "exp_value"
  BY <1>1, Zenon DEF Shape
<1>6. c.expects = "entry" =>
        Top = stack[Len(c.levels)] /\ Top.s = Inner(c).kind /\ Top.s \in Kinds
  <2> SUFFICES ASSUME c.expects = "entry"
               PROVE  Top = stack[Len(c.levels)] /\ Top.s = Inner(c).kind /\ Top.s \in Kinds
    OBVIOUS
  <2>1. Len(stack) = Len(c.levels)
    BY DEF Shape
  <2> QED
    BY <1>1, <1>2, <2>1, Zenon DEF Shape, Inner
<1>7. c.expects \in {"entry", "equals", "value"}
  BY Zenon DEF Shape
<1> QED
  BY <1>2, <1>3, <1>4, <1>5, <1>6, <1>7

\* The name of an entry opens it.
LEMMA NameOpens ==
  ASSUME StackInv, NEW c, Shape(c, stack), c.expects = "entry", NEW key,
         stack' = Append(stack, Frame("exp_equals"))
  PROVE  /\ Shape(Config(c.levels, "equals", key, c.values), stack')
         /\ Keyed(c, stack, path, values) /\ key \in Seq(PathChars) /\ Pop(key) = path
              => Keyed(Config(c.levels, "equals", key, c.values), stack', key, values)
<1> DEFINE c2 == Config(c.levels, "equals", key, c.values)
           m == Len(c.levels)
<1>1. /\ c2.levels = c.levels /\ c2.expects = "equals" /\ c2.key = key /\ c2.values = c.values
      /\ Inner(c2) = Inner(c)
  BY ConfigFields DEF Inner
<1>2. m \in Nat \ {0} /\ Len(stack) = m /\ stack \in Seq(Frames)
  BY DEF Shape, StackInv
<1>3. Frame("exp_equals").s = "exp_equals" /\ Frame("exp_equals").list_counter = 0
  BY DEF Frame
<1> DEFINE f == Frame("exp_equals")
<1> HIDE DEF c2, f
<1>4. Len(stack') = m + 1 /\ stack'[m + 1] = f /\ \A k \in 1 .. m : stack'[k] = stack[k]
  BY <1>2 DEF f
<1> HIDE DEF m
<1>5. Shape(c2, stack')
  <2>1. c2.expects # "entry" /\ c2.expects # "value" /\ c2.expects \in {"entry", "equals", "value"}
    BY <1>1
  <2>2. /\ \E S : c2.levels \in Seq(S)
        /\ Len(c2.levels) >= 1 /\ Len(stack') = Len(c2.levels) + 1
    BY <1>1, <1>4, Zenon DEF Shape, m
  <2>3. \A k \in 1 .. Len(c2.levels) :
          c2.levels[k].kind \in Kinds /\ stack'[k].s = c2.levels[k].kind
    BY <1>1, <1>4, Zenon DEF Shape, m
  <2>4. stack'[Len(stack')].s = "exp_equals"
    BY <1>3, <1>4, Zenon DEF f
  <2> QED
    BY <2>1, <2>2, <2>3, <2>4, Zenon DEF Shape
<1>6. ASSUME Keyed(c, stack, path, values), key \in Seq(PathChars), Pop(key) = path
      PROVE  Keyed(c2, stack', key, values)
  <2>1. values = c.values /\ path = Inner(c).path
    BY <1>6, Zenon DEF Keyed
  <2>2. \A k \in 1 .. Len(c2.levels) :
          /\ stack'[k].list_counter = c2.levels[k].n /\ c2.levels[k].path \in Seq(PathChars)
          /\ k > 1 => Pop(c2.levels[k].path) = c2.levels[k - 1].path
    BY <1>1, <1>4, <1>6, Zenon DEF Keyed, m
  <2>3. c2.expects # "entry"
    BY <1>1
  <2>4. stack'[Len(stack')].list_counter = 0
    BY <1>3, <1>4, Zenon DEF f
  <2> QED
    BY <1>1, <1>6, <2>1, <2>2, <2>3, <2>4, Zenon DEF Keyed
<1> QED
  BY <1>5, <1>6 DEF c2

\* The frame on top of an entry that has begun gets another state.
LEMMA TopBecomes ==
  ASSUME StackInv, NEW s, Becomes(s)
  PROVE  /\ Len(stack') = Len(stack)
         /\ stack'[Len(stack)].s = s
         /\ stack'[Len(stack)].list_counter = stack[Len(stack)].list_counter
         /\ \A k \in 1 .. Len(stack) - 1 : stack'[k] = stack[k]
<1>1. /\ Len(stack) \in Nat \ {0} /\ Top \in Frames /\ Top = stack[Len(stack)]
  BY StackTop
<1> DEFINE n == Len(stack)
           top2 == [Top EXCEPT !.s = s]
<1>2. top2.s = s /\ top2.list_counter = Top.list_counter
  BY <1>1 DEF Frames
<1>3. stack' = [stack EXCEPT ![n] = top2]
  BY <1>1 DEF Becomes
<1>4. stack \in Seq(Frames)
  BY DEF StackInv
<1> HIDE DEF top2
<1>5. Len(stack') = n /\ stack'[n] = top2 /\ \A k \in 1 .. n - 1 : stack'[k] = stack[k]
  BY <1>1, <1>3, <1>4
<1> QED
  BY <1>1, <1>2, <1>5, Zenon

\* Behind the equals sign its value is expected.
LEMMA EqualsOpens ==
  ASSUME StackInv, NEW c, Shape(c, stack), c.expects = "equals", Becomes("exp_value")
  PROVE  /\ Shape(Config(c.levels, "value", c.key, c.values), stack')
         /\ Keyed(c, stack, path, values)
              => Keyed(Config(c.levels, "value", c.key, c.values), stack', path, values)
<1> DEFINE c2 == Config(c.levels, "value", c.key, c.values)
           m == Len(c.levels)
<1>1. /\ c2.levels = c.levels /\ c2.expects = "value" /\ c2.key = c.key /\ c2.values = c.values
      /\ Inner(c2) = Inner(c)
  BY ConfigFields DEF Inner
<1>2. m \in Nat \ {0} /\ Len(stack) = m + 1
  BY DEF Shape
<1> HIDE DEF c2
<1>3. /\ Len(stack') = Len(stack) /\ stack'[Len(stack)].s = "exp_value"
      /\ stack'[Len(stack)].list_counter = stack[Len(stack)].list_counter
      /\ \A k \in 1 .. Len(stack) - 1 : stack'[k] = stack[k]
  BY TopBecomes
<1>4. \A k \in 1 .. m : stack'[k] = stack[k]
  BY <1>2, <1>3
<1> HIDE DEF m
<1>5. /\ c.expects # "entry" /\ c2.expects # "entry" /\ c2.expects # "equals"
      /\ c2.expects \in {"entry", "equals", "value"}
  BY <1>1
<1>6. Shape(c2, stack')
  <2>1. /\ \E S : c2.levels \in Seq(S)
        /\ Len(c2.levels) >= 1 /\ Len(stack') = Len(c2.levels) + 1
    BY <1>1, <1>2, <1>3, Zenon DEF Shape, m
  <2>2. \A k \in 1 .. Len(c2.levels) :
          c2.levels[k].kind \in Kinds /\ stack'[k].s = c2.levels[k].kind
    BY <1>1, <1>4, Zenon DEF Shape, m
  <2>3. stack'[Len(stack')].s = "exp_value"
    BY <1>3, Zenon
  <2> QED
    BY <1>5, <2>1, <2>2, <2>3, Zenon DEF Shape
<1>7. ASSUME Keyed(c, stack, path, values) PROVE Keyed(c2, stack', path, values)
  <2>1. /\ values = c.values /\ path = c.key /\ stack[Len(stack)].list_counter = 0
        /\ c.key \in Seq(PathChars) /\ Pop(c.key) = Inner(c).path
    BY <1>5, <1>7, Zenon DEF Keyed
  <2>2. \A k \in 1 .. Len(c2.levels) :
          /\ stack'[k].list_counter = c2.levels[k].n /\ c2.levels[k].path \in Seq(PathChars)
          /\ k > 1 => Pop(c2.levels[k].path) = c2.levels[k - 1].path
    BY <1>1, <1>4, <1>7, Zenon DEF Keyed, m
  <2> QED
    BY <1>1, <1>3, <1>5, <2>1, <2>2, Zenon DEF Keyed
<1> QED
  BY <1>6, <1>7 DEF c2

\* The string of an entry.
LEMMA ValueEnds ==
  ASSUME StackInv, NEW c, Shape(c, stack), c.expects = "value", stack' = Front(stack), NEW vs
  PROVE  /\ Shape(Config(c.levels, "entry", c.key, vs), stack')
         /\ Keyed(c, stack, path, values)
              => Keyed(Config(c.levels, "entry", c.key, vs), stack', Pop(path), vs)
<1> DEFINE c2 == Config(c.levels, "entry", c.key, vs)
           m == Len(c.levels)
<1>1. /\ c2.levels = c.levels /\ c2.expects = "entry" /\ c2.values = vs
      /\ Inner(c2) = Inner(c)
  BY ConfigFields DEF Inner
<1>2. m \in Nat \ {0} /\ Len(stack) = m + 1 /\ stack \in Seq(Frames)
  BY DEF Shape, StackInv
<1> HIDE DEF c2
<1>3. Len(stack') = m /\ \A k \in 1 .. m : stack'[k] = stack[k]
  BY <1>2 DEF Front
<1> HIDE DEF m
<1>4. /\ c.expects # "entry" /\ c2.expects # "value" /\ c2.expects # "equals"
      /\ c2.expects \in {"entry", "equals", "value"}
  BY <1>1
<1>5. Shape(c2, stack')
  <2>1. /\ \E S : c2.levels \in Seq(S)
        /\ Len(c2.levels) >= 1 /\ Len(stack') = Len(c2.levels)
    BY <1>1, <1>3, Zenon DEF Shape, m
  <2>2. \A k \in 1 .. Len(c2.levels) :
          c2.levels[k].kind \in Kinds /\ stack'[k].s = c2.levels[k].kind
    BY <1>1, <1>3, Zenon DEF Shape, m
  <2> QED
    BY <1>1, <1>4, <2>1, <2>2, Zenon DEF Shape
<1>6. ASSUME Keyed(c, stack, path, values) PROVE Keyed(c2, stack', Pop(path), vs)
  <2>1. path = c.key /\ Pop(c.key) = Inner(c).path
    BY <1>4, <1>6, Zenon DEF Keyed
  <2>2. \A k \in 1 .. Len(c2.levels) :
          /\ stack'[k].list_counter = c2.levels[k].n /\ c2.levels[k].path \in Seq(PathChars)
          /\ k > 1 => Pop(c2.levels[k].path) = c2.levels[k - 1].path
    BY <1>1, <1>3, <1>6, Zenon DEF Keyed, m
  <2> QED
    BY <1>1, <2>1, <2>2, Zenon DEF Keyed
<1> QED
  BY <1>5, <1>6 DEF c2

\* One more level on top.
LEMMA LevelAdded ==
  ASSUME NEW S, NEW lv \in Seq(S), NEW x
  PROVE  /\ \E S2 : Append(lv, x) \in Seq(S2)
         /\ Len(Append(lv, x)) = Len(lv) + 1 /\ Append(lv, x)[Len(lv) + 1] = x
         /\ \A k \in 1 .. Len(lv) : Append(lv, x)[k] = lv[k]
<1>1. lv \in Seq(S \union {x}) /\ Append(lv, x) \in Seq(S \union {x})
  OBVIOUS
<1> QED
  BY <1>1

\* A list or a map as the value of an entry opens a level in its place.
LEMMA ListOrMapOpens ==
  ASSUME StackInv, NEW c, Shape(c, stack), c.expects = "value",
         NEW kind \in {"in_list", "in_map"}, Becomes(kind),
         NEW c2, c2 = Config(Append(OneMore(c), Level(kind, NextKey(c), 0)), "entry",
                             c.key, c.values)
  PROVE  /\ Shape(c2, stack')
         /\ Keyed(c, stack, path, values) => Keyed(c2, stack', path, values)
<1> DEFINE m == Len(c.levels)
           new == Level(kind, c.key, 0)
<1>1. /\ c2.levels = Append(c.levels, new) /\ c2.expects = "entry" /\ c2.values = c.values
  <2>1. OneMore(c) = c.levels /\ NextKey(c) = c.key
    BY DEF OneMore, NextKey
  <2>2. c2 = Config(Append(c.levels, new), "entry", c.key, c.values)
    BY <2>1
  <2> QED
    BY <2>2 DEF Config
<1>2. m \in Nat \ {0} /\ Len(stack) = m + 1 /\ \E S : c.levels \in Seq(S)
  BY DEF Shape
<1>3. new.kind = kind /\ new.path = c.key /\ new.n = 0 /\ kind \in Kinds
  BY DEF Level, Kinds
<1> HIDE DEF new
<1>4. /\ \E S : c2.levels \in Seq(S)
      /\ Len(c2.levels) = m + 1 /\ c2.levels[m + 1] = new
      /\ \A k \in 1 .. m : c2.levels[k] = c.levels[k]
  <2>1. PICK S : c.levels \in Seq(S)
    BY <1>2
  <2> DEFINE lv == Append(c.levels, new)
  <2>2. /\ \E S2 : lv \in Seq(S2)
        /\ Len(lv) = m + 1 /\ lv[m + 1] = new
        /\ \A k \in 1 .. m : lv[k] = c.levels[k]
    BY <2>1, LevelAdded
  <2> QED
    BY <1>1, <2>2, Zenon
<1>5. Inner(c2) = new
  BY <1>4, Zenon DEF Inner
<1>6. /\ Len(stack') = m + 1 /\ stack'[m + 1].s = kind
      /\ stack'[m + 1].list_counter = stack[Len(stack)].list_counter
      /\ \A k \in 1 .. m : stack'[k] = stack[k]
  <2>1. \A k \in 1 .. m : k \in 1 .. Len(stack) - 1
    BY <1>2
  <2> QED
    BY <1>2, <2>1, TopBecomes, Zenon
<1>7. m \in 1 .. m /\ (m + 1) - 1 = m
      /\ \A k \in 1 .. m + 1 : k = m + 1 \/ (k \in 1 .. m /\ (k > 1 => k - 1 \in 1 .. m))
  BY <1>2
<1> HIDE DEF m
<1>8. Shape(c2, stack')
  <2>1. ASSUME NEW k \in 1 .. m + 1
        PROVE  c2.levels[k].kind \in Kinds /\ stack'[k].s = c2.levels[k].kind
    <3>1. CASE k = m + 1
      BY <1>3, <1>4, <1>6, <3>1, Zenon
    <3>2. CASE k \in 1 .. m
      BY <1>4, <1>6, <3>2, Zenon DEF Shape, m
    <3> QED
      BY <1>7, <3>1, <3>2
  <2>2. m + 1 >= 1 /\ c2.expects \in {"entry", "equals", "value"}
        /\ c2.expects # "value" /\ c2.expects # "equals"
    BY <1>1, <1>2
  <2> QED
    BY <1>1, <1>4, <1>6, <2>1, <2>2, Zenon DEF Shape
<1>9. ASSUME Keyed(c, stack, path, values) PROVE Keyed(c2, stack', path, values)
  <2>1. c.expects # "entry"
    OBVIOUS
  <2>2. /\ values = c.values /\ path = c.key /\ stack[Len(stack)].list_counter = 0
        /\ c.key \in Seq(PathChars) /\ Pop(c.key) = c.levels[m].path
    BY <1>9, <2>1, Zenon DEF Keyed, Inner, m
  <2>3. ASSUME NEW k \in 1 .. m + 1
        PROVE  /\ stack'[k].list_counter = c2.levels[k].n
               /\ c2.levels[k].path \in Seq(PathChars)
               /\ k > 1 => Pop(c2.levels[k].path) = c2.levels[k - 1].path
    <3>1. CASE k = m + 1
      BY <1>3, <1>4, <1>6, <1>7, <2>2, <3>1, Zenon
    <3>2. CASE k \in 1 .. m
      BY <1>4, <1>6, <1>7, <1>9, <3>2, Zenon DEF Keyed, m
    <3> QED
      BY <1>7, <3>1, <3>2
  <2> QED
    BY <1>1, <1>3, <1>4, <1>5, <2>2, <2>3, Zenon DEF Keyed
<1> QED
  BY <1>8, <1>9

\* The levels without the inner one.
LEMMA LevelGone ==
  ASSUME NEW S, NEW lv \in Seq(S), Len(lv) >= 2
  PROVE  /\ Front(lv) \in Seq(S) /\ Len(Front(lv)) = Len(lv) - 1
         /\ \A k \in 1 .. Len(lv) - 1 : Front(lv)[k] = lv[k]
BY DEF Front

\* The numbers of the levels around the m-th one.
LEMMA Lower ==
  ASSUME NEW m \in Nat, m >= 2
  PROVE  /\ m - 1 \in Nat \ {0} /\ m - 1 \in 1 .. m - 1 /\ m \in 1 .. m /\ m > 1
         /\ \A k \in 1 .. m - 1 : k \in 1 .. m /\ (k > 1 => k - 1 \in 1 .. m - 1)
OBVIOUS

\* The end of a list or a map closes its level.
LEMMA ListOrMapCloses ==
  ASSUME StackInv, NEW c, Shape(c, stack), c.expects = "entry", Inner(c).kind # "top_level",
         stack' = Front(stack), NEW c2, c2 = Config(Front(c.levels), "entry", c.key, c.values)
  PROVE  /\ Shape(c2, stack')
         /\ Keyed(c, stack, path, values) => Keyed(c2, stack', Pop(path), values)
<1> DEFINE m == Len(c.levels)
<1>1. c2.levels = Front(c.levels) /\ c2.expects = "entry" /\ c2.values = c.values
  BY ConfigFields
<1>2. m \in Nat \ {0} /\ Len(stack) = m
  BY DEF Shape
<1>3. PICK S : c.levels \in Seq(S)
  BY Zenon DEF Shape
<1>4. Top.s = Inner(c).kind /\ Inner(c).kind \in Kinds
  <2>1. Len(c.levels) \in 1 .. Len(c.levels)
    BY <1>2
  <2> QED
    BY <2>1, TopExpects, Zenon DEF Shape, Inner
<1>5. /\ m >= 2 /\ Len(stack') = m - 1
      /\ \A k \in 1 .. m - 1 : stack'[k] = stack[k]
  <2>1. Top.s \notin {"top_level", "invalid"}
    BY <1>4 DEF Kinds
  <2> QED
    BY <1>2, <2>1, Popped
<1>6. /\ c2.levels \in Seq(S) /\ Len(c2.levels) = m - 1
      /\ \A k \in 1 .. m - 1 : c2.levels[k] = c.levels[k]
  <2>1. /\ Front(c.levels) \in Seq(S) /\ Len(Front(c.levels)) = m - 1
        /\ \A k \in 1 .. m - 1 : Front(c.levels)[k] = c.levels[k]
    BY <1>3, <1>5, LevelGone
  <2> QED
    BY <1>1, <2>1, Zenon
<1>7. /\ m - 1 \in Nat \ {0} /\ m - 1 \in 1 .. m - 1 /\ m \in 1 .. m /\ m > 1
      /\ \A k \in 1 .. m - 1 : k \in 1 .. m /\ (k > 1 => k - 1 \in 1 .. m - 1)
  <2>1. m \in Nat
    BY <1>2
  <2> QED
    BY <1>5, <2>1, Lower, Zenon
<1> HIDE DEF m
<1>8. Shape(c2, stack')
  <2>1. \A k \in 1 .. m - 1 : c2.levels[k].kind \in Kinds /\ stack'[k].s = c2.levels[k].kind
    BY <1>5, <1>6, <1>7, Zenon DEF Shape, m
  <2>2. m - 1 >= 1 /\ c2.expects \in {"entry", "equals", "value"}
        /\ c2.expects # "value" /\ c2.expects # "equals"
    BY <1>1, <1>7
  <2> QED
    BY <1>1, <1>5, <1>6, <2>1, <2>2, Zenon DEF Shape
<1>9. ASSUME Keyed(c, stack, path, values) PROVE Keyed(c2, stack', Pop(path), values)
  <2>1. path = c.levels[m].path /\ values = c.values
    BY <1>9, Zenon DEF Keyed, Inner, m
  <2>2. Pop(path) = c.levels[m - 1].path
    BY <1>7, <1>9, <2>1, Zenon DEF Keyed, m
  <2>3. Pop(path) = Inner(c2).path
    BY <1>6, <1>7, <2>2, Zenon DEF Inner
  <2>4. \A k \in 1 .. m - 1 :
          /\ stack'[k].list_counter = c2.levels[k].n /\ c2.levels[k].path \in Seq(PathChars)
          /\ k > 1 => Pop(c2.levels[k].path) = c2.levels[k - 1].path
    BY <1>5, <1>6, <1>7, <1>9, Zenon DEF Keyed, m
  <2> QED
    BY <1>1, <1>6, <2>1, <2>3, <2>4, Zenon DEF Keyed
<1> QED
  BY <1>8, <1>9

\* The path of an element is the one the parser finds, while the list is short.
LEMMA ElementKey ==
  ASSUME StackInv, NEW c, Shape(c, stack), c.expects = "entry", Keyed(c, stack, path, values),
         Inner(c).n + 1 <= 10
  PROVE  /\ PushInt(path, Top.list_counter) = NextKey(c)
         /\ NextKey(c) \in Seq(PathChars) /\ Pop(NextKey(c)) = path /\ path \in Seq(PathChars)
<1> DEFINE m == Len(c.levels)
           n == Inner(c).n
<1>1. m \in Nat \ {0} /\ m \in 1 .. m /\ Top = stack[m]
  BY TopExpects
<1>2. n = Top.list_counter /\ path = Inner(c).path /\ path \in Seq(PathChars)
  BY <1>1, Zenon DEF Keyed, Inner
<1>3. Top.list_counter \in Nat
  BY StackTop DEF Frames
<1>4. n \in 0 .. 9
  BY <1>2, <1>3
<1>5. NextKey(c) = Push(path, Position(n))
  <2>1. c.expects # "value"
    OBVIOUS
  <2> QED
    BY <1>2, <2>1, Zenon DEF NextKey
<1> HIDE DEF n
<1>6. Position(n) = <<Figure[n + 1]>>
  <2>1. n < 10
    BY <1>4
  <2> QED
    BY <2>1, Zenon DEF Position
<1>7. <<Figure[n + 1]>> \in Component /\ PushInt(path, n) = Push(path, <<Figure[n + 1]>>)
  BY <1>2, <1>4, PushIntPushes
<1>8. /\ Push(path, <<Figure[n + 1]>>) \in Seq(PathChars)
      /\ Pop(Push(path, <<Figure[n + 1]>>)) = path
  BY <1>2, <1>7, PopUndoesPush, Zenon
<1> QED
  BY <1>2, <1>5, <1>6, <1>7, <1>8, Zenon

\* The levels with an element of the inner one counted.
LEMMA CountedTop ==
  ASSUME StackInv
  PROVE  /\ Len(CountsOn) = Len(stack) /\ CountsOn \in Seq(Frames)
         /\ \A k \in 1 .. Len(stack) :
              /\ CountsOn[k].s = stack[k].s
              /\ CountsOn[k].list_counter = IF k = Len(stack) THEN stack[k].list_counter + 1
                                            ELSE stack[k].list_counter
<1>1. Len(stack) \in Nat \ {0} /\ Top = stack[Len(stack)]
  BY StackTop
<1>2. /\ CountsOn \in Seq(Frames) /\ Len(CountsOn) = Len(stack)
      /\ \A k \in 1 .. Len(stack) - 1 : CountsOn[k] = stack[k]
      /\ CountsOn[Len(stack)].list_counter = Top.list_counter + 1
      /\ CountsOn[Len(stack)].s = Top.s
  BY Counted
<1>3. ASSUME NEW k \in 1 .. Len(stack)
      PROVE  /\ CountsOn[k].s = stack[k].s
             /\ CountsOn[k].list_counter = IF k = Len(stack) THEN stack[k].list_counter + 1
                                           ELSE stack[k].list_counter
  <2>1. CASE k = Len(stack)
    BY <1>1, <1>2, <2>1, Zenon
  <2>2. CASE k # Len(stack)
    <3>1. k \in 1 .. Len(stack) - 1
      BY <1>1, <2>2
    <3> QED
      BY <1>2, <2>2, <3>1, Zenon
  <2> QED
    BY <2>1, <2>2
<1> QED
  BY <1>2, <1>3

\* An element is counted, with whatever stands on top of the levels then.
LEMMA ElementAdds ==
  ASSUME StackInv, NEW c, Shape(c, stack), c.expects = "entry",
         stack' = CountsOn, NEW vs, NEW c2, c2 = Config(OneMore(c), "entry", c.key, vs)
  PROVE  /\ Shape(c2, stack')
         /\ Keyed(c, stack, path, values) => Keyed(c2, stack', path, vs)
<1> DEFINE m == Len(c.levels)
<1>1. c2.levels = OneMore(c) /\ c2.expects = "entry" /\ c2.values = vs
  BY ConfigFields
<1>2. m \in Nat \ {0} /\ m \in 1 .. m /\ Len(stack) = m /\ \E S : c.levels \in Seq(S)
  BY TopExpects DEF Shape
<1>3. c.expects # "value"
  OBVIOUS
<1>4. /\ \E S2 : c2.levels \in Seq(S2)
      /\ Len(c2.levels) = m
      /\ \A k \in 1 .. m :
           /\ c2.levels[k].kind = c.levels[k].kind /\ c2.levels[k].path = c.levels[k].path
           /\ c2.levels[k].n = IF k = m THEN c.levels[k].n + 1 ELSE c.levels[k].n
  <2>1. PICK S : c.levels \in Seq(S)
    BY <1>2
  <2>2. m >= 1
    BY <1>2
  <2> DEFINE lv == OneMore(c)
  <2>3. /\ \E S2 : lv \in Seq(S2)
        /\ Len(lv) = m
        /\ \A k \in 1 .. m :
             /\ lv[k].kind = c.levels[k].kind /\ lv[k].path = c.levels[k].path
             /\ lv[k].n = IF k = m THEN c.levels[k].n + 1 ELSE c.levels[k].n
    BY <1>3, <2>1, <2>2, Counting
  <2> QED
    BY <1>1, <2>3, Zenon
<1>5. /\ Len(stack') = m
      /\ \A k \in 1 .. m :
           /\ stack'[k].s = stack[k].s
           /\ stack'[k].list_counter = IF k = m THEN stack[k].list_counter + 1
                                       ELSE stack[k].list_counter
  BY <1>2, CountedTop, Zenon
<1>6. \A k \in 1 .. m : k > 1 => k - 1 \in 1 .. m
  BY <1>2
<1> HIDE DEF m
<1>7. Shape(c2, stack')
  <2>1. \A k \in 1 .. m : c2.levels[k].kind \in Kinds /\ stack'[k].s = c2.levels[k].kind
    BY <1>4, <1>5, Zenon DEF Shape, m
  <2>2. m >= 1 /\ c2.expects \in {"entry", "equals", "value"}
        /\ c2.expects # "value" /\ c2.expects # "equals"
    BY <1>1, <1>2
  <2> QED
    BY <1>1, <1>4, <1>5, <2>1, <2>2, Zenon DEF Shape
<1>8. ASSUME Keyed(c, stack, path, values) PROVE Keyed(c2, stack', path, vs)
  <2>1. path = c.levels[m].path
    BY <1>8, Zenon DEF Keyed, Inner, m
  <2>2. path = Inner(c2).path
    BY <1>2, <1>4, <2>1, Zenon DEF Inner
  <2>3. \A k \in 1 .. m :
          /\ stack[k].list_counter = c.levels[k].n /\ c.levels[k].path \in Seq(PathChars)
          /\ k > 1 => Pop(c.levels[k].path) = c.levels[k - 1].path
    BY <1>8, Zenon DEF Keyed, m
  <2>4. ASSUME NEW k \in 1 .. m
        PROVE  /\ stack'[k].list_counter = c2.levels[k].n
               /\ c2.levels[k].path \in Seq(PathChars)
               /\ k > 1 => Pop(c2.levels[k].path) = c2.levels[k - 1].path
    <3>1. stack'[k].list_counter = c2.levels[k].n
      BY <1>4, <1>5, <2>3
    <3>2. \A j \in 1 .. m : c2.levels[j].path = c.levels[j].path
      BY <1>4
    <3> QED
      BY <1>6, <2>3, <3>1, <3>2, Zenon
  <2> QED
    BY <1>1, <1>4, <2>2, <2>4, Zenon DEF Keyed
<1> QED
  BY <1>7, <1>8

\* An element that is a list or a map itself.
LEMMA NestedOpens ==
  ASSUME StackInv, NEW c, Shape(c, stack), c.expects = "entry",
         NEW kind \in {"in_list", "in_map"}, stack' = Append(CountsOn, Frame(kind)),
         NEW c2, c2 = Config(Append(OneMore(c), Level(kind, NextKey(c), 0)), "entry",
                             c.key, c.values)
  PROVE  /\ Shape(c2, stack')
         /\ Keyed(c, stack, path, values) /\ NextKey(c) \in Seq(PathChars)
              /\ Pop(NextKey(c)) = path
              => Keyed(c2, stack', NextKey(c), values)
<1> DEFINE m == Len(c.levels)
           key == NextKey(c)
           new == Level(kind, key, 0)
           lv == OneMore(c)
           c1 == Config(lv, "entry", c.key, c.values)
<1>1. c2.levels = Append(lv, new) /\ c2.expects = "entry" /\ c2.values = c.values
  BY DEF Config
<1>2. m \in Nat \ {0} /\ m \in 1 .. m /\ Len(stack) = m /\ \E S : c.levels \in Seq(S)
  BY TopExpects DEF Shape
<1>3. c.expects # "value"
  OBVIOUS
<1>4. new.kind = kind /\ new.path = key /\ new.n = 0 /\ kind \in Kinds
  BY DEF Level, Kinds
<1> HIDE DEF new
<1>5. /\ \E S2 : lv \in Seq(S2)
      /\ Len(lv) = m
      /\ \A k \in 1 .. m :
           /\ lv[k].kind = c.levels[k].kind /\ lv[k].path = c.levels[k].path
           /\ lv[k].n = IF k = m THEN c.levels[k].n + 1 ELSE c.levels[k].n
  <2>1. PICK S : c.levels \in Seq(S)
    BY <1>2
  <2>2. m >= 1
    BY <1>2
  <2> QED
    BY <1>3, <2>1, <2>2, Counting
<1> HIDE DEF lv
<1>6. /\ \E S : c2.levels \in Seq(S)
      /\ Len(c2.levels) = m + 1 /\ c2.levels[m + 1] = new
      /\ \A k \in 1 .. m : c2.levels[k] = lv[k]
  <2>1. PICK S : lv \in Seq(S)
    BY <1>5
  <2> DEFINE lv2 == Append(lv, new)
  <2>2. /\ \E S2 : lv2 \in Seq(S2)
        /\ Len(lv2) = m + 1 /\ lv2[m + 1] = new
        /\ \A k \in 1 .. m : lv2[k] = lv[k]
    <3>1. /\ \E S2 : lv2 \in Seq(S2)
          /\ Len(lv2) = Len(lv) + 1 /\ lv2[Len(lv) + 1] = new
          /\ \A k \in 1 .. Len(lv) : lv2[k] = lv[k]
      BY <2>1, LevelAdded
    <3>2. Len(lv) = m
      BY <1>5
    <3> QED
      BY <3>1, <3>2, Zenon
  <2> QED
    BY <1>1, <2>2, Zenon
<1>7. /\ Len(stack') = m + 1 /\ stack'[m + 1] = Frame(kind)
      /\ \A k \in 1 .. m :
           /\ stack'[k].s = stack[k].s
           /\ stack'[k].list_counter = IF k = m THEN stack[k].list_counter + 1
                                       ELSE stack[k].list_counter
  <2>1. /\ Len(CountsOn) = m /\ CountsOn \in Seq(Frames)
        /\ \A k \in 1 .. m :
             /\ CountsOn[k].s = stack[k].s
             /\ CountsOn[k].list_counter = IF k = m THEN stack[k].list_counter + 1
                                           ELSE stack[k].list_counter
    BY <1>2, CountedTop, Zenon
  <2>2. /\ Len(stack') = m + 1 /\ stack'[m + 1] = Frame(kind)
        /\ \A k \in 1 .. m : stack'[k] = CountsOn[k]
    BY <2>1, LevelAdded
  <2> QED
    BY <2>1, <2>2, Zenon
<1>8. Frame(kind).s = kind /\ Frame(kind).list_counter = 0
  BY DEF Frame
<1>9. m \in 1 .. m /\ (m + 1) - 1 = m
      /\ \A k \in 1 .. m + 1 : k = m + 1 \/ (k \in 1 .. m /\ (k > 1 => k - 1 \in 1 .. m))
  BY <1>2
<1> HIDE DEF m
<1>10. Shape(c2, stack')
  <2>1. ASSUME NEW k \in 1 .. m + 1
        PROVE  c2.levels[k].kind \in Kinds /\ stack'[k].s = c2.levels[k].kind
    <3>1. CASE k = m + 1
      BY <1>4, <1>6, <1>7, <1>8, <3>1, Zenon
    <3>2. CASE k \in 1 .. m
      <4>1. lv[k].kind = c.levels[k].kind /\ stack'[k].s = stack[k].s /\ c2.levels[k] = lv[k]
        BY <1>5, <1>6, <1>7, <3>2
      <4> QED
        BY <3>2, <4>1, Zenon DEF Shape, m
    <3> QED
      BY <1>9, <3>1, <3>2
  <2>2. m + 1 >= 1 /\ c2.expects \in {"entry", "equals", "value"}
        /\ c2.expects # "value" /\ c2.expects # "equals"
    BY <1>1, <1>2
  <2> QED
    BY <1>1, <1>6, <1>7, <2>1, <2>2, Zenon DEF Shape
<1>11. ASSUME Keyed(c, stack, path, values), key \in Seq(PathChars), Pop(key) = path
       PROVE  Keyed(c2, stack', key, values)
  <2>1. path = c.levels[m].path /\ values = c.values
    BY <1>11, Zenon DEF Keyed, Inner, m
  <2>2. \A k \in 1 .. m :
          /\ stack[k].list_counter = c.levels[k].n /\ c.levels[k].path \in Seq(PathChars)
          /\ k > 1 => Pop(c.levels[k].path) = c.levels[k - 1].path
    BY <1>11, Zenon DEF Keyed, m
  <2> HIDE DEF key
  <2>3. ASSUME NEW k \in 1 .. m + 1
        PROVE  /\ stack'[k].list_counter = c2.levels[k].n
               /\ c2.levels[k].path \in Seq(PathChars)
               /\ k > 1 => Pop(c2.levels[k].path) = c2.levels[k - 1].path
    <3>1. \A j \in 1 .. m : c2.levels[j].path = c.levels[j].path
      BY <1>5, <1>6
    <3>2. CASE k = m + 1
      <4>1. k - 1 = m /\ c2.levels[m].path = path
        BY <1>9, <2>1, <3>1, <3>2
      <4> QED
        BY <1>4, <1>6, <1>7, <1>8, <1>11, <3>2, <4>1, Zenon
    <3>3. CASE k \in 1 .. m
      <4>1. stack'[k].list_counter = c2.levels[k].n
        <5>1. c2.levels[k] = lv[k] /\ stack[k].list_counter = c.levels[k].n
          BY <1>6, <2>2, <3>3, Zenon
        <5>2. lv[k].n = IF k = m THEN c.levels[k].n + 1 ELSE c.levels[k].n
          BY <1>5, <3>3
        <5>3. stack'[k].list_counter = IF k = m THEN stack[k].list_counter + 1
                                       ELSE stack[k].list_counter
          BY <1>7, <3>3
        <5> QED
          BY <5>1, <5>2, <5>3
      <4> QED
        BY <1>9, <2>2, <3>1, <3>3, <4>1, Zenon
    <3> QED
      BY <1>9, <3>2, <3>3
  <2>4. key = Inner(c2).path
    BY <1>4, <1>6, Zenon DEF Inner
  <2> QED
    BY <1>1, <1>6, <2>1, <2>3, <2>4, Zenon DEF Keyed
<1> QED
  BY <1>10, <1>11

\* A short list has room for its last element.
LEMMA ShortList ==
  ASSUME NEW c, NEW a, NEW b, NEW d, NEW stk, Shape(c, stk), c.expects = "entry",
         Short(Config(OneMore(c), a, b, d))
  PROVE  Inner(c).n + 1 <= 10
<1> DEFINE m == Len(c.levels)
           lv == OneMore(c)
<1>1. PICK S : c.levels \in Seq(S)
  BY Zenon DEF Shape
<1>2. m \in Nat \ {0} /\ m >= 1 /\ m \in 1 .. m
  BY DEF Shape
<1>3. c.expects # "value"
  OBVIOUS
<1>4. Len(lv) = m /\ lv[m].n = Inner(c).n + 1
  BY <1>1, <1>2, <1>3, Counting DEF Inner
<1>5. \A k \in 1 .. Len(lv) : lv[k].n <= 10
  <2>1. Config(lv, a, b, d).levels = lv
    BY DEF Config
  <2> QED
    BY <2>1 DEF Short
<1> HIDE DEF lv, m
<1> QED
  BY <1>2, <1>4, <1>5

\* Also where that one is a level that it opens.
LEMMA ShortLevels ==
  ASSUME NEW c, NEW x, NEW a, NEW b, NEW d, NEW stk, Shape(c, stk), c.expects = "entry",
         Short(Config(Append(OneMore(c), x), a, b, d))
  PROVE  Inner(c).n + 1 <= 10
<1> DEFINE m == Len(c.levels)
           lv == OneMore(c)
           lv2 == Append(lv, x)
<1>1. PICK S : c.levels \in Seq(S)
  BY Zenon DEF Shape
<1>2. m \in Nat \ {0} /\ m >= 1 /\ m \in 1 .. m
  BY DEF Shape
<1>3. c.expects # "value"
  OBVIOUS
<1>4. Len(lv) = m /\ lv[m].n = Inner(c).n + 1 /\ \E S2 : lv \in Seq(S2)
  BY <1>1, <1>2, <1>3, Counting DEF Inner
<1>5. \A k \in 1 .. Len(lv2) : lv2[k].n <= 10
  <2>1. Config(lv2, a, b, d).levels = lv2
    BY DEF Config
  <2> QED
    BY <2>1 DEF Short
<1> HIDE DEF lv, m
<1>6. PICK S2 : lv \in Seq(S2)
  BY <1>4
<1>7. Len(lv2) = Len(lv) + 1 /\ \A k \in 1 .. Len(lv) : lv2[k] = lv[k]
  BY <1>6, LevelAdded
<1> HIDE DEF lv2
<1>8. m \in 1 .. m + 1
  BY <1>2
<1>9. lv2[m] = lv[m] /\ lv2[m].n <= 10
  BY <1>2, <1>4, <1>5, <1>7, <1>8, Zenon
<1> QED
  BY <1>4, <1>9, Zenon

\* What the parser does with a token and what its lexeme adds to the document.
LEMMA DealStep ==
  ASSUME StackInv, TokenInv, NEW c, NEW x, Shape(c, stack), Matches(x, token_t), Dealing
  PROVE  IF x.type \in Allowed(c)
         THEN /\ Shape(After(c, x), stack')
              /\ Keyed(c, stack, path, values) /\ Short(After(c, x))
                   => Keyed(After(c, x), stack', path', values')
         ELSE In("invalid")'
<1> DEFINE c2 == After(c, x)
<1>1. Allowed(c) = Expected(Top.s) /\ x.type = token_t.type
  BY ExpectedAllowed DEF Matches
<1>2. /\ Top.s = "exp_equals" => c.expects = "equals"
      /\ Top.s = "exp_value" => c.expects = "value"
      /\ Top.s \in Kinds => c.expects = "entry"
      /\ c.expects = "entry" => Top.s = Inner(c).kind
  BY TopExpects, Zenon
<1>3. /\ Expected("top_level") = {"identifier"} /\ Expected("in_map") = {"identifier", "}"}
      /\ Expected("exp_equals") = {"="} /\ Expected("exp_value") = {"string", "[", "{"}
      /\ Expected("in_list") = {",", "string", "[", "{", "]"}
  BY DEF Expected
<1>4. "top_level" \in Kinds /\ "in_map" \in Kinds /\ "in_list" \in Kinds
      /\ "in_map" # "top_level" /\ "in_list" # "top_level"
  BY DEF Kinds
<1>5. x.type \in {"identifier", "string"} => x.string = token_t.string
  BY DEF Matches
<1> DEFINE Kept == Keyed(c, stack, path, values) /\ Short(c2)
                     => Keyed(c2, stack', path', values')
<1> SUFFICES IF x.type \in Allowed(c) THEN Shape(c2, stack') /\ Kept ELSE In("invalid")'
  OBVIOUS
<1> HIDE DEF c2
\* It is enough that the token is expected.
<1>6. ASSUME NEW s, Top.s = s, x.type \in Expected(s), Shape(c2, stack'), Kept
      PROVE  IF x.type \in Allowed(c) THEN Shape(c2, stack') /\ Kept ELSE In("invalid")'
  BY <1>1, <1>6, Zenon
<1>7. CASE Name
  <2>1. PICK s \in {"top_level", "in_map"} :
          /\ Top.s = s /\ token_t.type = "identifier"
          /\ path' = Push(path, token_t.string) /\ stack' = Append(stack, Frame("exp_equals"))
          /\ values' = values
    BY <1>7, Zenon DEF Name, Is, In
  <2>2. c.expects = "entry" /\ x.type = "identifier" /\ x.type \in Expected(s)
    BY <1>1, <1>2, <1>3, <1>4, <2>1, Zenon
  <2>3. x.string = token_t.string /\ x.string \in Component
    BY <1>5, <2>1, <2>2 DEF TokenInv
  <2> DEFINE key == Push(Inner(c).path, x.string)
  <2>4. c2 = Config(c.levels, "equals", key, c.values)
    BY <2>2, AfterFacts DEF c2
  <2>5. Shape(c2, stack')
    BY <2>1, <2>2, <2>4, NameOpens, Zenon
  <2>6. ASSUME Keyed(c, stack, path, values) PROVE Keyed(c2, stack', path', values')
    <3>1. path = Inner(c).path
      BY <2>2, <2>6, Zenon DEF Keyed
    <3>2. path \in Seq(PathChars)
      BY <2>2, <2>6, <3>1, TopExpects, Zenon DEF Keyed, Inner
    <3>3. key \in Seq(PathChars) /\ Pop(key) = path
      BY <2>3, <3>1, <3>2, PopUndoesPush, Zenon
    <3>4. path' = key
      BY <2>1, <2>3, <3>1, Zenon
    <3> QED
      BY <2>1, <2>2, <2>4, <2>6, <3>3, <3>4, NameOpens, Zenon
  <2> QED
    BY <1>6, <2>1, <2>2, <2>5, <2>6, Zenon
<1>8. CASE Equals
  <2>1. /\ Top.s = "exp_equals" /\ token_t.type = "=" /\ Becomes("exp_value")
        /\ path' = path /\ values' = values
    BY <1>8, Zenon DEF Equals, Is, In
  <2>2. c.expects = "equals" /\ x.type = "=" /\ x.type \in Expected("exp_equals")
    BY <1>1, <1>2, <1>3, <2>1, Zenon
  <2>3. c2 = Config(c.levels, "value", c.key, c.values)
    BY <2>2, AfterFacts, Zenon DEF c2
  <2>4. /\ Shape(c2, stack')
        /\ Keyed(c, stack, path, values) => Keyed(c2, stack', path, values)
    BY <2>1, <2>2, <2>3, EqualsOpens, Zenon
  <2> QED
    <3>1. Kept
      BY <2>1, <2>4, Zenon
    <3> QED
      BY <1>6, <2>1, <2>2, <2>4, <3>1, Zenon
<1>9. CASE Value
  <2>1. /\ Top.s = "exp_value" /\ token_t.type = "string" /\ AddValue(path)
        /\ stack' = Front(stack) /\ path' = Pop(path)
    BY <1>9, Zenon DEF Value, Is, In
  <2>2. c.expects = "value" /\ x.type = "string" /\ x.type \in Expected("exp_value")
        /\ x.string = token_t.string
    BY <1>1, <1>2, <1>3, <1>5, <2>1, Zenon
  <2>3. OneMore(c) = c.levels /\ NextKey(c) = c.key
    BY <2>2 DEF OneMore, NextKey
  <2> DEFINE vs == Append(c.values, [key |-> c.key, value |-> x.string])
  <2>4. c2 = Config(c.levels, "entry", c.key, vs)
    <3>1. c2 = Config(OneMore(c), "entry", c.key,
                      Append(c.values, [key |-> NextKey(c), value |-> x.string]))
      BY <2>2, AfterFacts, Zenon DEF c2
    <3> QED
      BY <2>3, <3>1
  <2>5. Keyed(c, stack, path, values) => values' = vs
    <3>1. c.expects # "entry"
      BY <2>2
    <3> QED
      BY <2>1, <2>2, <3>1, Zenon DEF Keyed, AddValue
  <2>6. /\ Shape(c2, stack')
        /\ Keyed(c, stack, path, values) => Keyed(c2, stack', Pop(path), vs)
    BY <2>1, <2>2, <2>4, ValueEnds, Zenon
  <2> HIDE DEF vs
  <2> QED
    <3>1. Kept
      BY <2>1, <2>5, <2>6, Zenon
    <3> QED
      BY <1>6, <2>1, <2>2, <2>6, <3>1, Zenon
<1>10. CASE OpenList \/ OpenMap
  <2>1. PICK kind \in {"in_list", "in_map"} :
          /\ Top.s = "exp_value" /\ Becomes(kind) /\ path' = path /\ values' = values
          /\ token_t.type = IF kind = "in_list" THEN "[" ELSE "{"
    <3>1. CASE OpenList
      BY <3>1, Zenon DEF OpenList, Is, In
    <3>2. CASE OpenMap
      <4>1. "in_map" # "in_list"
        OBVIOUS
      <4> QED
        BY <3>2, <4>1, Zenon DEF OpenMap, Is, In
    <3> QED
      BY <1>10, <3>1, <3>2
  <2>2. c.expects = "value" /\ x.type \in Expected("exp_value")
    BY <1>1, <1>2, <1>3, <2>1, Zenon
  <2>3. c2 = Config(Append(OneMore(c), Level(kind, NextKey(c), 0)), "entry", c.key, c.values)
    <3>1. CASE kind = "in_list"
      BY <1>1, <2>1, <3>1, AfterFacts, Zenon DEF c2
    <3>2. CASE kind # "in_list"
      <4>1. kind = "in_map"
        BY <3>2
      <4> QED
        BY <1>1, <2>1, <3>2, <4>1, AfterFacts, Zenon DEF c2
    <3> QED
      BY <3>1, <3>2
  <2>4. /\ Shape(c2, stack')
        /\ Keyed(c, stack, path, values) => Keyed(c2, stack', path, values)
    BY <2>1, <2>2, <2>3, ListOrMapOpens, Zenon
  <2> QED
    <3>1. Kept
      BY <2>1, <2>4, Zenon
    <3> QED
      BY <1>6, <2>1, <2>2, <2>4, <3>1, Zenon
<1>11. CASE CloseMap \/ CloseList
  <2>1. PICK s \in {"in_list", "in_map"} :
          /\ Top.s = s /\ stack' = Front(stack) /\ path' = Pop(path) /\ values' = values
          /\ token_t.type \in {"]", "}"} /\ token_t.type \in Expected(s)
    BY <1>3, <1>11, Zenon DEF CloseMap, CloseList, Is, In
  <2>2. /\ c.expects = "entry" /\ Inner(c).kind # "top_level" /\ x.type \in Expected(s)
        /\ x.type \in {"]", "}"}
    BY <1>1, <1>2, <1>4, <2>1, Zenon
  <2>3. c2 = Config(Front(c.levels), "entry", c.key, c.values)
    BY <2>2, AfterFacts, Zenon DEF c2
  <2>4. /\ Shape(c2, stack')
        /\ Keyed(c, stack, path, values) => Keyed(c2, stack', Pop(path), values)
    BY <2>1, <2>2, <2>3, ListOrMapCloses, Zenon
  <2> QED
    <3>1. Kept
      BY <2>1, <2>4, Zenon
    <3> QED
      BY <1>6, <2>1, <2>2, <2>4, <3>1, Zenon
<1>12. CASE Comma
  <2>1. Top.s = "in_list" /\ token_t.type = "," /\ UNCHANGED <<stack, path, values>>
    BY <1>12, Zenon DEF Comma, Is, In
  <2>2. x.type \in Expected("in_list") /\ x.type = ","
    BY <1>1, <1>3, <2>1, Zenon
  <2>3. c2 = c
    BY <2>2, AfterFacts, Zenon DEF c2
  <2> QED
    <3>1. Shape(c2, stack') /\ Kept
      BY <2>1, <2>3, Zenon
    <3> QED
      BY <1>6, <2>1, <2>2, <3>1, Zenon
<1>13. CASE Element
  <2> DEFINE there == PushInt(path, Top.list_counter)
  <2>1. /\ Top.s = "in_list" /\ token_t.type = "string" /\ AddValue(there)
        /\ stack' = CountsOn /\ path' = Pop(there)
    BY <1>13, Zenon DEF Element, Is, In
  <2>2. c.expects = "entry" /\ x.type = "string" /\ x.type \in Expected("in_list")
        /\ x.string = token_t.string
    BY <1>1, <1>2, <1>3, <1>4, <1>5, <2>1, Zenon
  <2> DEFINE vs == Append(c.values, [key |-> NextKey(c), value |-> x.string])
  <2>3. c2 = Config(OneMore(c), "entry", c.key, vs)
    BY <2>2, AfterFacts, Zenon DEF c2
  <2>4. /\ Shape(c2, stack')
        /\ Keyed(c, stack, path, values) => Keyed(c2, stack', path, vs)
    BY <2>1, <2>2, <2>3, ElementAdds, Zenon
  <2>5. ASSUME Keyed(c, stack, path, values), Short(c2)
        PROVE  path' = path /\ values' = vs
    <3>1. Inner(c).n + 1 <= 10
      BY <2>2, <2>3, <2>5, ShortList, Zenon DEF Config
    <3>2. there = NextKey(c) /\ Pop(NextKey(c)) = path
      BY <2>2, <2>5, <3>1, ElementKey, Zenon
    <3>3. values = c.values
      BY <2>5, Zenon DEF Keyed
    <3> HIDE DEF there
    <3> QED
      BY <2>1, <2>2, <3>2, <3>3, Zenon DEF AddValue
  <2> HIDE DEF vs, there
  <2> QED
    <3>1. Kept
      BY <2>1, <2>4, <2>5, Zenon
    <3> QED
      BY <1>6, <2>1, <2>2, <2>4, <3>1, Zenon
<1>14. CASE Nested
  <2>1. PICK kind \in {"in_list", "in_map"} :
          /\ Top.s = "in_list" /\ path' = PushInt(path, Top.list_counter) /\ values' = values
          /\ stack' = Append(CountsOn, Frame(kind))
          /\ token_t.type = IF kind = "in_list" THEN "[" ELSE "{"
    <3>1. "in_map" # "in_list" /\ "[" # "{"
      BY Zenon
    <3>2. CASE Is("[")
      BY <1>14, <3>2, Zenon DEF Nested, Is, In
    <3>3. CASE Is("{")
      BY <1>14, <3>1, <3>3, Zenon DEF Nested, Is, In
    <3> QED
      BY <1>14, <3>2, <3>3, Zenon DEF Nested
  <2>2. c.expects = "entry" /\ x.type \in Expected("in_list")
    BY <1>1, <1>2, <1>3, <1>4, <2>1, Zenon
  <2>3. c2 = Config(Append(OneMore(c), Level(kind, NextKey(c), 0)), "entry", c.key, c.values)
    <3>1. CASE kind = "in_list"
      BY <1>1, <2>1, <3>1, AfterFacts, Zenon DEF c2
    <3>2. CASE kind # "in_list"
      <4>1. kind = "in_map"
        BY <3>2
      <4> QED
        BY <1>1, <2>1, <3>2, <4>1, AfterFacts, Zenon DEF c2
    <3> QED
      BY <3>1, <3>2
  <2>4. /\ Shape(c2, stack')
        /\ Keyed(c, stack, path, values) /\ NextKey(c) \in Seq(PathChars)
             /\ Pop(NextKey(c)) = path
             => Keyed(c2, stack', NextKey(c), values)
    BY <2>1, <2>2, <2>3, NestedOpens, Zenon
  <2>5. ASSUME Keyed(c, stack, path, values), Short(c2)
        PROVE  path' = NextKey(c) /\ NextKey(c) \in Seq(PathChars) /\ Pop(NextKey(c)) = path
    <3>1. Inner(c).n + 1 <= 10
      BY <2>2, <2>3, <2>5, ShortLevels, Zenon
    <3> QED
      BY <2>1, <2>2, <2>5, <3>1, ElementKey, Zenon
  <2> QED
    <3>1. Kept
      BY <2>1, <2>4, <2>5, Zenon
    <3> QED
      BY <1>6, <2>1, <2>2, <2>4, <3>1, Zenon
<1>15. CASE Unexpected
  <2>1. token_t.type \notin Expected(Top.s) /\ Becomes("invalid")
    BY <1>15, Zenon DEF Unexpected
  <2>2. In("invalid")'
    <3>1. Len(stack) \in Nat \ {0}
      BY StackTop
    <3>2. Len(stack') = Len(stack) /\ stack'[Len(stack)].s = "invalid"
      BY <2>1, TopBecomes, Zenon
    <3> QED
      BY <3>2, Zenon DEF In, Top, Last
  <2> QED
    BY <1>1, <2>1, <2>2, Zenon
<1> QED
  BY <1>7, <1>8, <1>9, <1>10, <1>11, <1>12, <1>13, <1>14, <1>15, Zenon DEF Dealing, c2

-----------------------------------------------------------------------------
\* The states of the automaton within a comment.
Comments == {"comm_start", "in_oneline", "in_multiline", "multiline_end"}

(* What the automaton does with a character, state by state.               *)
LEMMA FromStart ==
  ASSUME NEW c, NEW s
  PROVE  /\ c \in Blank \union Punctuation => NextState("start", c) = "start"
         /\ c \in Alpha => NextState("start", c) = "in_identifier"
                           /\ TokenString("start", c, s) = <<c>>
         /\ c = Quote => NextState("start", c) = "in_str" /\ TokenString("start", c, s) = <<>>
         /\ c = "/" => NextState("start", c) = "comm_start"
         /\ c \notin Blank \union Punctuation \union Alpha \union {Quote, "/"}
              => NextState("start", c) = "invalid"
         /\ c \in Punctuation => TokenType("start", c) = c
         /\ c \notin Punctuation => TokenType("start", c) = NoToken
<1>1. /\ Quote \notin Alpha /\ "/" \notin Alpha /\ Quote # "/"
      /\ Quote \notin Blank \union Punctuation /\ "/" \notin Blank \union Punctuation
      /\ \A d \in Alpha : d \notin Blank \union Punctuation
  BY DEF Quote, Blank, Punctuation, Alpha
<1>2. NextState("start", c) =
        IF c \in Blank \union Punctuation THEN "start"
        ELSE IF c \in Alpha THEN "in_identifier"
        ELSE OneOf(c, [x \in {"/", Quote} |-> IF x = Quote THEN "in_str" ELSE "comm_start"],
                   "invalid")
  BY Zenon DEF NextState
<1> DEFINE f == [x \in {"/", Quote} |-> IF x = Quote THEN "in_str" ELSE "comm_start"]
<1>3. f[Quote] = "in_str" /\ f["/"] = "comm_start" /\ DOMAIN f = {"/", Quote}
  BY <1>1
<1> HIDE DEF f
<1>4. OneOf(Quote, f, "invalid") = "in_str" /\ OneOf("/", f, "invalid") = "comm_start"
      /\ (c \notin {"/", Quote} => OneOf(c, f, "invalid") = "invalid")
  BY <1>3, Zenon DEF OneOf
<1>5. /\ c \in Alpha /\ c # Quote => TokenString("start", c, s) = <<c>>
      /\ TokenString("start", Quote, s) = <<>>
  <2>1. ASSUME c \in Alpha, c # Quote PROVE TokenString("start", c, s) = <<c>>
    <3>1. ~("start" = "start" /\ c = Quote) /\ ("start" = "start" /\ c \in Alpha)
      BY <2>1
    <3> QED
      BY <3>1, SMT DEF TokenString
  <2>2. TokenString("start", Quote, s) = <<>>
    BY <1>1 DEF TokenString
  <2> QED
    BY <2>1, <2>2
<1>6. TokenType("start", c) = IF c \in Punctuation THEN c ELSE NoToken
  BY DEF TokenType
<1>7. c \in Alpha => c # Quote /\ c \notin Blank \union Punctuation
  BY <1>1
<1> QED
  BY <1>1, <1>2, <1>4, <1>5, <1>6, <1>7, Zenon DEF f

\* The automaton within a comment.
LEMMA InComments ==
  ASSUME NEW c
  PROVE  /\ c = "/" => NextState("comm_start", c) = "in_oneline"
         /\ c = "*" => NextState("comm_start", c) = "in_multiline"
         /\ c # "/" /\ c # "*" => NextState("comm_start", c) = "invalid"
         /\ NextState("in_oneline", c) = IF c = "\n" THEN "start" ELSE "in_oneline"
         /\ NextState("in_multiline", c) = IF c = "*" THEN "multiline_end" ELSE "in_multiline"
         /\ c = "/" => NextState("multiline_end", c) = "start"
         /\ c = "*" => NextState("multiline_end", c) = "multiline_end"
         /\ c # "/" /\ c # "*" => NextState("multiline_end", c) = "in_multiline"
         /\ \A q \in Comments : TokenType(q, c) = NoToken
<1> DEFINE f == [x \in {"/", "*"} |-> IF x = "/" THEN "in_oneline" ELSE "in_multiline"]
           g == [x \in {"/", "*"} |-> IF x = "/" THEN "start" ELSE "multiline_end"]
<1>1. /\ NextState("comm_start", c) = OneOf(c, f, "invalid")
      /\ NextState("multiline_end", c) = OneOf(c, g, "in_multiline")
  BY Zenon DEF NextState
<1>2. /\ DOMAIN f = {"/", "*"} /\ f["/"] = "in_oneline" /\ f["*"] = "in_multiline"
      /\ DOMAIN g = {"/", "*"} /\ g["/"] = "start" /\ g["*"] = "multiline_end"
  OBVIOUS
<1> HIDE DEF f, g
<1>3. /\ OneOf("/", f, "invalid") = "in_oneline" /\ OneOf("*", f, "invalid") = "in_multiline"
      /\ (c \notin {"/", "*"} => OneOf(c, f, "invalid") = "invalid")
      /\ OneOf("/", g, "in_multiline") = "start"
      /\ OneOf("*", g, "in_multiline") = "multiline_end"
      /\ (c \notin {"/", "*"} => OneOf(c, g, "in_multiline") = "in_multiline")
  BY <1>2, Zenon DEF OneOf
<1>4. /\ NextState("in_oneline", c) = IF c = "\n" THEN "start" ELSE "in_oneline"
      /\ NextState("in_multiline", c) = IF c = "*" THEN "multiline_end" ELSE "in_multiline"
  BY DEF NextState
<1>5. /\ TokenType("comm_start", c) = NoToken /\ TokenType("in_oneline", c) = NoToken
      /\ TokenType("in_multiline", c) = NoToken /\ TokenType("multiline_end", c) = NoToken
  BY DEF TokenType
<1>6. c # "/" /\ c # "*" => c \notin {"/", "*"}
  OBVIOUS
<1> HIDE DEF f, g
<1> QED
  BY <1>1, <1>3, <1>4, <1>5, <1>6, Zenon DEF Comments

\* Within a name.
LEMMA InNames ==
  ASSUME NEW c, NEW s
  PROVE  /\ c \in InIdentifier =>
              /\ NextState("in_identifier", c) = "in_identifier"
              /\ TokenType("in_identifier", c) = NoToken
              /\ TokenString("in_identifier", c, s) = Append(s, c)
         /\ c \notin InIdentifier =>
              /\ NextState("in_identifier", c) = "start"
              /\ TokenType("in_identifier", c) = "identifier"
              /\ TokenString("in_identifier", c, s) = s
<1>1. NextState("in_identifier", c) = IF c \in InIdentifier THEN "in_identifier" ELSE "start"
  BY DEF NextState
<1>2. TokenType("in_identifier", c) = IF c \notin InIdentifier THEN "identifier" ELSE NoToken
  BY DEF TokenType
<1>3. TokenString("in_identifier", c, s) = IF c \in InIdentifier THEN Append(s, c) ELSE s
  BY DEF TokenString
<1> QED
  BY <1>1, <1>2, <1>3

\* And within a string.
LEMMA InStrings ==
  ASSUME NEW c, NEW s
  PROVE  /\ c = Quote => /\ NextState("in_str", c) = "start"
                         /\ TokenType("in_str", c) = "string"
                         /\ TokenString("in_str", c, s) = s
         /\ c = "\\" => /\ NextState("in_str", c) = "in_esc"
                        /\ TokenString("in_str", c, s) = s
         /\ c \notin {Quote, "\\"} => /\ NextState("in_str", c) = "in_str"
                                      /\ TokenString("in_str", c, s) = Append(s, c)
         /\ c # Quote => TokenType("in_str", c) = NoToken
         /\ c \in DOMAIN Escapes => /\ NextState("in_esc", c) = "in_str"
                                    /\ TokenString("in_esc", c, s) = Append(s, Escapes[c])
         /\ c = "x" => /\ NextState("in_esc", c) = "esc_hex_exp_first"
                       /\ TokenString("in_esc", c, s) = s
         /\ c \notin DOMAIN Escapes /\ c # "x" => NextState("in_esc", c) = "invalid"
         /\ NextState("esc_hex_exp_first", c) = "esc_hex_exp_second"
         /\ TokenString("esc_hex_exp_first", c, s) = s
         /\ NextState("esc_hex_exp_second", c) = "in_str"
         /\ TokenString("esc_hex_exp_second", c, s) = Append(s, HexChar(hex, c))
         /\ TokenType("in_esc", c) = NoToken
         /\ TokenType("esc_hex_exp_first", c) = NoToken
         /\ TokenType("esc_hex_exp_second", c) = NoToken
<1>1. Quote # "\\" /\ "x" \notin DOMAIN Escapes
  BY DEF Quote, Escapes
<1> DEFINE f == [x \in {Quote, "\\"} |-> IF x = Quote THEN "start" ELSE "in_esc"]
<1>2. NextState("in_str", c) = OneOf(c, f, "in_str")
  BY Zenon DEF NextState
<1>3. DOMAIN f = {Quote, "\\"} /\ f[Quote] = "start" /\ f["\\"] = "in_esc"
  BY <1>1
<1> HIDE DEF f
<1>4. /\ OneOf(Quote, f, "in_str") = "start" /\ OneOf("\\", f, "in_str") = "in_esc"
      /\ (c \notin {Quote, "\\"} => OneOf(c, f, "in_str") = "in_str")
  BY <1>3, Zenon DEF OneOf
<1>5. TokenType("in_str", c) = IF c = Quote THEN "string" ELSE NoToken
  BY DEF TokenType
<1>6. TokenString("in_str", c, s) = IF c \notin {Quote, "\\"} THEN Append(s, c) ELSE s
  BY DEF TokenString
<1>7. NextState("in_esc", c) = IF c \in DOMAIN Escapes THEN "in_str"
                               ELSE IF c = "x" THEN "esc_hex_exp_first" ELSE "invalid"
  BY DEF NextState
<1>8. TokenString("in_esc", c, s) = IF c \in DOMAIN Escapes THEN Append(s, Escapes[c]) ELSE s
  BY DEF TokenString
<1>9. /\ NextState("esc_hex_exp_first", c) = "esc_hex_exp_second"
      /\ NextState("esc_hex_exp_second", c) = "in_str"
  BY DEF NextState
<1>10. /\ TokenString("esc_hex_exp_first", c, s) = s
       /\ TokenString("esc_hex_exp_second", c, s) = Append(s, HexChar(hex, c))
  BY DEF TokenString
<1>11. /\ TokenType("in_esc", c) = NoToken
       /\ TokenType("esc_hex_exp_first", c) = NoToken
       /\ TokenType("esc_hex_exp_second", c) = NoToken
  BY DEF TokenType
<1> HIDE DEF Escapes
<1>12. c = "x" => c \notin DOMAIN Escapes
  BY <1>1
<1>13. c \in {Quote, "\\"} => ~(c \notin {Quote, "\\"})
  OBVIOUS
<1> QED
  BY <1>1, <1>2, <1>4, <1>5, <1>6, <1>7, <1>8, <1>9, <1>10, <1>11, <1>12, Zenon

(* Where the automaton stands within a lexeme of the text, of which the    *)
(* characters up to the place p have been read.                            *)

\* Within a comment.
InsideComment(t, x, q, p) ==
  \/ p = x.from + 1 /\ q = "comm_start"
  \/ x.type = "line" /\ p \in x.from + 2 .. x.to - 1 /\ q = "in_oneline"
  \/ /\ x.type = "comment" /\ p \in x.from + 2 .. x.to - 1
     /\ q = IF p # x.from + 2 /\ t[p] = "*" THEN "multiline_end" ELSE "in_multiline"

\* Within a name.
InsideName(t, x, q, s, p) ==
  p \in x.from + 1 .. x.to /\ q = "in_identifier" /\ s = SubSeq(t, x.from + 1, p)

\* j characters of the string are complete, and of the next one p - cuts[j]
\* places have been read.
InsideString(t, x, q, h, s, p) ==
  \E cuts : \E j \in 0 .. Len(x.string) :
    /\ SpellsBy(t, x.string, cuts, x.from + 1, x.to - 1)
    /\ s = SubSeq(x.string, 1, j) /\ cuts[j] \in x.from + 1 .. x.to - 1
    /\ \/ q = "in_str" /\ p = cuts[j]
       \/ /\ j < Len(x.string) /\ p < cuts[j + 1] /\ t[cuts[j] + 1] = "\\"
          /\ \/ q = "in_esc" /\ p = cuts[j] + 1
             \/ q = "esc_hex_exp_first" /\ p = cuts[j] + 2 /\ cuts[j + 1] = cuts[j] + 4
             \/ q = "esc_hex_exp_second" /\ p = cuts[j] + 3 /\ cuts[j + 1] = cuts[j] + 4
                /\ h = t[p]

\* Within a lexeme of any kind.
Inside(t, x, q, h, s, p) ==
  \/ x.type \in {"line", "comment"} /\ InsideComment(t, x, q, p)
  \/ x.type = "identifier" /\ InsideName(t, x, q, s, p)
  \/ x.type = "string" /\ InsideString(t, x, q, h, s, p)

\* A lexeme is left with its token, if it is one.
Leaves(x, q, c, s, p) ==
  /\ NextState(q, c) = "start"
  /\ x.to = IF Consumed(q, c) THEN p + 1 ELSE p
  /\ IF IsToken(x)
     THEN x.type = TokenType(q, c)
          /\ (x.type \in {"identifier", "string"} => x.string = TokenString(q, c, s))
     ELSE TokenType(q, c) = NoToken

\* Or the automaton goes on within it.
GoesOn(t, x, q, c, s, p) ==
  /\ NextState(q, c) \notin {"invalid", "start"} /\ TokenType(q, c) = NoToken
  /\ Inside(t, x, NextState(q, c), IF q = "esc_hex_exp_first" THEN c ELSE hex,
            TokenString(q, c, s), p + 1)

\* The types of the lexemes differ.
LEMMA TypesApart ==
  /\ NoToken # "identifier" /\ NoToken \notin Punctuation /\ "identifier" \notin Punctuation
  /\ "string" \notin Punctuation /\ "line" \notin Punctuation /\ "comment" \notin Punctuation
  /\ "blank" \notin Punctuation /\ NoToken # "string"
  /\ \A d \in Blank : d \notin Punctuation
BY DEF NoToken, Punctuation, Blank

\* A character of a comment leads on within it, or out of it at its end.
LEMMA ThroughComment ==
  ASSUME NEW t, NEW x, Lexeme(t, x), NEW p \in Nat, p < Len(t), Len(t) \in Nat,
         NEW q, NEW s, NEW c, c = t[p + 1], x.type \in {"line", "comment"},
         (q = "start" /\ p = x.from) \/ InsideComment(t, x, q, p)
  PROVE  Leaves(x, q, c, s, p) \/ GoesOn(t, x, q, c, s, p)
<1>1. x.from \in Nat /\ x.to \in Nat /\ x.from < x.to
  BY DEF Lexeme
<1>2. /\ x.type = "line" => Comment1(t, x.from, x.to)
      /\ x.type = "comment" => CommentN(t, x.from, x.to)
  BY TypesApart DEF Lexeme
<1>3. ASSUME NextState(q, c) \in Comments, TokenType(q, c) = NoToken,
             InsideComment(t, x, NextState(q, c), p + 1)
      PROVE  GoesOn(t, x, q, c, s, p)
  <2>1. NextState(q, c) \notin {"invalid", "start"}
    BY <1>3 DEF Comments
  <2> QED
    BY <1>3, <2>1, Zenon DEF GoesOn, Inside
<1>4. ASSUME NextState(q, c) = "start", TokenType(q, c) = NoToken, x.to = p + 1
      PROVE  Leaves(x, q, c, s, p)
  <2>1. ~IsToken(x)
    BY DEF IsToken
  <2>2. Consumed(q, c)
    BY <1>4, TypesApart, Zenon DEF Consumed
  <2> QED
    BY <1>4, <2>1, <2>2, Zenon DEF Leaves
<1>5. CASE q = "start" /\ p = x.from
  <2>1. c = "/"
    BY <1>2, <1>5, Zenon DEF Comment1, CommentN
  <2>2. "/" \notin Punctuation
    BY DEF Punctuation
  <2>3. NextState(q, c) = "comm_start" /\ TokenType(q, c) = NoToken
    BY <1>5, <2>1, <2>2, FromStart, Zenon
  <2>4. InsideComment(t, x, NextState(q, c), p + 1)
    BY <1>5, <2>3, Zenon DEF InsideComment
  <2>5. NextState(q, c) \in Comments
    BY <2>3, Zenon DEF Comments
  <2> QED
    BY <1>3, <2>3, <2>4, <2>5, Zenon
<1>6. CASE p = x.from + 1 /\ q = "comm_start"
  <2>1. p + 1 = x.from + 2 /\ x.to >= x.from + 3 /\ TokenType(q, c) = NoToken
    <3>1. x.to >= x.from + 3 \/ x.to >= x.from + 4
      BY <1>2, Zenon DEF Comment1, CommentN
    <3>3. TokenType(q, c) = NoToken
      BY <1>6, InComments, Zenon DEF Comments
    <3>4. p + 1 = x.from + 2 /\ x.to >= x.from + 3
      BY <1>1, <1>6, <3>1
    <3> QED
      BY <3>3, <3>4
  <2>2. p + 1 \in x.from + 2 .. x.to - 1
    BY <1>1, <2>1
  <2>3. CASE x.type = "line"
    <3>1. c = "/"
      BY <1>2, <2>1, <2>3, Zenon DEF Comment1
    <3>2. NextState(q, c) = "in_oneline"
      BY <1>6, <3>1, InComments, Zenon
    <3> QED
      BY <1>3, <2>1, <2>2, <2>3, <3>2, Zenon DEF Comments, InsideComment
  <2>4. CASE x.type = "comment"
    <3>1. c = "*"
      BY <1>2, <2>1, <2>4, Zenon DEF CommentN
    <3>2. NextState(q, c) = "in_multiline"
      BY <1>6, <3>1, InComments, Zenon
    <3> QED
      BY <1>3, <2>1, <2>2, <2>4, <3>2, Zenon DEF Comments, InsideComment
  <2> QED
    BY <2>3, <2>4
<1>7. CASE x.type = "line" /\ p \in x.from + 2 .. x.to - 1 /\ q = "in_oneline"
  <2>1. TokenType(q, c) = NoToken
    BY <1>7, InComments, Zenon DEF Comments
  <2>2. NextState(q, c) = IF c = "\n" THEN "start" ELSE "in_oneline"
    BY <1>7, InComments, Zenon
  <2>3. CASE p + 1 = x.to
    <3>1. c = "\n"
      BY <1>2, <1>7, <2>3, Zenon DEF Comment1
    <3> QED
      BY <1>4, <2>1, <2>2, <2>3, <3>1, Zenon
  <2>4. CASE p + 1 # x.to
    <3>1. p + 1 \in x.from + 3 .. x.to - 1 /\ p + 1 \in x.from + 2 .. x.to - 1
      BY <1>1, <1>7, <2>4
    <3>2. c # "\n"
      BY <1>2, <1>7, <3>1, Zenon DEF Comment1
    <3> QED
      BY <1>3, <1>7, <2>1, <2>2, <3>1, <3>2, Zenon DEF Comments, InsideComment
  <2> QED
    BY <2>3, <2>4
<1>8. CASE /\ x.type = "comment" /\ p \in x.from + 2 .. x.to - 1
           /\ q = IF p # x.from + 2 /\ t[p] = "*" THEN "multiline_end" ELSE "in_multiline"
  <2>1. TokenType(q, c) = NoToken
    BY <1>8, InComments, Zenon DEF Comments
  <2>2. /\ x.to >= x.from + 4 /\ t[x.to - 1] = "*" /\ t[x.to] = "/"
        /\ \A n \in x.from + 3 .. x.to - 2 : ~(t[n] = "*" /\ t[n + 1] = "/")
    BY <1>2, <1>8, Zenon DEF CommentN
  <2>3. CASE p + 1 = x.to
    <3>1. c = "/" /\ p = x.to - 1 /\ p # x.from + 2
      BY <1>1, <2>2, <2>3
    <3>2. q = "multiline_end"
      BY <1>8, <2>2, <3>1, Zenon
    <3> QED
      BY <1>4, <2>1, <2>3, <3>1, <3>2, InComments, Zenon
  <2>4. CASE p + 1 # x.to
    <3>1. p + 1 \in x.from + 2 .. x.to - 1 /\ p + 1 # x.from + 2
          /\ (p # x.from + 2 => p \in x.from + 3 .. x.to - 2)
      BY <1>1, <1>8, <2>4
    <3>2. NextState(q, c) = IF c = "*" THEN "multiline_end" ELSE "in_multiline"
      <4>1. CASE q = "multiline_end"
        <5>1. t[p] = "*" /\ p # x.from + 2
          BY <1>8, <4>1
        <5>2. c # "/"
          BY <2>2, <3>1, <5>1, Zenon
        <5>3. CASE c = "*"
          BY <4>1, <5>3, InComments, Zenon
        <5>4. CASE c # "*"
          <6>1. NextState("multiline_end", c) = "in_multiline"
            BY <5>2, <5>4, InComments
          <6> QED
            BY <4>1, <5>4, <6>1
        <5> QED
          BY <5>3, <5>4
      <4>2. CASE q # "multiline_end"
        <5>1. q = "in_multiline"
          BY <1>8, <4>2, Zenon
        <5> QED
          BY <5>1, InComments, Zenon
      <4> QED
        BY <4>1, <4>2
    <3>3. InsideComment(t, x, NextState(q, c), p + 1)
      BY <1>8, <3>1, <3>2, Zenon DEF InsideComment
    <3>4. NextState(q, c) \in Comments
      BY <3>2 DEF Comments
    <3> QED
      BY <1>3, <2>1, <3>3, <3>4, Zenon
  <2> QED
    BY <2>3, <2>4
<1> QED
  BY <1>5, <1>6, <1>7, <1>8, Zenon DEF InsideComment

\* One element more of a piece of a sequence.
LEMMA PieceGrows ==
  ASSUME NEW S, NEW t \in Seq(S), NEW a \in Nat, NEW p \in Nat, a <= p, p < Len(t)
  PROVE  Append(SubSeq(t, a + 1, p), t[p + 1]) = SubSeq(t, a + 1, p + 1)
<1> DEFINE u == SubSeq(t, a + 1, p)
           v == SubSeq(t, a + 1, p + 1)
           w == Append(u, t[p + 1])
<1>1. /\ u \in Seq(S) /\ Len(u) = p - a /\ \A k \in 1 .. p - a : u[k] = t[a + k]
  OBVIOUS
<1>2. /\ v \in Seq(S) /\ Len(v) = (p + 1) - a /\ \A k \in 1 .. (p + 1) - a : v[k] = t[a + k]
  OBVIOUS
<1>3. t[p + 1] \in S
  OBVIOUS
<1> HIDE DEF u, v
<1>4. /\ w \in Seq(S) /\ Len(w) = (p + 1) - a
      /\ \A k \in 1 .. (p + 1) - a : w[k] = t[a + k]
  BY <1>1, <1>3
<1> HIDE DEF w
<1>5. \A k \in 1 .. Len(w) : w[k] = v[k]
  BY <1>2, <1>4
<1>6. w = v
  BY <1>2, <1>4, <1>5
<1> QED
  BY <1>6 DEF w, u, v

\* The same for a name, of which the character behind it is the end.
LEMMA ThroughName ==
  ASSUME NEW S, NEW t \in Seq(S), NEW x, Lexeme(t, x), NEW p \in Nat, p < Len(t),
         NEW q, NEW s, NEW c, c = t[p + 1], x.type = "identifier",
         (q = "start" /\ p = x.from) \/ InsideName(t, x, q, s, p)
  PROVE  Leaves(x, q, c, s, p) \/ GoesOn(t, x, q, c, s, p)
<1>1. /\ x.from \in Nat /\ x.to \in Nat /\ x.from < x.to /\ Len(t) \in Nat
      /\ Identifier(t, x.from, x.to) /\ x.string = SubSeq(t, x.from + 1, x.to)
  BY TypesApart DEF Lexeme
<1>2. IsToken(x)
  BY DEF IsToken
<1>3. CASE q = "start" /\ p = x.from
  <2>1. c \in Alpha /\ c \notin Punctuation
    <3>1. t[x.from + 1] \in Alpha
      BY <1>1, Zenon DEF Identifier
    <3>2. \A d \in Alpha : d \notin Punctuation
      BY DEF Alpha, Punctuation
    <3> QED
      BY <1>3, <3>1, <3>2, Zenon
  <2>2. NextState("start", c) = "in_identifier" /\ TokenString("start", c, s) = <<c>>
    BY <2>1, FromStart, Zenon
  <2>3. TokenType("start", c) = NoToken
    BY <2>1, FromStart, Zenon
  <2>4. <<c>> = SubSeq(t, x.from + 1, p + 1)
    <3>1. x.from + 1 = p + 1 /\ p + 1 \in 1 .. Len(t)
      BY <1>1, <1>3
    <3> QED
      BY <3>1
  <2>5. p + 1 \in x.from + 1 .. x.to
    BY <1>1, <1>3
  <2>6. InsideName(t, x, "in_identifier", <<c>>, p + 1)
    BY <2>4, <2>5, Zenon DEF InsideName
  <2> QED
    BY <1>3, <2>2, <2>3, <2>6, Zenon DEF GoesOn, Inside
<1>4. CASE InsideName(t, x, q, s, p)
  <2>1. p \in x.from + 1 .. x.to /\ q = "in_identifier" /\ s = SubSeq(t, x.from + 1, p)
    BY <1>4, Zenon DEF InsideName
  <2>2. CASE p = x.to
    <3>1. c \notin InIdentifier
      BY <1>1, <2>2, Zenon DEF Identifier
    <3>2. /\ NextState(q, c) = "start" /\ TokenType(q, c) = "identifier"
          /\ TokenString(q, c, s) = s
      BY <2>1, <3>1, InNames, Zenon
    <3>3. s = x.string
      BY <1>1, <2>1, <2>2, Zenon
    <3> QED
      BY <1>2, <2>2, <3>2, <3>3, Zenon DEF Leaves, Consumed
  <2>3. CASE p # x.to
    <3>1. p + 1 \in x.from + 1 .. x.to
      BY <1>1, <2>1, <2>3
    <3>2. c \in InIdentifier
      BY <1>1, <3>1, Zenon DEF Identifier
    <3>3. /\ NextState(q, c) = "in_identifier" /\ TokenType(q, c) = NoToken
          /\ TokenString(q, c, s) = Append(s, c)
      BY <2>1, <3>2, InNames, Zenon
    <3>4. Append(s, c) = SubSeq(t, x.from + 1, p + 1)
      <4>1. x.from <= p
        BY <1>1, <2>1
      <4> QED
        BY <1>1, <2>1, <4>1, PieceGrows, Zenon
    <3>5. InsideName(t, x, NextState(q, c), TokenString(q, c, s), p + 1)
      BY <3>1, <3>3, <3>4, Zenon DEF InsideName
    <3>6. NextState(q, c) \notin {"invalid", "start"}
      BY <3>3
    <3> QED
      BY <3>3, <3>5, <3>6, Zenon DEF GoesOn, Inside
  <2> QED
    BY <2>2, <2>3
<1> QED
  BY <1>3, <1>4

\* The next character of a string stands between its cuts.
LEMMA NextStands ==
  ASSUME NEW t, NEW str, NEW cuts, NEW a, NEW b, SpellsBy(t, str, cuts, a, b),
         Len(str) \in Nat, NEW j \in 0 .. Len(str), j < Len(str)
  PROVE  Stands(t, str[j + 1], cuts[j], cuts[j + 1]) /\ cuts[j + 1] \in a .. b
<1>1. j + 1 \in 1 .. Len(str) /\ (j + 1) - 1 = j
  OBVIOUS
<1> QED
  BY <1>1, Zenon DEF SpellsBy

\* What has been read of it when that one is complete.
LEMMA NextCut ==
  ASSUME NEW t, NEW x, NEW cuts, NEW S, x.string \in Seq(S),
         SpellsBy(t, x.string, cuts, x.from + 1, x.to - 1),
         NEW j \in 0 .. Len(x.string), j < Len(x.string), NEW h
  PROVE  InsideString(t, x, "in_str", h, Append(SubSeq(x.string, 1, j), x.string[j + 1]),
                      cuts[j + 1])
<1> DEFINE str == x.string
<1>1. Len(str) \in Nat
  OBVIOUS
<1>2. cuts[j + 1] \in x.from + 1 .. x.to - 1
  BY <1>1, NextStands, Zenon
<1>3. j + 1 \in 0 .. Len(str)
  BY <1>1
<1>4. Append(SubSeq(str, 1, j), str[j + 1]) = SubSeq(str, 1, j + 1)
  <2>1. 0 <= j /\ 0 \in Nat /\ j \in Nat /\ 0 + 1 = 1
    OBVIOUS
  <2> QED
    BY <2>1, PieceGrows, Zenon
<1> QED
  BY <1>2, <1>3, <1>4, Zenon DEF InsideString

\* And for a string.
LEMMA ThroughString ==
  ASSUME NEW t, NEW x, NEW p \in Nat, p < Len(t), Len(t) \in Nat, Lexeme(t, x),
         NEW q, NEW s, NEW c, c = t[p + 1], x.type = "string",
         (q = "start" /\ p = x.from) \/ InsideString(t, x, q, hex, s, p)
  PROVE  Leaves(x, q, c, s, p) \/ GoesOn(t, x, q, c, s, p)
<1> DEFINE str == x.string
           a == x.from + 1
           e == x.to - 1
           h == IF q = "esc_hex_exp_first" THEN c ELSE hex
<1>1. /\ x.from \in Nat /\ x.to \in Nat /\ a \in Nat /\ a <= e /\ e \in Nat /\ e + 1 = x.to
      /\ t[a] = Quote /\ t[x.to] = Quote /\ Spells(t, str, a, e)
  <2>1. x.from \in Nat /\ x.to \in 1 .. Len(t) /\ InQuotes(t, str, a, x.to)
    BY TypesApart DEF Lexeme
  <2>2. a < x.to /\ t[a] = Quote /\ t[x.to] = Quote /\ Spells(t, str, a, e)
    BY <2>1, Zenon DEF InQuotes
  <2> QED
    BY <2>1, <2>2
<1>2. PICK S : str \in Seq(S)
  BY <1>1, Zenon DEF Spells
<1>3. Len(str) \in Nat
  BY <1>2
<1>4. IsToken(x)
  BY DEF IsToken
<1> HIDE DEF str, a, e
\* The automaton goes on.
<1>5. ASSUME NEW r, NextState(q, c) = r, r \in StringStates, TokenType(q, c) = NoToken,
             InsideString(t, x, r, h, TokenString(q, c, s), p + 1)
      PROVE  GoesOn(t, x, q, c, s, p)
  <2>1. r \notin {"invalid", "start"}
    BY <1>5 DEF StringStates
  <2> QED
    BY <1>5, <2>1, Zenon DEF GoesOn, Inside
<1>6. /\ "in_str" \in StringStates /\ "in_esc" \in StringStates
      /\ "esc_hex_exp_first" \in StringStates /\ "esc_hex_exp_second" \in StringStates
      /\ Quote # "\\" /\ "x" # Quote
  BY DEF StringStates, Quote
<1>7. CASE q = "start" /\ p = x.from
  <2>1. p + 1 = a /\ c = Quote
    BY <1>1, <1>7 DEF a
  <2>2. NextState("start", c) = "in_str" /\ TokenString("start", c, s) = <<>>
    BY <2>1, FromStart, Zenon
  <2>3. TokenType("start", c) = NoToken
    <3>1. Quote \notin Punctuation
      BY DEF Quote, Punctuation
    <3> QED
      BY <2>1, <3>1, FromStart, Zenon
  <2>4. PICK cuts : SpellsBy(t, str, cuts, a, e)
    BY <1>1, Zenon DEF Spells
  <2>5. cuts[0] = a
    BY <2>4, Zenon DEF SpellsBy
  <2>6. cuts[0] \in a .. e /\ 0 \in 0 .. Len(str) /\ SubSeq(str, 1, 0) = <<>>
    BY <1>1, <1>2, <1>3, <2>5
  <2>7. InsideString(t, x, "in_str", h, <<>>, p + 1)
    BY <2>1, <2>4, <2>5, <2>6, Zenon DEF InsideString, str, a, e
  <2> QED
    BY <1>5, <1>6, <1>7, <2>2, <2>3, <2>7, Zenon
<1>8. CASE InsideString(t, x, q, hex, s, p)
  <2>0. PICK cuts : \E j \in 0 .. Len(str) :
          /\ SpellsBy(t, str, cuts, a, e)
          /\ s = SubSeq(str, 1, j) /\ cuts[j] \in a .. e
          /\ \/ q = "in_str" /\ p = cuts[j]
             \/ /\ j < Len(str) /\ p < cuts[j + 1] /\ t[cuts[j] + 1] = "\\"
                /\ \/ q = "in_esc" /\ p = cuts[j] + 1
                   \/ q = "esc_hex_exp_first" /\ p = cuts[j] + 2 /\ cuts[j + 1] = cuts[j] + 4
                   \/ q = "esc_hex_exp_second" /\ p = cuts[j] + 3 /\ cuts[j + 1] = cuts[j] + 4
                      /\ hex = t[p]
    BY <1>8, Zenon DEF InsideString, str, a, e
  <2>1. PICK j \in 0 .. Len(str) :
          /\ SpellsBy(t, str, cuts, a, e)
          /\ s = SubSeq(str, 1, j) /\ cuts[j] \in a .. e
          /\ \/ q = "in_str" /\ p = cuts[j]
             \/ /\ j < Len(str) /\ p < cuts[j + 1] /\ t[cuts[j] + 1] = "\\"
                /\ \/ q = "in_esc" /\ p = cuts[j] + 1
                   \/ q = "esc_hex_exp_first" /\ p = cuts[j] + 2 /\ cuts[j + 1] = cuts[j] + 4
                   \/ q = "esc_hex_exp_second" /\ p = cuts[j] + 3 /\ cuts[j + 1] = cuts[j] + 4
                      /\ hex = t[p]
    BY <2>0, Zenon
  <2> DEFINE b == cuts[j]
             d == cuts[j + 1]
             n == str[j + 1]
  <2>2. ASSUME j < Len(str)
        PROVE  /\ Stands(t, n, b, d) /\ d \in a .. e
               /\ InsideString(t, x, "in_str", h, Append(s, n), d)
    <3>1. Stands(t, n, b, d) /\ d \in a .. e
      BY <1>3, <2>1, <2>2, NextStands, Zenon
    <3>2. InsideString(t, x, "in_str", h, Append(SubSeq(str, 1, j), n), d)
      BY <1>2, <2>1, <2>2, NextCut, Zenon DEF str, a, e
    <3> QED
      BY <2>1, <3>1, <3>2, Zenon
  <2>3. b \in Nat
    BY <1>1, <2>1
  \* Within an escape.
  <2>4. ASSUME NEW r, j < Len(str), p + 1 < d, t[b + 1] = "\\",
               \/ r = "in_esc" /\ p = b
               \/ r = "esc_hex_exp_first" /\ p = b + 1 /\ d = b + 4
               \/ r = "esc_hex_exp_second" /\ p = b + 2 /\ d = b + 4 /\ h = c,
               NextState(q, c) = r, TokenType(q, c) = NoToken, TokenString(q, c, s) = s
        PROVE  GoesOn(t, x, q, c, s, p)
    <3>1. /\ r = "in_esc" /\ p = b => p + 1 = b + 1
          /\ p = b + 1 => p + 1 = b + 2
          /\ p = b + 2 => p + 1 = b + 3
      BY <2>3
    <3>2. InsideString(t, x, r, h, s, p + 1)
      BY <2>1, <2>4, <3>1, Zenon DEF InsideString, str, a, e
    <3>3. r \in StringStates
      BY <1>6, <2>4, Zenon
    <3> QED
      BY <1>5, <2>4, <3>2, <3>3, Zenon
  \* The end of a character.
  <2>5. ASSUME j < Len(str), d = p + 1, NextState(q, c) = "in_str",
               TokenType(q, c) = NoToken, TokenString(q, c, s) = Append(s, n)
        PROVE  GoesOn(t, x, q, c, s, p)
    BY <1>5, <1>6, <2>2, <2>5, Zenon
  <2>6. CASE q = "in_str" /\ p = b /\ j = Len(str)
    <3>1. b = e
      BY <2>1, <2>6, Zenon DEF SpellsBy
    <3>2. c = Quote /\ x.to = p + 1
      BY <1>1, <2>6, <3>1
    <3>3. s = str
      BY <1>2, <2>1, <2>6
    <3>4. NextState(q, c) = "start" /\ TokenType(q, c) = "string" /\ TokenString(q, c, s) = s
      BY <2>6, <3>2, InStrings
    <3>5. Consumed(q, c)
      BY <3>4 DEF Consumed
    <3> QED
      BY <1>4, <3>2, <3>3, <3>4, <3>5, Zenon DEF Leaves, str
  <2>7. CASE q = "in_str" /\ p = b /\ j # Len(str)
    <3>1. j < Len(str)
      BY <1>3, <2>1, <2>7
    <3>2. CASE d = b + 1 /\ n = t[d] /\ n \notin {Quote, "\\"}
      <4>1. n = c /\ d = p + 1 /\ c \notin {Quote, "\\"} /\ c # Quote
        BY <2>7, <3>2
      <4>2. /\ NextState("in_str", c) = "in_str" /\ TokenString("in_str", c, s) = Append(s, c)
            /\ TokenType("in_str", c) = NoToken
        BY <4>1, InStrings
      <4> QED
        BY <2>5, <2>7, <3>1, <4>1, <4>2, Zenon
    <3>3. CASE d \in Nat /\ d >= b + 2 /\ t[b + 1] = "\\"
      <4>1. c = "\\" /\ p + 1 < d
        BY <2>3, <2>7, <3>3
      <4>2. /\ NextState("in_str", c) = "in_esc" /\ TokenString("in_str", c, s) = s
            /\ TokenType("in_str", c) = NoToken
        BY <1>6, <4>1, InStrings, Zenon
      <4> QED
        BY <2>4, <2>7, <3>1, <3>3, <4>1, <4>2, Zenon
    <3>4. \/ d = b + 1 /\ n = t[d] /\ n \notin {Quote, "\\"}
          \/ d = b + 2 /\ t[b + 1] = "\\"
          \/ d = b + 4 /\ t[b + 1] = "\\"
      BY <2>2, <3>1, Zenon DEF Stands
    <3>5. (d = b + 2 \/ d = b + 4) => d \in Nat /\ d >= b + 2
      BY <2>3
    <3> QED
      BY <3>2, <3>3, <3>4, <3>5
  <2>8. CASE q # "in_str"
    <3>1. /\ j < Len(str) /\ p < d /\ t[b + 1] = "\\"
          /\ \/ q = "in_esc" /\ p = b + 1
             \/ q = "esc_hex_exp_first" /\ p = b + 2 /\ d = b + 4
             \/ q = "esc_hex_exp_second" /\ p = b + 3 /\ d = b + 4 /\ hex = t[p]
      BY <2>1, <2>8, Zenon
    <3>2. Stands(t, n, b, d)
      BY <2>2, <3>1, Zenon
    <3>3. CASE q = "in_esc" /\ p = b + 1
      <4>1. d # b + 1
        BY <2>3, <3>1, <3>3
      <4>2. CASE d = b + 2 /\ t[d] \in DOMAIN Escapes /\ n = Escapes[t[d]]
        <5>1. d = p + 1
          BY <2>3, <3>3, <4>2
        <5>2. c = t[d]
          BY <5>1, Zenon
        <5>3. /\ NextState("in_esc", c) = "in_str"
              /\ TokenString("in_esc", c, s) = Append(s, Escapes[c])
              /\ TokenType("in_esc", c) = NoToken
          BY <4>2, <5>2, InStrings, Zenon
        <5> QED
          BY <2>5, <3>1, <3>3, <4>2, <5>1, <5>2, <5>3, Zenon
      <4>3. CASE d = b + 4 /\ t[b + 2] = "x"
        <5>1. p + 1 = b + 2
          BY <2>3, <3>3
        <5>2. c = "x"
          BY <4>3, <5>1, Zenon
        <5>3. /\ NextState("in_esc", c) = "esc_hex_exp_first"
              /\ TokenString("in_esc", c, s) = s /\ TokenType("in_esc", c) = NoToken
          BY <5>2, InStrings, Zenon
        <5>4. p + 1 < d
          BY <2>3, <3>3, <4>3
        <5> QED
          BY <2>4, <3>1, <3>3, <4>3, <5>3, <5>4, Zenon
      <4> QED
        BY <3>2, <4>1, <4>2, <4>3, Zenon DEF Stands
    <3>4. CASE q = "esc_hex_exp_first" /\ p = b + 2 /\ d = b + 4
      <4>1. /\ NextState("esc_hex_exp_first", c) = "esc_hex_exp_second"
            /\ TokenString("esc_hex_exp_first", c, s) = s
            /\ TokenType("esc_hex_exp_first", c) = NoToken
        BY InStrings, Zenon
      <4>2. h = c
        BY <3>4
      <4>3. p + 1 < d
        BY <2>3, <3>4
      <4> QED
        BY <2>4, <3>1, <3>4, <4>1, <4>2, <4>3, Zenon
    <3>5. CASE q = "esc_hex_exp_second" /\ p = b + 3 /\ d = b + 4 /\ hex = t[p]
      <4>1. d # b + 1 /\ d # b + 2 /\ d = p + 1
        BY <2>3, <3>5
      <4>2. n = HexChar(t[b + 3], t[d])
        BY <3>2, <4>1, Zenon DEF Stands
      <4>3. n = HexChar(hex, c)
        BY <3>5, <4>1, <4>2, Zenon
      <4>4. /\ NextState("esc_hex_exp_second", c) = "in_str"
            /\ TokenString("esc_hex_exp_second", c, s) = Append(s, HexChar(hex, c))
            /\ TokenType("esc_hex_exp_second", c) = NoToken
        BY InStrings, Zenon
      <4> QED
        BY <2>5, <3>1, <3>5, <4>1, <4>3, <4>4, Zenon
    <3> QED
      BY <3>1, <3>3, <3>4, <3>5
  <2> QED
    BY <2>1, <2>6, <2>7, <2>8, Zenon
<1> QED
  BY <1>7, <1>8

\* A lexeme that has begun is not read to its end, or is a name.
LEMMA InsideRange ==
  ASSUME NEW t, Len(t) \in Nat, NEW x, Lexeme(t, x), NEW q, NEW h, NEW s, NEW p,
         Inside(t, x, q, h, s, p)
  PROVE  p \in Nat /\ x.from < p /\ p < Len(t) /\ q \in ScannerStates /\ q # "start"
<1>1. x.from \in Nat /\ x.to \in Nat /\ x.from < x.to /\ x.to <= Len(t)
  BY DEF Lexeme
<1>2. CASE x.type \in {"line", "comment"} /\ InsideComment(t, x, q, p)
  <2>1. x.to >= x.from + 3 \/ x.to >= x.from + 4
    BY <1>2, TypesApart DEF Lexeme, Comment1, CommentN
  <2>2. p = x.from + 1 \/ p \in x.from + 2 .. x.to - 1
    BY <1>2, Zenon DEF InsideComment
  <2>3. q \in Comments
    BY <1>2 DEF InsideComment, Comments
  <2>4. q \in ScannerStates /\ q # "start"
    BY <2>3 DEF Comments, ScannerStates
  <2> QED
    BY <1>1, <2>1, <2>2, <2>4
<1>3. CASE x.type = "identifier" /\ InsideName(t, x, q, s, p)
  <2>1. x.to < Len(t)
    BY <1>3, TypesApart DEF Lexeme, Identifier
  <2>2. p \in x.from + 1 .. x.to /\ q = "in_identifier"
    BY <1>3, Zenon DEF InsideName
  <2> QED
    BY <1>1, <2>1, <2>2 DEF ScannerStates
<1>4. CASE x.type = "string" /\ InsideString(t, x, q, h, s, p)
  <2>1. PICK cuts : \E j \in 0 .. Len(x.string) :
          /\ SpellsBy(t, x.string, cuts, x.from + 1, x.to - 1)
          /\ cuts[j] \in x.from + 1 .. x.to - 1
          /\ \/ q = "in_str" /\ p = cuts[j]
             \/ /\ j < Len(x.string) /\ p < cuts[j + 1]
                /\ \/ q = "in_esc" /\ p = cuts[j] + 1
                   \/ q = "esc_hex_exp_first" /\ p = cuts[j] + 2
                   \/ q = "esc_hex_exp_second" /\ p = cuts[j] + 3
    BY <1>4, Zenon DEF InsideString
  <2>2. PICK j \in 0 .. Len(x.string) :
          /\ SpellsBy(t, x.string, cuts, x.from + 1, x.to - 1)
          /\ cuts[j] \in x.from + 1 .. x.to - 1
          /\ \/ q = "in_str" /\ p = cuts[j]
             \/ /\ j < Len(x.string) /\ p < cuts[j + 1]
                /\ \/ q = "in_esc" /\ p = cuts[j] + 1
                   \/ q = "esc_hex_exp_first" /\ p = cuts[j] + 2
                   \/ q = "esc_hex_exp_second" /\ p = cuts[j] + 3
    BY <2>1, Zenon
  <2>3. q \in StringStates
    BY <2>2 DEF StringStates
  <2>4. q \in ScannerStates /\ q # "start"
    BY <2>3 DEF StringStates, ScannerStates
  <2>5. cuts[j] \in Nat /\ x.from < cuts[j] /\ cuts[j] < Len(t)
    BY <1>1, <2>2
  <2>6. CASE q = "in_str" /\ p = cuts[j]
    BY <2>4, <2>5, <2>6
  <2>7. CASE q # "in_str"
    <3>1. j < Len(x.string) /\ p < cuts[j + 1]
          /\ (p = cuts[j] + 1 \/ p = cuts[j] + 2 \/ p = cuts[j] + 3)
      BY <2>2, <2>7, Zenon
    <3>2. PICK S : x.string \in Seq(S)
      BY <1>4, TypesApart, Zenon DEF Lexeme, InQuotes, Spells
    <3>3. Len(x.string) \in Nat
      BY <3>2
    <3>4. cuts[j + 1] \in x.from + 1 .. x.to - 1
      BY <2>2, <3>1, <3>3, NextStands, Zenon
    <3> DEFINE b == cuts[j]
               d == cuts[j + 1]
    <3>5. /\ b \in Nat /\ x.from < b /\ p < d /\ d \in x.from + 1 .. x.to - 1
          /\ p = b + 1 \/ p = b + 2 \/ p = b + 3
      BY <2>5, <3>1, <3>4, Zenon
    <3> HIDE DEF b, d
    <3>6. p \in Nat /\ x.from < p /\ p < Len(t)
      BY <1>1, <3>5
    <3> QED
      BY <2>4, <3>6
  <2> QED
    BY <2>2, <2>6, <2>7, Zenon
<1> QED
  BY <1>2, <1>3, <1>4, Zenon DEF Inside

\* From its first character on the automaton follows a lexeme to its end.
LEMMA Through ==
  ASSUME NEW S, NEW t \in Seq(S), NEW x, Lexeme(t, x), NEW p \in Nat, p < Len(t),
         NEW q, NEW s, NEW c, c = t[p + 1],
         (q = "start" /\ p = x.from) \/ Inside(t, x, q, hex, s, p)
  PROVE  Leaves(x, q, c, s, p) \/ GoesOn(t, x, q, c, s, p)
<1>1. Len(t) \in Nat
  OBVIOUS
<1>2. CASE x.type \in {"line", "comment"}
  <2>1. (q = "start" /\ p = x.from) \/ InsideComment(t, x, q, p)
    BY <1>2 DEF Inside
  <2> QED
    BY <1>1, <1>2, <2>1, ThroughComment, Zenon
<1>3. CASE x.type = "identifier"
  <2>1. (q = "start" /\ p = x.from) \/ InsideName(t, x, q, s, p)
    BY <1>3 DEF Inside
  <2> QED
    BY <1>3, <2>1, ThroughName, Zenon
<1>4. CASE x.type = "string"
  <2>1. (q = "start" /\ p = x.from) \/ InsideString(t, x, q, hex, s, p)
    BY <1>4 DEF Inside
  <2> QED
    BY <1>1, <1>4, <2>1, ThroughString, Zenon
<1>5. CASE x.type \notin {"line", "comment", "identifier", "string"}
  <2>1. q = "start" /\ p = x.from
    BY <1>5 DEF Inside
  <2>2. /\ x.to = p + 1
        /\ (x.type = "blank" /\ c \in Blank) \/ (x.type \in Punctuation /\ c = x.type)
    BY <1>5, <2>1 DEF Lexeme
  <2>3. NextState(q, c) = "start"
    <3>1. c \in Blank \union Punctuation
      BY <2>2
    <3> QED
      BY <2>1, <3>1, FromStart, Zenon
  <2>4. CASE x.type = "blank" /\ c \in Blank
    <3>1. c \notin Punctuation
      BY <2>4, TypesApart, Zenon
    <3>2. TokenType(q, c) = NoToken
      BY <2>1, <3>1, FromStart, Zenon
    <3>3. Consumed(q, c) /\ ~IsToken(x)
      BY <2>4, <3>2, TypesApart DEF Consumed, IsToken
    <3> QED
      BY <2>2, <2>3, <3>2, <3>3, Zenon DEF Leaves
  <2>5. CASE x.type \in Punctuation /\ c = x.type
    <3>1. TokenType(q, c) = c
      BY <2>1, <2>5, FromStart, Zenon
    <3>2. Consumed(q, c)
      BY <2>5, <3>1, TypesApart, Zenon DEF Consumed
    <3>3. IsToken(x)
      BY <2>5, TypesApart DEF IsToken
    <3> QED
      BY <1>5, <2>2, <2>3, <2>5, <3>1, <3>2, <3>3 DEF Leaves
  <2> QED
    BY <2>2, <2>4, <2>5
<1> QED
  BY <1>2, <1>3, <1>4, <1>5

-----------------------------------------------------------------------------
(* A reading of the text, and where the parser stands in it.               *)

\* A reading without a list of more than ten elements.
ShortReading(t, L, C) == Reading(t, L, C) /\ \A k \in 0 .. Len(L) : Short(C[k])

\* The parser has what the document c says.
Answers(c) == Shape(c, stack) /\ Keyed(c, stack, path, values)

\* After k lexemes, of which the last token is still to be dealt with.
Pending(L, C, k) ==
  \/ token_t.type = NoToken /\ Answers(C[k])
  \/ \E j \in 0 .. k - 1 : /\ IsToken(L[j + 1]) /\ Matches(L[j + 1], token_t)
                           /\ Answers(C[j]) /\ C[k] = C[j + 1]

\* The scanner stands between two lexemes, or within one.
Scanning(L, k) ==
  /\ token.type = NoToken
  /\ \/ state = "start" /\ Place = End(L, k)
     \/ k < Len(L) /\ Inside(Text, L[k + 1], state, hex, token.string, Place)

\* It has found the token of the k-th, or no further one.
AtToken(L, k) ==
  k >= 1 /\ Place = End(L, k) /\ IsToken(L[k]) /\ Matches(L[k], token)

\* The scanner found no further token.
AtLast(L, k) ==
  token.type = NoToken /\ Place = End(L, k) /\ (source = "regular" => k = Len(L))

\* What the parser returns of a text with the reading L and C.
Outcome(L, C) ==
  /\ status = "ok" => \E k \in 0 .. Len(L) : /\ values = C[k].values
                                             /\ source = "regular" => k = Len(L)
  /\ status = "error" => source = "stream" \/ ~Opened

\* How far the parser is in the reading L and C, in each of its phases.
Keeps(L, C) ==
  /\ status # "running" => phase = "done"
  /\ phase = "open" =>
       Place = 0 /\ token_t.type = NoToken /\ Answers(C[0]) /\ ~Opened
  /\ phase = "scan" /\ scan = "busy" =>
       \E k \in 0 .. Len(L) : Pending(L, C, k) /\ Scanning(L, k)
  /\ phase = "scan" /\ scan = "ok" =>
       \E k \in 0 .. Len(L) : \/ AtLast(L, k) /\ Pending(L, C, k)
                              \/ AtToken(L, k) /\ Pending(L, C, k - 1)
  /\ phase = "scan" /\ scan = "error" => source = "stream"
  /\ phase = "parse" =>
       \E k \in 0 .. Len(L) : \/ AtLast(L, k) /\ Answers(C[k])
                              \/ AtToken(L, k) /\ Answers(C[k - 1])
  /\ phase = "done" => Outcome(L, C)

\* That holds of every reading the text has.
ReadingInv ==
  source # "directory" => \A L, C : ShortReading(Text, L, C) => Keeps(L, C)

\* Every lexeme has a type.
LEMMA LexemeTypes ==
  ASSUME NEW t, NEW x, Lexeme(t, x)
  PROVE  x.type # NoToken
BY DEF Lexeme, NoToken, Punctuation

\* A reading, lexeme by lexeme.
LEMMA ReadingFacts ==
  ASSUME NEW t, Len(t) \in Nat, NEW L, NEW C, ShortReading(t, L, C)
  PROVE  /\ Len(L) \in Nat /\ End(L, 0) = 0 /\ End(L, Len(L)) = Len(t)
         /\ C[0] = Beginning /\ Complete(C[Len(L)])
         /\ \A k \in 0 .. Len(L) : End(L, k) \in 0 .. Len(t) /\ Short(C[k])
         /\ \A k \in 0 .. Len(L) : End(L, k) = Len(t) => k = Len(L)
         /\ \A k \in 0 .. Len(L) : k < Len(L) =>
              /\ Lexeme(t, L[k + 1]) /\ L[k + 1].from = End(L, k)
              /\ L[k + 1].to = End(L, k + 1)
              /\ IF IsToken(L[k + 1])
                 THEN L[k + 1].type \in Allowed(C[k]) /\ C[k + 1] = After(C[k], L[k + 1])
                 ELSE C[k + 1] = C[k]
<1> DEFINE n == Len(L)
<1>1. Lexed(t, L, Len(t)) /\ Run(L, C, n) /\ Complete(C[n]) /\ \A k \in 0 .. n : Short(C[k])
  BY Zenon DEF ShortReading, Reading
<1>2. PICK S : L \in Seq(S)
  BY <1>1, Zenon DEF Lexed
<1>3. n \in Nat
  BY <1>2
<1>4. /\ \A k \in 1 .. n : Lexeme(t, L[k]) /\ L[k].from = End(L, k - 1)
      /\ End(L, n) = Len(t)
  BY <1>1, Zenon DEF Lexed
<1>5. /\ C[0] = Beginning
      /\ \A k \in 1 .. n :
           IF IsToken(L[k]) THEN L[k].type \in Allowed(C[k - 1]) /\ C[k] = After(C[k - 1], L[k])
           ELSE C[k] = C[k - 1]
  BY <1>1, Zenon DEF Run
<1> HIDE DEF n
<1>6. \A k \in 0 .. n : k < n => k + 1 \in 1 .. n /\ (k + 1) - 1 = k /\ k + 1 # 0
  BY <1>3
<1>7. \A k \in 1 .. n : End(L, k) = L[k].to
  BY <1>3 DEF End
<1>8. End(L, 0) = 0
  BY DEF End
<1>9. \A k \in 1 .. n : End(L, k) \in 1 .. Len(t) /\ L[k].from < End(L, k)
  <2> TAKE k \in 1 .. n
  <2>1. Lexeme(t, L[k])
    BY <1>4
  <2>2. L[k].to \in 1 .. Len(t) /\ L[k].from < L[k].to
    BY <2>1, Zenon DEF Lexeme
  <2> QED
    BY <1>7, <2>2, Zenon
<1>10. \A k \in 0 .. n : End(L, k) \in 0 .. Len(t)
  <2> TAKE k \in 0 .. n
  <2>1. CASE k = 0
    BY <1>8, <2>1
  <2>2. CASE k # 0
    <3>1. k \in 1 .. n
      BY <1>3, <2>2
    <3>2. End(L, k) \in 1 .. Len(t)
      BY <1>9, <3>1, Zenon
    <3> QED
      BY <3>2
  <2> QED
    BY <2>1, <2>2
<1>11. ASSUME NEW k \in 0 .. n, End(L, k) = Len(t) PROVE k = n
  <2>1. SUFFICES ASSUME k < n PROVE FALSE
    BY <1>3
  <2>2. k + 1 \in 1 .. n /\ (k + 1) - 1 = k
    BY <1>6, <2>1
  <2>3. L[k + 1].from = End(L, k) /\ L[k + 1].from < End(L, k + 1) /\ End(L, k + 1) \in 1 .. Len(t)
    BY <1>4, <1>9, <2>2, Zenon
  <2> QED
    BY <1>11, <2>3
<1> QED
  BY <1>1, <1>3, <1>4, <1>5, <1>6, <1>7, <1>8, <1>10, <1>11, Zenon DEF n

\* The parser as it begins.
LEMMA AnswersFirst ==
  ASSUME stack = <<Frame("top_level")>>, path = <<>>, values = <<>>
  PROVE  Answers(Beginning)
<1> DEFINE lv == <<Level("top_level", <<>>, 0)>>
<1>1. /\ Beginning.levels = lv /\ Beginning.expects = "entry"
      /\ Beginning.key = <<>> /\ Beginning.values = <<>>
  BY ConfigFields DEF Beginning
<1>2. /\ lv \in Seq({Level("top_level", <<>>, 0)}) /\ Len(lv) = 1
      /\ lv[1].kind = "top_level" /\ lv[1].path = <<>> /\ lv[1].n = 0
  BY DEF Level
<1>3. Len(stack) = 1 /\ stack[1].s = "top_level" /\ stack[1].list_counter = 0
  BY DEF Frame
<1>4. "top_level" \in Kinds
  BY DEF Kinds
<1>5. \A k \in 1 .. 1 : k = 1
  OBVIOUS
<1>6. <<>> \in Seq(PathChars)
  OBVIOUS
<1> HIDE DEF lv
<1>7. Shape(Beginning, stack)
  <2>1. \E S : lv \in Seq(S)
    BY <1>2, Zenon
  <2>2. \A k \in 1 .. Len(lv) : lv[k].kind \in Kinds /\ stack[k].s = lv[k].kind
    BY <1>2, <1>3, <1>4, <1>5
  <2>3. Len(lv) >= 1 /\ "entry" # "equals" /\ "entry" # "value"
        /\ "entry" \in {"entry", "equals", "value"}
    BY <1>2
  <2> QED
    BY <1>1, <1>2, <1>3, <2>1, <2>2, <2>3, Zenon DEF Shape
<1>8. Keyed(Beginning, stack, path, values)
  <2>1. Inner(Beginning).path = <<>>
    BY <1>1, <1>2 DEF Inner
  <2>2. \A k \in 1 .. Len(lv) :
          /\ stack[k].list_counter = lv[k].n /\ lv[k].path \in Seq(PathChars)
          /\ ~(k > 1)
    <3>1. lv[1].path \in Seq(PathChars) /\ stack[1].list_counter = lv[1].n /\ ~(1 > 1)
      BY <1>2, <1>3, <1>6
    <3>2. \A k \in 1 .. Len(lv) : k = 1
      BY <1>2
    <3> QED
      BY <3>1, <3>2, Zenon
  <2> QED
    BY <1>1, <2>1, <2>2, Zenon DEF Keyed
<1> QED
  BY <1>7, <1>8 DEF Answers

\* The scanner reads a character.
LEMMA CharFollowed ==
  ASSUME BufferInv, TokenInv, source # "directory", NEW L, NEW C, ShortReading(Text, L, C),
         ScanChar, UNCHANGED parserVars,
         NEW k \in 0 .. Len(L), Pending(L, C, k), Scanning(L, k)
  PROVE  \/ scan' = "busy" /\ \E m \in 0 .. Len(L) : (Pending(L, C, m) /\ Scanning(L, m))'
         \/ scan' = "ok" /\ \E m \in 0 .. Len(L) : (AtToken(L, m) /\ Pending(L, C, m - 1))'
<1> DEFINE p == Place
           c == Char
           n == Len(L)
           type == TokenType(state, c)
           string == TokenString(state, c, token.string)
<1>1. /\ p < Len(Text) /\ c = Text[p + 1] /\ BufferInv'
      /\ Place' = IF Consumed(state, c) THEN p + 1 ELSE p
  BY OneCharacter, Zenon
<1>2. /\ state' = NextState(state, c) /\ token' = [type |-> type, string |-> string]
      /\ hex' = IF state = "esc_hex_exp_first" THEN c ELSE hex
      /\ scan' = IF state' = "invalid" THEN "error" ELSE IF type # NoToken THEN "ok" ELSE "busy"
      /\ UNCHANGED <<file, source>>
  BY Zenon DEF ScanChar
<1>3. token'.type = type /\ token'.string = string
  BY <1>2
<1>4. Text \in Seq(STRING) /\ Len(Text) \in Nat /\ p \in Nat /\ Text' = Text
  BY <1>2, PlaceTyped, TextLength, ScannerAssumption DEF BufferInv, Text
<1>5. UNCHANGED <<token_t, stack, path, values>>
  BY Zenon DEF parserVars
<1>6. /\ n \in Nat
      /\ End(L, k) = Len(Text) => k = n
      /\ \A m \in 0 .. Len(L) : m < Len(L) =>
           /\ Lexeme(Text, L[m + 1]) /\ L[m + 1].from = End(L, m)
           /\ L[m + 1].to = End(L, m + 1)
           /\ IF IsToken(L[m + 1])
              THEN L[m + 1].type \in Allowed(C[m]) /\ C[m + 1] = After(C[m], L[m + 1])
              ELSE C[m + 1] = C[m]
  BY <1>4, ReadingFacts
<1>7. k < n
  <2>1. CASE k < n
    BY <2>1
  <2>2. CASE k = n /\ state = "start" /\ p = End(L, k)
    <3>1. End(L, n) = Len(Text)
      BY <1>4, ReadingFacts, Zenon
    <3> QED
      BY <1>1, <1>4, <2>2, <3>1
  <2> QED
    BY <1>6, <2>1, <2>2 DEF Scanning
<1> DEFINE x == L[k + 1]
<1>8. Lexeme(Text, x) /\ x.from = End(L, k) /\ x.to = End(L, k + 1)
      /\ (~IsToken(x) => C[k + 1] = C[k])
  BY <1>6, <1>7, Zenon
<1>9. (state = "start" /\ p = x.from) \/ Inside(Text, x, state, hex, token.string, p)
  BY <1>8, Zenon DEF Scanning
<1>10. k + 1 \in 0 .. n /\ (k + 1) - 1 = k /\ k + 1 >= 1
  BY <1>6, <1>7
<1> HIDE DEF p, c, n, type, string, x
<1>11. Leaves(x, state, c, token.string, p) \/ GoesOn(Text, x, state, c, token.string, p)
  BY <1>1, <1>4, <1>8, <1>9, Through, Zenon
<1>12. ASSUME NEW m, Pending(L, C, m) PROVE Pending(L, C, m)'
  BY <1>5, <1>12, Zenon DEF Pending, Answers
<1>13. "start" # "invalid"
  OBVIOUS
<1>14. CASE Leaves(x, state, c, token.string, p)
  <2>1. /\ state' = "start" /\ Place' = End(L, k + 1)
        /\ IF IsToken(x)
           THEN x.type = type /\ (x.type \in {"identifier", "string"} => x.string = string)
           ELSE type = NoToken
    BY <1>1, <1>2, <1>8, <1>14, Zenon DEF Leaves, type, string
  <2>2. CASE IsToken(x)
    <3>1. x.type # NoToken
      BY <1>8, LexemeTypes, Zenon
    <3>2. scan' = "ok"
      BY <1>2, <1>13, <2>1, <2>2, <3>1, Zenon
    <3>3. Matches(x, token)'
      BY <1>3, <2>1, <2>2, Zenon DEF Matches
    <3>4. AtToken(L, k + 1)'
      BY <1>10, <2>1, <2>2, <3>3, Zenon DEF AtToken, x
    <3>5. Pending(L, C, (k + 1) - 1)
      BY <1>10, Zenon
    <3>6. Pending(L, C, (k + 1) - 1)'
      BY <1>12, <3>5, Zenon
    <3> QED
      BY <1>10, <3>2, <3>4, <3>6, Zenon DEF n
  <2>3. CASE ~IsToken(x)
    <3>1. scan' = "busy" /\ token'.type = NoToken
      BY <1>2, <1>3, <1>13, <2>1, <2>3, Zenon
    <3>2. Scanning(L, k + 1)'
      BY <2>1, <3>1, Zenon DEF Scanning
    <3>3. C[k + 1] = C[k]
      BY <1>8, <2>3
    <3>4. \A j \in 0 .. k - 1 : j \in 0 .. (k + 1) - 1
      BY <1>6
    <3>5. Pending(L, C, k + 1)
      BY <3>3, <3>4, Zenon DEF Pending
    <3>6. Pending(L, C, k + 1)'
      BY <1>10, <1>12, <3>5, Zenon
    <3> QED
      BY <1>10, <3>1, <3>2, <3>6, Zenon DEF n
  <2> QED
    BY <2>2, <2>3
<1>15. CASE GoesOn(Text, x, state, c, token.string, p)
  <2>1. /\ state' \notin {"invalid", "start"} /\ type = NoToken
        /\ Inside(Text, x, state', hex', string, p + 1)
    BY <1>2, <1>15, Zenon DEF GoesOn, type, string
  <2>2. scan' = "busy"
    BY <1>2, <2>1
  <2>3. Place' = p + 1
    BY <1>1, <2>1, TypesApart, Zenon DEF Consumed, type
  <2>4. Scanning(L, k)'
    BY <1>3, <1>4, <1>7, <2>1, <2>3, Zenon DEF Scanning, x, n
  <2>5. Pending(L, C, k)'
    BY <1>12, Zenon DEF n
  <2> QED
    BY <2>2, <2>4, <2>5, Zenon
<1> QED
  BY <1>11, <1>14, <1>15

\* At the beginning nothing has been read.
LEMMA ReadingInit == Init => ReadingInv
<1> SUFFICES ASSUME Init, NEW L, NEW C, ShortReading(Text, L, C) PROVE Keeps(L, C)
  BY DEF ReadingInv
<1>1. /\ file \in Files /\ fpos = 0 /\ offset = 0 /\ size = 0 /\ eof = FALSE
      /\ phase = "open" /\ status = "running"
      /\ token = [type |-> NoToken, string |-> <<>>] /\ token_t = token
      /\ stack = <<Frame("top_level")>> /\ path = <<>> /\ values = <<>>
  BY DEF Init, LcfgInit, ScannerInit
<1>2. Place = 0 /\ token_t.type = NoToken /\ ~Opened
  BY <1>1 DEF Place, UsedUp, Opened
<1>3. Len(Text) \in Nat
  BY <1>1, ScannerAssumption DEF Text
<1>4. Answers(C[0])
  <2>1. C[0] = Beginning
    BY <1>3, ReadingFacts
  <2>2. Answers(Beginning)
    BY <1>1, AnswersFirst, Zenon
  <2> QED
    BY <2>1, <2>2, Zenon
<1>5. phase # "scan" /\ phase # "parse" /\ phase # "done"
  BY <1>1
<1> QED
  BY <1>1, <1>2, <1>4, <1>5, Zenon DEF Keeps

\* With a token of the reading the parser never ends in the state "invalid".
LEMMA AnswersValid ==
  ASSUME StackInv, NEW c, Answers(c)
  PROVE  ~In("invalid")
BY ExpectedAllowed, Zenon DEF Answers, In

\* At the end of a reading it accepts.
LEMMA AnswersComplete ==
  ASSUME StackInv, NEW c, Answers(c), Complete(c)
  PROVE  In("top_level") /\ Len(stack) = 1
<1>1. c.expects = "entry" /\ Len(c.levels) = 1 /\ Shape(c, stack)
  BY DEF Answers, Complete
<1>2. Len(stack) = 1
  BY <1>1, Zenon DEF Shape
<1>3. ~In("invalid")
  BY AnswersValid
<1>4. Top = stack[1] /\ stack[1].s \in {"top_level", "invalid"}
  BY <1>2, StackTop DEF StackInv
<1> QED
  BY <1>2, <1>3, <1>4 DEF In

\* The parser deals with the token that waits.
LEMMA DealFollowed ==
  ASSUME StackInv, TokenInv, NEW L, NEW C, Len(Text) \in Nat, ShortReading(Text, L, C),
         Dealing, token_t.type # NoToken, NEW k \in 0 .. Len(L), Pending(L, C, k)
  PROVE  Answers(C[k])'
<1>1. PICK j \in 0 .. k - 1 : /\ IsToken(L[j + 1]) /\ Matches(L[j + 1], token_t)
                              /\ Answers(C[j]) /\ C[k] = C[j + 1]
  BY Zenon DEF Pending
<1>2. Len(L) \in Nat
  BY ReadingFacts
<1>3. j \in 0 .. Len(L) /\ j + 1 \in 0 .. Len(L) /\ j < Len(L)
  BY <1>2
<1>4. L[j + 1].type \in Allowed(C[j]) /\ C[j + 1] = After(C[j], L[j + 1])
  BY <1>1, <1>3, ReadingFacts
<1>5. Short(C[j + 1])
  BY <1>3, ReadingFacts
<1>6. Shape(C[j], stack) /\ Keyed(C[j], stack, path, values)
  BY <1>1 DEF Answers
<1> DEFINE c == C[j]
           x == L[j + 1]
<1>7. Shape(After(c, x), stack') /\ Keyed(After(c, x), stack', path', values')
  <2>1. Shape(c, stack) /\ Matches(x, token_t) /\ x.type \in Allowed(c)
        /\ Keyed(c, stack, path, values) /\ Short(After(c, x))
    BY <1>1, <1>4, <1>5, <1>6
  <2> HIDE DEF c, x
  <2> QED
    BY <2>1, DealStep
<1>8. After(c, x) = C[k]
  BY <1>1, <1>4
<1>9. Shape(C[k], stack') /\ Keyed(C[k], stack', path', values')
  BY <1>7, <1>8, Zenon
<1> QED
  BY <1>9, Zenon DEF Answers

\* The scanner stays on the reading, step by step.
LEMMA ReadFollowed ==
  ASSUME BufferInv, TokenInv, source # "directory", NEW L, NEW C, ShortReading(Text, L, C),
         Keeps(L, C), ReadToken
  PROVE  Keeps(L, C)'
<1>1. phase = "scan" /\ UNCHANGED parserVars /\ (FillBuffer \/ ScanChar \/ EndOfFile)
  BY Zenon DEF ReadToken, Scan
<1>2. UNCHANGED <<phase, token_t, stack, path, values, status>>
  BY <1>1, Zenon DEF parserVars
<1>3. scan = "busy" /\ UNCHANGED <<file, source>>
  BY <1>1, Zenon DEF FillBuffer, ScanChar, EndOfFile
<1>4. PICK k \in 0 .. Len(L) : Pending(L, C, k) /\ Scanning(L, k)
  BY <1>1, <1>3, Zenon DEF Keeps
<1>5. Text' = Text /\ Len(Text) \in Nat
  BY <1>3, TextLength DEF Text
<1>6. Pending(L, C, k)'
  BY <1>2, <1>4, Zenon DEF Pending, Answers
<1>7. status = "running" /\ phase' = "scan" /\ status' = "running"
  <2>1. phase # "done"
    BY <1>1
  <2> QED
    BY <1>1, <1>2, <2>1, Zenon DEF Keeps
<1>8. phase' # "open" /\ phase' # "parse" /\ phase' # "done"
  BY <1>7
<1>9. CASE ScanChar
  <2>1. \/ scan' = "busy" /\ \E m \in 0 .. Len(L) : (Pending(L, C, m) /\ Scanning(L, m))'
        \/ scan' = "ok" /\ \E m \in 0 .. Len(L) : (AtToken(L, m) /\ Pending(L, C, m - 1))'
    BY <1>1, <1>4, <1>9, CharFollowed
  <2>2. CASE scan' = "busy" /\ \E m \in 0 .. Len(L) : (Pending(L, C, m) /\ Scanning(L, m))'
    <3>1. scan' # "ok" /\ scan' # "error"
      BY <2>2
    <3> QED
      BY <1>7, <1>8, <2>2, <3>1, Zenon DEF Keeps
  <2>3. CASE scan' = "ok" /\ \E m \in 0 .. Len(L) : (AtToken(L, m) /\ Pending(L, C, m - 1))'
    <3>1. scan' # "busy" /\ scan' # "error"
      BY <2>3
    <3> QED
      BY <1>7, <1>8, <2>3, <3>1, Zenon DEF Keeps
  <2> QED
    BY <2>1, <2>2, <2>3
<1>10. CASE FillBuffer
  <2>1. Place' = Place /\ UNCHANGED <<state, hex, token, scan>>
    BY <1>10, OneRead, Zenon DEF FillBuffer
  <2>2. Scanning(L, k)'
    BY <1>4, <1>5, <2>1, Zenon DEF Scanning
  <2>3. scan' = "busy" /\ scan' # "ok" /\ scan' # "error"
    BY <1>3, <2>1
  <2> QED
    BY <1>6, <1>7, <1>8, <2>2, <2>3, Zenon DEF Keeps
<1>11. CASE EndOfFile
  <2>1. /\ source = "regular" => Place = Len(Text)
        /\ Place' = Place /\ UNCHANGED <<state, hex, token>>
        /\ scan' = IF state = "start" THEN "ok" ELSE "error"
    BY <1>11, AtTheEnd, Zenon DEF EndOfFile
  <2>2. source \in {"regular", "stream"}
    BY DEF BufferInv
  <2>3. /\ Len(L) \in Nat
        /\ End(L, k) = Len(Text) => k = Len(L)
        /\ k < Len(L) => Lexeme(Text, L[k + 1])
    BY <1>5, ReadingFacts
  <2>4. k < Len(L) /\ Inside(Text, L[k + 1], state, hex, token.string, Place) =>
          state # "start" /\ source # "regular"
    <3> SUFFICES ASSUME k < Len(L), Inside(Text, L[k + 1], state, hex, token.string, Place)
                 PROVE  state # "start" /\ source # "regular"
      OBVIOUS
    <3>1. Place < Len(Text) /\ state # "start" /\ Place \in Nat
      BY <1>5, <2>3, InsideRange, Zenon
    <3> QED
      BY <1>5, <2>1, <3>1
  <2>5. CASE state = "start"
    <3>1. Place = End(L, k) /\ token.type = NoToken
      BY <1>4, <2>4, <2>5, Zenon DEF Scanning
    <3>2. AtLast(L, k)'
      BY <1>3, <2>1, <2>3, <3>1, Zenon DEF AtLast
    <3>3. scan' = "ok" /\ scan' # "busy" /\ scan' # "error"
      BY <2>1, <2>5
    <3> QED
      BY <1>6, <1>7, <1>8, <3>2, <3>3, Zenon DEF Keeps
  <2>6. CASE state # "start"
    <3>1. source' = "stream"
      BY <1>3, <1>4, <2>2, <2>4, <2>6, Zenon DEF Scanning
    <3>2. scan' # "ok" /\ scan' # "busy"
      BY <2>1, <2>6
    <3> QED
      BY <1>7, <1>8, <3>1, <3>2, Zenon DEF Keeps
  <2> QED
    BY <2>5, <2>6
<1> QED
  BY <1>1, <1>9, <1>10, <1>11

\* And so does the parser.
LEMMA ParserFollowed ==
  ASSUME BufferInv, TokenInv, StackInv, source # "directory", NEW L, NEW C,
         ShortReading(Text, L, C), Keeps(L, C), LcfgNext, ~ReadToken
  PROVE  Keeps(L, C)'
<1>1. UNCHANGED bufferVars
  BY OwnSteps
<1>2. Place' = Place /\ Text' = Text /\ UNCHANGED <<source, size, eof>>
  BY <1>1, BufferStays DEF bufferVars, Text
<1>3. Len(Text) \in Nat
  BY TextLength
<1>4. /\ Len(L) \in Nat /\ End(L, 0) = 0 /\ Complete(C[Len(L)])
      /\ \A k \in 0 .. Len(L) : k < Len(L) => Lexeme(Text, L[k + 1])
  BY <1>3, ReadingFacts
<1>5. phase # "done" => status = "running"
  BY Zenon DEF Keeps
<1>6. CASE OpenFile
  <2>1. /\ phase = "open" /\ phase' = "scan" /\ StartScan
        /\ UNCHANGED <<token_t, stack, path, values, status>>
    BY <1>6, Zenon DEF OpenFile
  <2>2. /\ scan' = "busy" /\ state' = "start" /\ token'.type = NoToken
    BY <2>1 DEF StartScan, TokenInv
  <2>3. Place = 0 /\ token_t.type = NoToken /\ Answers(C[0])
    BY <2>1, Zenon DEF Keeps
  <2>4. Pending(L, C, 0)' /\ Scanning(L, 0)' /\ 0 \in 0 .. Len(L)
    <3>1. Answers(C[0])' /\ token_t'.type = NoToken
      BY <2>1, <2>3, Zenon DEF Answers
    <3>2. Pending(L, C, 0)'
      BY <3>1, Zenon DEF Pending
    <3>3. Place' = End(L, 0)
      BY <1>2, <1>4, <2>3, Zenon
    <3>4. Scanning(L, 0)'
      BY <2>2, <3>3, Zenon DEF Scanning
    <3> QED
      BY <1>4, <3>2, <3>4
  <2>5. status' = "running" /\ phase' # "open" /\ phase' # "parse" /\ phase' # "done"
        /\ scan' # "ok" /\ scan' # "error"
    BY <1>5, <2>1, <2>2
  <2> QED
    BY <2>1, <2>2, <2>4, <2>5, Zenon DEF Keeps
\* The end.
<1>7. ASSUME phase' = "done", Outcome(L, C)' PROVE Keeps(L, C)'
  <2>1. phase' # "open" /\ phase' # "scan" /\ phase' # "parse"
    BY <1>7
  <2> QED
    BY <1>7, <2>1, Zenon DEF Keeps
<1>8. CASE OpenFails
  <2>1. phase = "open" /\ phase' = "done" /\ status' = "error"
    BY <1>8, Zenon DEF OpenFails
  <2>2. ~Opened'
    BY <1>2, <2>1, Zenon DEF Keeps, Opened
  <2>3. status' # "ok"
    BY <2>1
  <2> QED
    BY <1>7, <2>1, <2>2, <2>3, Zenon DEF Outcome
<1>9. CASE ScanFails
  <2>1. phase = "scan" /\ scan = "error" /\ phase' = "done" /\ status' = "error"
    BY <1>9, Zenon DEF ScanFails
  <2>2. source' = "stream"
    BY <1>2, <2>1, Zenon DEF Keeps
  <2>3. status' # "ok"
    BY <2>1
  <2> QED
    BY <1>7, <2>1, <2>2, <2>3, Zenon DEF Outcome
\* The token in hand is the last one that was read, or there is none.
<1>10. ASSUME NEW k \in 0 .. Len(L), AtToken(L, k) PROVE token.type # NoToken
  <2>1. k - 1 \in 0 .. Len(L) /\ k - 1 < Len(L) /\ (k - 1) + 1 = k
    BY <1>4, <1>10 DEF AtToken
  <2>2. Lexeme(Text, L[(k - 1) + 1])
    BY <1>4, <2>1, Zenon
  <2>3. Lexeme(Text, L[k])
    BY <2>1, <2>2, Zenon
  <2>4. L[k].type # NoToken /\ L[k].type = token.type
    BY <1>10, <2>3, LexemeTypes DEF AtToken, Matches
  <2> QED
    BY <2>4
<1>11. ASSUME phase = "parse", NEW k \in 0 .. Len(L),
              (AtLast(L, k) /\ Answers(C[k])) \/ (AtToken(L, k) /\ Answers(C[k - 1]))
       PROVE  ~In("invalid") /\ (token.type # NoToken => AtToken(L, k) /\ Answers(C[k - 1]))
              /\ (token.type = NoToken => AtLast(L, k) /\ Answers(C[k]))
  <2>1. ~In("invalid")
    BY <1>11, AnswersValid, Zenon
  <2> QED
    BY <1>10, <1>11, <2>1, Zenon DEF AtLast
<1>12. CASE Finish
  <2>1. /\ phase = "parse" /\ (~HasNext \/ In("invalid")) /\ phase' = "done"
        /\ status' = IF In("top_level") /\ Len(stack) = 1 THEN "ok" ELSE "error"
        /\ UNCHANGED <<stack, path, values>>
    BY <1>12, Zenon DEF Finish
  <2>2. PICK k \in 0 .. Len(L) : \/ AtLast(L, k) /\ Answers(C[k])
                                 \/ AtToken(L, k) /\ Answers(C[k - 1])
    BY <2>1, Zenon DEF Keeps
  <2>3. AtLast(L, k) /\ Answers(C[k])
    BY <1>11, <2>1, <2>2, Zenon DEF HasNext
  <2>4. values' = C[k].values /\ (source' = "regular" => k = Len(L))
    BY <1>2, <2>1, <2>3, Zenon DEF AtLast, Answers, Keyed
  <2>5. status' = "error" => source' = "stream"
    <3>1. source \in {"regular", "stream"}
      BY DEF BufferInv
    <3>2. source = "regular" => In("top_level") /\ Len(stack) = 1
      BY <1>2, <1>4, <2>3, <2>4, AnswersComplete, Zenon
    <3> QED
      BY <1>2, <2>1, <3>1, <3>2
  <2> QED
    BY <1>7, <2>1, <2>4, <2>5, Zenon DEF Outcome
<1>13. CASE NextToken
  <2>1. /\ phase = "parse" /\ token.type # NoToken /\ phase' = "scan" /\ token_t' = token
        /\ StartScan /\ UNCHANGED <<stack, path, values, status>>
    BY <1>13, Zenon DEF NextToken, HasNext
  <2>2. PICK k \in 0 .. Len(L) : \/ AtLast(L, k) /\ Answers(C[k])
                                 \/ AtToken(L, k) /\ Answers(C[k - 1])
    BY <2>1, Zenon DEF Keeps
  <2>3. AtToken(L, k) /\ Answers(C[k - 1])
    BY <1>11, <2>1, <2>2, Zenon
  <2>4. k - 1 \in 0 .. k - 1 /\ (k - 1) + 1 = k
    BY <1>4, <2>3 DEF AtToken
  <2>5. IsToken(L[k]) /\ Matches(L[k], token_t)' /\ Answers(C[k - 1])' /\ Place = End(L, k)
    BY <2>1, <2>3, Zenon DEF AtToken, Matches, Answers
  <2>6. Pending(L, C, k)'
    BY <2>4, <2>5, Zenon DEF Pending
  <2>7. scan' = "busy" /\ state' = "start" /\ token'.type = NoToken
    BY <2>1 DEF StartScan, TokenInv
  <2>8. Scanning(L, k)'
    BY <1>2, <2>5, <2>7, Zenon DEF Scanning
  <2>9. status' = "running" /\ phase' # "open" /\ phase' # "parse" /\ phase' # "done"
        /\ scan' # "ok" /\ scan' # "error"
    BY <1>5, <2>1, <2>7
  <2> QED
    BY <2>1, <2>6, <2>7, <2>8, <2>9, Zenon DEF Keeps
\* A token that waited is dealt with, if one did.
<1>14. ASSUME phase = "scan", scan = "ok", phase' = "parse",
              UNCHANGED <<token, status>>,
              \A k \in 0 .. Len(L) : Pending(L, C, k) => Answers(C[k])'
       PROVE  Keeps(L, C)'
  <2>1. PICK k \in 0 .. Len(L) : \/ AtLast(L, k) /\ Pending(L, C, k)
                                 \/ AtToken(L, k) /\ Pending(L, C, k - 1)
    BY <1>14, Zenon DEF Keeps
  <2>2. AtLast(L, k) => AtLast(L, k)'
    BY <1>2, <1>14, Zenon DEF AtLast
  <2>3. AtToken(L, k) => AtToken(L, k)' /\ k - 1 \in 0 .. Len(L)
    <3>1. AtToken(L, k) => AtToken(L, k)' /\ k >= 1
      BY <1>2, <1>14, Zenon DEF AtToken, Matches
    <3> QED
      BY <1>4, <3>1
  <2>4. \/ AtLast(L, k)' /\ Answers(C[k])'
        \/ AtToken(L, k)' /\ Answers(C[k - 1])'
    BY <1>14, <2>1, <2>2, <2>3, Zenon
  <2>5. status' = "running" /\ phase' # "open" /\ phase' # "scan" /\ phase' # "done"
    BY <1>5, <1>14
  <2> QED
    BY <2>4, <2>5, Zenon DEF Keeps
<1>15. CASE FirstToken
  <2>1. /\ phase = "scan" /\ scan = "ok" /\ token_t.type = NoToken /\ phase' = "parse"
        /\ UNCHANGED <<token, stack, path, values, status>>
    BY <1>15, Zenon DEF FirstToken, scannerVars
  <2>2. ASSUME NEW k \in 0 .. Len(L), Pending(L, C, k) PROVE Answers(C[k])'
    <3>1. Answers(C[k])
      <4>1. ASSUME NEW j \in 0 .. k - 1, Matches(L[j + 1], token_t) PROVE FALSE
        <5>1. j \in 0 .. Len(L) /\ j < Len(L)
          BY <1>4
        <5>2. Lexeme(Text, L[j + 1])
          BY <1>4, <5>1, Zenon
        <5>3. L[j + 1].type # NoToken /\ L[j + 1].type = token_t.type
          BY <4>1, <5>2, LexemeTypes DEF Matches
        <5> QED
          BY <2>1, <5>3
      <4> QED
        BY <2>2, <4>1, Zenon DEF Pending
    <3> QED
      BY <2>1, <3>1, Zenon DEF Answers
  <2> QED
    BY <1>14, <2>1, <2>2, Zenon
<1>16. CASE Dealing
  <2>1. Deal
    BY <1>16, Zenon DEF Dealing, Name, Equals, Value, OpenList, OpenMap, CloseMap, Comma,
                        Element, Nested, CloseList, Unexpected
  <2>2. /\ phase = "scan" /\ scan = "ok" /\ token_t.type # NoToken /\ phase' = "parse"
        /\ UNCHANGED <<token, status>>
    BY <2>1, Zenon DEF Deal
  <2>3. ASSUME NEW k \in 0 .. Len(L), Pending(L, C, k) PROVE Answers(C[k])'
    BY <1>3, <1>16, <2>2, <2>3, DealFollowed
  <2> QED
    BY <1>14, <2>2, <2>3, Zenon
<1> QED
  BY <1>6, <1>8, <1>9, <1>12, <1>13, <1>15, <1>16, Zenon DEF LcfgNext, Dealing

\* A lexeme adds a value, or none.
LEMMA AfterValues ==
  ASSUME NEW t, NEW c, NEW x, Lexeme(t, x), IsToken(x)
  PROVE  After(c, x).values = c.values \/ \E e : After(c, x).values = Append(c.values, e)
<1> DEFINE v == [key |-> NextKey(c), value |-> x.string]
           l1 == Append(OneMore(c), Level("in_list", NextKey(c), 0))
           l2 == Append(OneMore(c), Level("in_map", NextKey(c), 0))
           k1 == Push(Inner(c).path, x.string)
<1>1. x.type \in {"identifier", "=", "string", "[", "{", "]", "}", ","}
  BY DEF Lexeme, IsToken, Punctuation
<1>2. /\ x.type = "identifier" => After(c, x) = Config(c.levels, "equals", k1, c.values)
      /\ x.type = "=" => After(c, x) = Config(c.levels, "value", c.key, c.values)
      /\ x.type = "string" =>
           After(c, x) = Config(OneMore(c), "entry", c.key, Append(c.values, v))
      /\ x.type = "[" => After(c, x) = Config(l1, "entry", c.key, c.values)
      /\ x.type = "{" => After(c, x) = Config(l2, "entry", c.key, c.values)
      /\ x.type \in {"]", "}"} => After(c, x) = Config(Front(c.levels), "entry", c.key, c.values)
      /\ x.type = "," => After(c, x) = c
  BY AfterFacts, Zenon
<1> HIDE DEF v, l1, l2, k1
<1>3. x.type = "string" => After(c, x).values = Append(c.values, v)
  BY <1>2 DEF Config
<1>4. x.type # "string" => After(c, x).values = c.values
  <2>1. \A a, b, d : Config(a, b, d, c.values).values = c.values
    BY DEF Config
  <2> QED
    BY <1>1, <1>2, <2>1, Zenon
<1> QED
  BY <1>3, <1>4, Zenon

\* What a sequence begins with a longer one begins with too.
LEMMA PrefixOfMore ==
  ASSUME NEW S, NEW T, NEW s \in Seq(S), NEW u \in Seq(T), IsPrefix(s, u), NEW a
  PROVE  IsPrefix(s, Append(u, a))
<1> DEFINE w == Append(u, a)
<1>1. Len(s) \in Nat /\ Len(u) \in Nat /\ Len(s) <= Len(u)
      /\ SubSeq(s, 1, Len(s)) = SubSeq(u, 1, Len(s))
  BY DEF IsPrefix
<1>2. w \in Seq(T \union {a}) /\ u \in Seq(T \union {a}) /\ Len(w) = Len(u) + 1
      /\ \A k \in 1 .. Len(u) : w[k] = u[k]
  OBVIOUS
<1> HIDE DEF w
<1>3. SubSeq(w, 1, Len(s)) = SubSeq(u, 1, Len(s))
  BY <1>1, <1>2
<1>4. Len(s) <= Len(w)
  BY <1>1, <1>2
<1> QED
  BY <1>1, <1>3, <1>4 DEF IsPrefix, w

\* No value is lost again on the way.
LEMMA ValuesGrow ==
  ASSUME NEW t, Len(t) \in Nat, NEW L, NEW C, ShortReading(t, L, C)
  PROVE  \A k \in 0 .. Len(L) : IsPrefix(C[k].values, C[Len(L)].values)
<1> DEFINE n == Len(L)
           Grown(k) == /\ \E S : C[k].values \in Seq(S)
                       /\ \A j \in 0 .. k : IsPrefix(C[j].values, C[k].values)
           T == {k \in 0 .. n : ~Grown(k)}
<1>1. /\ n \in Nat /\ C[0] = Beginning
      /\ \A k \in 0 .. n : k < n =>
           /\ Lexeme(t, L[k + 1])
           /\ IsToken(L[k + 1]) => C[k + 1] = After(C[k], L[k + 1])
           /\ ~IsToken(L[k + 1]) => C[k + 1] = C[k]
  BY ReadingFacts
<1>2. \A S : \A s \in Seq(S) : IsPrefix(s, s)
  BY DEF IsPrefix
<1>3. SUFFICES ASSUME T # {} PROVE FALSE
  <2>1. n \in 0 .. n
    BY <1>1
  <2> QED
    BY <1>3, <2>1, Zenon
<1>4. PICK e \in T : \A m \in T : e <= m
  <2>1. T \in SUBSET Nat
    BY <1>1
  <2> HIDE DEF T
  <2> QED
    BY <1>3, <2>1, LeastOne
<1>5. e # 0
  <2>1. C[0].values = <<>>
    BY <1>1, ConfigFields DEF Beginning
  <2>2. <<>> \in Seq({}) /\ \A j \in 0 .. 0 : j = 0
    OBVIOUS
  <2>3. Grown(0)
    BY <1>2, <2>1, <2>2, Zenon
  <2> QED
    BY <2>3, Zenon
<1> DEFINE d == e - 1
<1>6. d \in 0 .. n /\ d < n /\ d + 1 = e /\ ~(e <= d)
  BY <1>1, <1>4, <1>5
<1> HIDE DEF d
<1>7. Grown(d)
  BY <1>4, <1>6, Zenon
<1>8. PICK S : C[d].values \in Seq(S)
  BY <1>7, Zenon
<1>9. C[e].values = C[d].values \/ \E a : C[e].values = Append(C[d].values, a)
  <2>1. /\ Lexeme(t, L[e])
        /\ IsToken(L[e]) => C[e] = After(C[d], L[e])
        /\ ~IsToken(L[e]) => C[e] = C[d]
    BY <1>1, <1>6
  <2>2. CASE IsToken(L[e])
    <3>1. \/ After(C[d], L[e]).values = C[d].values
          \/ \E a : After(C[d], L[e]).values = Append(C[d].values, a)
      <4> DEFINE x == L[e]
                 c == C[d]
      <4>1. Lexeme(t, x) /\ IsToken(x)
        BY <2>1, <2>2
      <4> HIDE DEF x, c
      <4>2. After(c, x).values = c.values \/ \E a : After(c, x).values = Append(c.values, a)
        BY <4>1, AfterValues
      <4> QED
        BY <4>2 DEF x, c
    <3>2. C[e] = After(C[d], L[e])
      BY <2>1, <2>2
    <3> QED
      BY <3>1, <3>2, Zenon
  <2>3. CASE ~IsToken(L[e])
    BY <2>1, <2>3, Zenon
  <2> QED
    BY <2>2, <2>3
<1>10. \A j \in 0 .. e : j \in 0 .. d \/ j = e
  BY <1>1, <1>6
<1>11. CASE C[e].values = C[d].values
  BY <1>2, <1>4, <1>7, <1>8, <1>10, <1>11, Zenon
<1>12. ASSUME NEW a, C[e].values = Append(C[d].values, a) PROVE FALSE
  <2>1. PICK S2 : C[e].values \in Seq(S2)
    BY <1>8, <1>12, Appends, Zenon
  <2>2. ASSUME NEW j \in 0 .. d PROVE IsPrefix(C[j].values, C[e].values)
    <3>1. j \in 0 .. n /\ ~(e <= j)
      BY <1>1, <1>6
    <3>2. Grown(j)
      BY <1>4, <3>1, Zenon
    <3>3. PICK S3 : C[j].values \in Seq(S3)
      BY <3>2, Zenon
    <3>4. IsPrefix(C[j].values, C[d].values)
      BY <1>7, Zenon
    <3> DEFINE s == C[j].values
               u == C[d].values
    <3>5. s \in Seq(S3) /\ u \in Seq(S) /\ IsPrefix(s, u) /\ C[e].values = Append(u, a)
      BY <1>8, <1>12, <3>3, <3>4
    <3> HIDE DEF s, u
    <3>6. IsPrefix(s, Append(u, a))
      BY <3>5, PrefixOfMore
    <3> QED
      BY <3>5, <3>6, Zenon DEF s
  <2> QED
    BY <1>2, <1>4, <1>10, <2>1, <2>2, Zenon
<1> QED
  BY <1>9, <1>11, <1>12

\* What the text says, if it has no list of more than ten elements, is what the
\* parser finds.
SaidIsFound ==
  source # "directory" =>
    \A vs : Says(Text, vs) =>
      /\ status = "ok" => IsPrefix(values, vs) /\ (source = "regular" => values = vs)
      /\ status = "error" /\ source = "regular" => ~Opened

\* No step of the library leaves a reading.
LEMMA ReadingStep ==
  ASSUME BufferInv, TokenInv, StackInv, ReadingInv, LcfgNext, source # "directory"
  PROVE  ReadingInv'
<1>1. Text' = Text
  <2>1. CASE ReadToken
    BY <2>1, Zenon DEF ReadToken, Scan, FillBuffer, ScanChar, EndOfFile, Text
  <2>2. CASE ~ReadToken
    <3>1. UNCHANGED bufferVars
      BY <2>2, OwnSteps
    <3> QED
      BY <3>1 DEF bufferVars, Text
  <2> QED
    BY <2>1, <2>2
<1>2. ASSUME NEW L, NEW C, ShortReading(Text, L, C) PROVE Keeps(L, C)'
  <2>1. Keeps(L, C)
    BY <1>2, Zenon DEF ReadingInv
  <2> QED
    BY <1>2, <2>1, ReadFollowed, ParserFollowed
<1> QED
  BY <1>1, <1>2, Zenon DEF ReadingInv

\* At the end of the reading the values are those of the text.
LEMMA SaidIsKept == ASSUME BufferInv, ReadingInv PROVE SaidIsFound
<1> SUFFICES ASSUME source # "directory", NEW vs, Says(Text, vs)
             PROVE  /\ status = "ok" => IsPrefix(values, vs) /\ (source = "regular" => values = vs)
                    /\ status = "error" /\ source = "regular" => ~Opened
  BY DEF SaidIsFound
<1>1. PICK L, C : ShortReading(Text, L, C) /\ C[Len(L)].values = vs
  BY Zenon DEF Says, ShortReading
<1>2. Keeps(L, C) /\ Len(Text) \in Nat
  BY <1>1, TextLength, Zenon DEF ReadingInv
<1>3. status = "ok" => IsPrefix(values, vs) /\ (source = "regular" => values = vs)
  <2> SUFFICES ASSUME status = "ok"
               PROVE  IsPrefix(values, vs) /\ (source = "regular" => values = vs)
    OBVIOUS
  <2>1. PICK k \in 0 .. Len(L) : values = C[k].values /\ (source = "regular" => k = Len(L))
    BY <1>2, Zenon DEF Keeps, Outcome
  <2>2. IsPrefix(C[k].values, C[Len(L)].values)
    BY <1>1, <1>2, ValuesGrow
  <2> QED
    BY <1>1, <2>1, <2>2, Zenon
<1>4. status = "error" /\ source = "regular" => ~Opened
  <2> SUFFICES ASSUME status = "error", source = "regular" PROVE ~Opened
    OBVIOUS
  <2>1. phase = "done" /\ Outcome(L, C)
    <3>1. status # "running"
      OBVIOUS
    <3> QED
      BY <1>2, <3>1, Zenon DEF Keeps
  <2> QED
    BY <2>1 DEF Outcome
<1> QED
  BY <1>3, <1>4

(* Of a text that says something, without a list of more than ten elements, *)
(* the parser finds just those values with just those keys, wherever the   *)
(* borders of the buffer fall; of a pipe it may take the first ones for    *)
(* all, but none of them is wrong. Of a file it refuses no such text.      *)
(* (lcfg_static.c:483-1140)                                                *)
THEOREM SaidIsRead == Spec => []SaidIsFound
<1> DEFINE Inv == ReadInv /\ TokenInv /\ ConfInv /\ StackInv /\ ReadingInv
<1>1. Init => Inv
  BY ReadInit, TokenInit, ConfInit, StackInit, ReadingInit
<1>2. Inv /\ [Next]_vars => Inv'
  <2> SUFFICES ASSUME Inv, [Next]_vars PROVE Inv'
    OBVIOUS
  <2>1. ReadInv' /\ ConfInv' /\ BufferInv
    BY ReadStep, ConfSteps DEF ReadInv
  <2>2. CASE LcfgNext
    <3>1. StackInv' /\ TokenInv'
      <4>1. PICK S : values \in Seq(S)
        BY Zenon DEF ConfInv
      <4> QED
        BY <2>2, <4>1, PathStep, TokenStep
    <3>2. source = "directory" => ReadingInv'
      <4>1. source' = source
        <5>1. CASE ReadToken
          BY <5>1, Zenon DEF ReadToken, Scan, FillBuffer, ScanChar, EndOfFile
        <5>2. CASE ~ReadToken
          <6>1. UNCHANGED bufferVars
            BY <2>2, <5>2, OwnSteps
          <6> QED
            BY <6>1 DEF bufferVars
        <5> QED
          BY <5>1, <5>2
      <4> QED
        BY <4>1, Zenon DEF ReadingInv
    <3> QED
      BY <2>1, <2>2, <3>1, <3>2, ReadingStep
  <2>3. CASE ~LcfgNext
    <3>1. UNCHANGED lcfgVars
      BY <2>3, Zenon DEF Next, Parse, ParseOk, ParseFails, Visit, NoMoreValues, CommandLine,
                         OpenFiles, OpenFilesFails, WriteHeader, CopyByte, Close, CutInput,
                         DiskFull, Terminated, vars
    <3>2. /\ UNCHANGED <<file, source, eof, size, state, hex, token, scan, token_t, stack, path>>
          /\ UNCHANGED <<phase, values, status>> /\ Place' = Place
      BY <3>1, StaysOut DEF lcfgVars, scannerVars, bufferVars, parserVars
    <3>3. Text' = Text /\ Opened' = Opened
      BY <3>2 DEF Text, Opened
    <3>4. TokenInv' /\ StackInv'
      BY <3>2, Zenon DEF TokenInv, StackInv
    <3>5. ASSUME NEW L, NEW C, Keeps(L, C) PROVE Keeps(L, C)'
      <4>1. \A c : Answers(c) => Answers(c)'
        BY <3>2, Zenon DEF Answers
      <4>2. \A k : Pending(L, C, k) => Pending(L, C, k)'
        BY <3>2, <4>1, Zenon DEF Pending
      <4>3. \A k : Scanning(L, k) => Scanning(L, k)'
        BY <3>2, <3>3, Zenon DEF Scanning
      <4>4. \A k : /\ AtLast(L, k) => AtLast(L, k)'
                   /\ AtToken(L, k) => AtToken(L, k)'
        BY <3>2, Zenon DEF AtLast, AtToken, Matches
      <4>5. Outcome(L, C) => Outcome(L, C)'
        BY <3>2, <3>3, Zenon DEF Outcome
      <4> QED
        BY <3>2, <3>3, <3>5, <4>1, <4>2, <4>3, <4>4, <4>5, Zenon DEF Keeps
    <3>6. ReadingInv'
      BY <3>2, <3>3, <3>5, Zenon DEF ReadingInv
    <3> QED
      BY <2>1, <3>4, <3>6
  <2> QED
    BY <2>2, <2>3
<1>3. Inv => SaidIsFound
  BY SaidIsKept DEF ReadInv
<1> HIDE DEF Inv
<1> QED
  BY <1>1, <1>2, <1>3, PTL DEF Spec

-----------------------------------------------------------------------------
(* What has been read of a lexeme that begins behind the place b.          *)

\* A comment, of which the characters behind b up to p have been read.
BegunComment(t, b, q, p) ==
  /\ t[b + 1] = "/"
  /\ \/ q = "comm_start" /\ p = b + 1
     \/ /\ q = "in_oneline" /\ p >= b + 2 /\ t[b + 2] = "/"
        /\ \A n \in b + 3 .. p : t[n] # "\n"
     \/ /\ q \in {"in_multiline", "multiline_end"} /\ p >= b + 2 /\ t[b + 2] = "*"
        /\ \A n \in b + 3 .. p - 1 : ~(t[n] = "*" /\ t[n + 1] = "/")
        /\ IF q = "multiline_end" THEN p >= b + 3 /\ t[p] = "*" ELSE p = b + 2 \/ t[p] # "*"

\* A name.
BegunName(t, b, q, s, p) ==
  /\ q = "in_identifier" /\ p >= b + 1 /\ t[b + 1] \in Alpha
  /\ \A n \in b + 1 .. p : t[n] \in InIdentifier
  /\ s = SubSeq(t, b + 1, p)

\* A lexeme of any kind that takes more than a character.
Begun(t, b, q, h, s, p) ==
  \/ BegunComment(t, b, q, p)
  \/ BegunName(t, b, q, s, p)
  \/ q \in StringStates /\ t[b + 1] = Quote /\ Collecting(t, q, h, s, b + 1, p)

\* What the character c makes of it: more of it, a lexeme that is no token, or
\* a token, unless it is wrong.
Progress(t, b, q, c, s, p) ==
  \/ NextState(q, c) = "invalid"
  \/ /\ NextState(q, c) # "start" /\ TokenType(q, c) = NoToken
     /\ Begun(t, b, NextState(q, c), IF q = "esc_hex_exp_first" THEN c ELSE hex,
              TokenString(q, c, s), p + 1)
  \/ /\ NextState(q, c) = "start" /\ TokenType(q, c) = NoToken
     /\ \E x : Lexeme(t, x) /\ ~IsToken(x) /\ x.from = b /\ x.to = p + 1
  \/ /\ NextState(q, c) = "start" /\ TokenType(q, c) # NoToken
     /\ \E x : /\ Lexeme(t, x) /\ IsToken(x) /\ x.from = b
               /\ x.to = IF Consumed(q, c) THEN p + 1 ELSE p
               /\ x.type = TokenType(q, c)
               /\ x.type \in {"identifier", "string"} => x.string = TokenString(q, c, s)

\* One character more of a comment.
LEMMA CommentRead ==
  ASSUME NEW t, NEW b \in Nat, NEW p \in Nat, p < Len(t), Len(t) \in Nat,
         NEW q, NEW s, NEW c, c = t[p + 1], BegunComment(t, b, q, p)
  PROVE  Progress(t, b, q, c, s, p)
<1>0. t[b + 1] = "/"
  BY DEF BegunComment
<1>1. q \in Comments
  BY DEF BegunComment, Comments
<1>2. TokenType(q, c) = NoToken
  BY <1>1, InComments
<1>3. ASSUME NextState(q, c) \in Comments, BegunComment(t, b, NextState(q, c), p + 1)
      PROVE  Progress(t, b, q, c, s, p)
  <2>1. NextState(q, c) # "start"
    BY <1>3 DEF Comments
  <2> QED
    BY <1>2, <1>3, <2>1, Zenon DEF Progress, Begun
<1>4. ASSUME NextState(q, c) = "start", NEW ty \in {"line", "comment"}, p + 1 > b,
             IF ty = "line" THEN Comment1(t, b, p + 1) ELSE CommentN(t, b, p + 1)
      PROVE  Progress(t, b, q, c, s, p)
  <2> DEFINE x == [type |-> ty, from |-> b, to |-> p + 1, string |-> <<>>]
  <2>1. x.type = ty /\ x.from = b /\ x.to = p + 1
    OBVIOUS
  <2> HIDE DEF x
  <2>2. x.to \in 1 .. Len(t) /\ x.from < x.to /\ x.from \in Nat
    BY <1>4, <2>1
  <2>3. Lexeme(t, x)
    BY <1>4, <2>1, <2>2 DEF Lexeme
  <2>4. ~IsToken(x)
    BY <1>4, <2>1 DEF IsToken
  <2> QED
    BY <1>2, <1>4, <2>1, <2>3, <2>4, Zenon DEF Progress
<1>5. CASE q = "comm_start" /\ p = b + 1
  <2>1. p + 1 = b + 2 /\ p + 1 >= b + 2 /\ b + 3 .. p + 1 = {} /\ b + 3 .. (p + 1) - 1 = {}
    BY <1>5
  <2>2. CASE c = "/"
    <3>1. NextState(q, c) = "in_oneline"
      BY <1>5, <2>2, InComments, Zenon
    <3>2. BegunComment(t, b, "in_oneline", p + 1)
      BY <1>0, <2>1, <2>2, Zenon DEF BegunComment
    <3> QED
      BY <1>3, <3>1, <3>2, Zenon DEF Comments
  <2>3. CASE c = "*"
    <3>1. NextState(q, c) = "in_multiline"
      BY <1>5, <2>3, InComments, Zenon
    <3>2. "in_multiline" # "multiline_end"
      OBVIOUS
    <3>3. BegunComment(t, b, "in_multiline", p + 1)
      BY <1>0, <2>1, <2>3, <3>2, Zenon DEF BegunComment
    <3> QED
      BY <1>3, <3>1, <3>3, Zenon DEF Comments
  <2>4. CASE c # "/" /\ c # "*"
    <3>1. NextState("comm_start", c) = "invalid"
      BY <2>4, InComments
    <3> QED
      BY <1>5, <3>1, Zenon DEF Progress
  <2> QED
    BY <2>2, <2>3, <2>4
<1>6. CASE /\ q = "in_oneline" /\ p >= b + 2 /\ t[b + 2] = "/"
           /\ \A n \in b + 3 .. p : t[n] # "\n"
  <2>1. NextState(q, c) = IF c = "\n" THEN "start" ELSE "in_oneline"
    BY <1>6, InComments, Zenon
  <2>2. CASE c = "\n"
    <3>1. p + 1 >= b + 3 /\ (p + 1) - 1 = p /\ p + 1 > b
      BY <1>6
    <3>2. Comment1(t, b, p + 1)
      BY <1>0, <1>6, <2>2, <3>1, Zenon DEF Comment1
    <3> QED
      BY <1>4, <2>1, <2>2, <3>1, <3>2
  <2>3. CASE c # "\n"
    <3>1. \A n \in b + 3 .. p + 1 : n \in b + 3 .. p \/ n = p + 1
      OBVIOUS
    <3>2. p + 1 >= b + 2
      BY <1>6
    <3>3. BegunComment(t, b, "in_oneline", p + 1)
      BY <1>0, <1>6, <2>3, <3>1, <3>2, Zenon DEF BegunComment
    <3> QED
      BY <1>3, <2>1, <2>3, <3>3, Zenon DEF Comments
  <2> QED
    BY <2>2, <2>3
<1>7. CASE /\ q \in {"in_multiline", "multiline_end"} /\ p >= b + 2 /\ t[b + 2] = "*"
           /\ \A n \in b + 3 .. p - 1 : ~(t[n] = "*" /\ t[n + 1] = "/")
           /\ IF q = "multiline_end" THEN p >= b + 3 /\ t[p] = "*" ELSE p = b + 2 \/ t[p] # "*"
  <2>1. CASE q = "multiline_end" /\ c = "/"
    <3>1. NextState(q, c) = "start"
      BY <2>1, InComments
    <3>2. p >= b + 3 /\ t[p] = "*"
      BY <1>7, <2>1
    <3>3. p + 1 >= b + 4 /\ (p + 1) - 1 = p /\ (p + 1) - 2 = p - 1 /\ p + 1 > b
      BY <3>2
    <3>4. CommentN(t, b, p + 1)
      BY <1>0, <1>7, <2>1, <3>2, <3>3, Zenon DEF CommentN
    <3> QED
      BY <1>4, <3>1, <3>3, <3>4
  <2>2. CASE ~(q = "multiline_end" /\ c = "/")
    <3>1. /\ NextState("in_multiline", c) = IF c = "*" THEN "multiline_end" ELSE "in_multiline"
          /\ c = "*" => NextState("multiline_end", c) = "multiline_end"
          /\ c # "/" /\ c # "*" => NextState("multiline_end", c) = "in_multiline"
      BY InComments
    <3>2. NextState(q, c) = IF c = "*" THEN "multiline_end" ELSE "in_multiline"
      BY <1>7, <2>2, <3>1
    <3>3. p + 1 >= b + 3 /\ p + 1 >= b + 2 /\ (p + 1) - 1 = p
      BY <1>7
    <3>4. ASSUME NEW n \in b + 3 .. p PROVE ~(t[n] = "*" /\ t[n + 1] = "/")
      <4>1. CASE n # p
        <5>1. n \in b + 3 .. p - 1
          BY <4>1
        <5> QED
          BY <1>7, <5>1, Zenon
      <4>2. CASE n = p
        <5>1. p # b + 2
          BY <4>2
        <5>2. q = "multiline_end" \/ t[p] # "*"
          BY <1>7, <5>1
        <5> QED
          BY <2>2, <4>2, <5>2, Zenon
      <4> QED
        BY <4>1, <4>2
    <3>5. \A n \in b + 3 .. (p + 1) - 1 : ~(t[n] = "*" /\ t[n + 1] = "/")
      BY <3>3, <3>4, Zenon
    <3>6. CASE c = "*"
      <4>1. BegunComment(t, b, "multiline_end", p + 1)
        BY <1>0, <1>7, <3>3, <3>5, <3>6, Zenon DEF BegunComment
      <4> QED
        BY <1>3, <3>2, <3>6, <4>1, Zenon DEF Comments
    <3>7. CASE c # "*"
      <4>0. "in_multiline" # "multiline_end"
        OBVIOUS
      <4>1. BegunComment(t, b, "in_multiline", p + 1)
        BY <1>0, <1>7, <3>3, <3>5, <3>7, <4>0, Zenon DEF BegunComment
      <4> QED
        BY <1>3, <3>2, <3>7, <4>1, Zenon DEF Comments
    <3> QED
      BY <3>6, <3>7
  <2> QED
    BY <2>1, <2>2
<1> QED
  BY <1>5, <1>6, <1>7, Zenon DEF BegunComment

\* One character more of a name, or the one behind it.
LEMMA NameRead ==
  ASSUME NEW S, NEW t \in Seq(S), NEW b \in Nat, NEW p \in Nat, p < Len(t),
         NEW q, NEW s, NEW c, c = t[p + 1], BegunName(t, b, q, s, p)
  PROVE  Progress(t, b, q, c, s, p)
<1>1. /\ q = "in_identifier" /\ p >= b + 1 /\ t[b + 1] \in Alpha
      /\ \A n \in b + 1 .. p : t[n] \in InIdentifier
      /\ s = SubSeq(t, b + 1, p)
  BY Zenon DEF BegunName
<1>2. Len(t) \in Nat /\ b <= p
  BY <1>1
<1>3. CASE c \in InIdentifier
  <2>1. /\ NextState(q, c) = "in_identifier" /\ TokenType(q, c) = NoToken
        /\ TokenString(q, c, s) = Append(s, c)
    BY <1>1, <1>3, InNames, Zenon
  <2>2. Append(s, c) = SubSeq(t, b + 1, p + 1)
    BY <1>1, <1>2, PieceGrows, Zenon
  <2>3. p + 1 >= b + 1 /\ \A n \in b + 1 .. p + 1 : n \in b + 1 .. p \/ n = p + 1
    BY <1>1
  <2>4. BegunName(t, b, "in_identifier", Append(s, c), p + 1)
    BY <1>1, <1>3, <2>2, <2>3, Zenon DEF BegunName
  <2>5. NextState(q, c) # "start"
    BY <2>1
  <2> QED
    BY <2>1, <2>4, <2>5, Zenon DEF Progress, Begun
<1>4. CASE c \notin InIdentifier
  <2> DEFINE x == [type |-> "identifier", from |-> b, to |-> p, string |-> s]
  <2>1. /\ NextState(q, c) = "start" /\ TokenType(q, c) = "identifier"
        /\ TokenString(q, c, s) = s
    BY <1>1, <1>4, InNames, Zenon
  <2>2. x.type = "identifier" /\ x.from = b /\ x.to = p /\ x.string = s
    OBVIOUS
  <2> HIDE DEF x
  <2>3. x.to \in 1 .. Len(t) /\ x.from < x.to /\ x.from \in Nat
    BY <1>1, <1>2, <2>2
  <2>4. Identifier(t, b, p)
    BY <1>1, <1>4, Zenon DEF Identifier
  <2>5. Lexeme(t, x) /\ IsToken(x)
    <3>1. IsToken(x)
      BY <2>2 DEF IsToken
    <3> QED
      BY <1>1, <2>2, <2>3, <2>4, <3>1, Zenon DEF Lexeme
  <2>6. ~Consumed(q, c)
    BY <2>1, Zenon DEF Consumed
  <2> QED
    BY <2>1, <2>2, <2>5, <2>6, TypesApart, Zenon DEF Progress
<1> QED
  BY <1>3, <1>4

\* One character more of a string.
LEMMA StringRead ==
  ASSUME NEW t, NEW b \in Nat, NEW p \in Nat, p < Len(t), Len(t) \in Nat,
         NEW q \in StringStates, NEW s, NEW c, c = t[p + 1],
         t[b + 1] = Quote, Collecting(t, q, hex, s, b + 1, p)
  PROVE  Progress(t, b, q, c, s, p)
<1>1. b + 1 \in Nat \ {0} /\ b + 1 <= p
  <2>1. PICK e \in Nat : /\ b + 1 <= e
                         /\ p = e \/ p = e + 1 \/ p = e + 2 \/ p = e + 3
    BY Zenon DEF Collecting
  <2> QED
    BY <2>1
<1>2. /\ TokenType(q, c) = "string" => InQuotes(t, TokenString(q, c, s), b + 1, p + 1)
      /\ NextState(q, c) \in StringStates =>
           Collecting(t, NextState(q, c), IF q = "esc_hex_exp_first" THEN c ELSE hex,
                      TokenString(q, c, s), b + 1, p + 1)
  BY <1>1, CollectAt
<1>3. \/ NextState(q, c) = "invalid"
      \/ NextState(q, c) = "start" /\ TokenType(q, c) = "string"
      \/ NextState(q, c) \in StringStates /\ TokenType(q, c) = NoToken
  <2>1. /\ "in_str" \in StringStates /\ "in_esc" \in StringStates
        /\ "esc_hex_exp_first" \in StringStates /\ "esc_hex_exp_second" \in StringStates
    BY DEF StringStates
  <2>2. CASE q = "in_str"
    <3>1. CASE c = Quote
      BY <2>2, <3>1, InStrings
    <3>2. CASE c # Quote /\ c = "\\"
      BY <2>1, <2>2, <3>2, InStrings
    <3>3. CASE c # Quote /\ c # "\\"
      <4>1. c \notin {Quote, "\\"}
        BY <3>3
      <4> QED
        BY <2>1, <2>2, <3>3, <4>1, InStrings
    <3> QED
      BY <3>1, <3>2, <3>3
  <2>3. CASE q = "in_esc"
    BY <2>1, <2>3, InStrings
  <2>4. CASE q = "esc_hex_exp_first"
    BY <2>1, <2>4, InStrings
  <2>5. CASE q = "esc_hex_exp_second"
    BY <2>1, <2>5, InStrings
  <2> QED
    BY <2>2, <2>3, <2>4, <2>5 DEF StringStates
<1>4. CASE NextState(q, c) = "start" /\ TokenType(q, c) = "string"
  <2> DEFINE x == [type |-> "string", from |-> b, to |-> p + 1, string |-> TokenString(q, c, s)]
  <2>1. x.type = "string" /\ x.from = b /\ x.to = p + 1 /\ x.string = TokenString(q, c, s)
    OBVIOUS
  <2> HIDE DEF x
  <2>2. x.to \in 1 .. Len(t) /\ x.from < x.to /\ x.from \in Nat
    BY <1>1, <2>1
  <2>3. Lexeme(t, x)
    BY <1>2, <1>4, <2>1, <2>2, Zenon DEF Lexeme
  <2>4. IsToken(x) /\ "string" # "identifier"
    BY <2>1 DEF IsToken
  <2>5. Consumed(q, c)
    BY <1>4, <2>4, Zenon DEF Consumed
  <2> QED
    BY <1>4, <2>1, <2>3, <2>4, <2>5, TypesApart, Zenon DEF Progress
<1>5. CASE NextState(q, c) \in StringStates /\ TokenType(q, c) = NoToken
  <2>1. NextState(q, c) # "start"
    BY <1>5 DEF StringStates
  <2> QED
    BY <1>2, <1>5, <2>1, Zenon DEF Progress, Begun
<1> QED
  BY <1>3, <1>4, <1>5, Zenon DEF Progress

\* The first character of a lexeme.
LEMMA FirstRead ==
  ASSUME NEW S, NEW t \in Seq(S), NEW p \in Nat, p < Len(t),
         NEW q, q = "start", NEW s, NEW c, c = t[p + 1]
  PROVE  Progress(t, p, q, c, s, p)
<1>1. Len(t) \in Nat
  OBVIOUS
<1>2. CASE c \in Blank \union Punctuation
  <2> DEFINE ty == IF c \in Punctuation THEN c ELSE "blank"
             x == [type |-> ty, from |-> p, to |-> p + 1, string |-> <<>>]
  <2>1. x.type = ty /\ x.from = p /\ x.to = p + 1
    OBVIOUS
  <2>2. /\ c \in Punctuation => ty = c
        /\ c \notin Punctuation => ty = "blank" /\ c \in Blank
    BY <1>2
  <2> HIDE DEF ty, x
  <2>3. x.to \in 1 .. Len(t) /\ x.from < x.to /\ x.from \in Nat
    BY <1>1, <2>1
  <2>4. Lexeme(t, x)
    BY <2>1, <2>2, <2>3, Zenon DEF Lexeme
  <2>5. NextState(q, c) = "start"
    BY <1>2, FromStart, Zenon
  <2>6. CASE c \in Punctuation
    <3>1. TokenType(q, c) = c
      BY <2>6, FromStart, Zenon
    <3>2. Consumed(q, c)
      BY <2>6, <3>1, TypesApart, Zenon DEF Consumed
    <3>3. c # NoToken /\ c # "identifier" /\ c # "string" /\ c # "blank" /\ c # "line"
          /\ c # "comment"
      BY <2>6, TypesApart, Zenon
    <3>4. IsToken(x)
      BY <2>1, <2>2, <2>6, <3>3 DEF IsToken
    <3>5. x.type \notin {"identifier", "string"}
      BY <2>1, <2>2, <2>6, <3>3
    <3> QED
      BY <2>1, <2>2, <2>4, <2>5, <2>6, <3>1, <3>2, <3>3, <3>4, <3>5, Zenon DEF Progress
  <2>7. CASE c \notin Punctuation
    <3>1. TokenType(q, c) = NoToken
      BY <2>7, FromStart, Zenon
    <3>2. ~IsToken(x)
      BY <2>1, <2>2, <2>7 DEF IsToken
    <3> QED
      BY <2>1, <2>4, <2>5, <3>1, <3>2, Zenon DEF Progress
  <2> QED
    BY <2>6, <2>7
<1>3. CASE c \in Alpha
  <2>1. c \notin Punctuation
    <3>1. \A d \in Alpha : d \notin Punctuation
      BY DEF Alpha, Punctuation
    <3> QED
      BY <1>3, <3>1, Zenon
  <2>2. /\ NextState(q, c) = "in_identifier" /\ TokenString(q, c, s) = <<c>>
        /\ TokenType(q, c) = NoToken
    BY <1>3, <2>1, FromStart, Zenon
  <2>3. <<c>> = SubSeq(t, p + 1, p + 1)
    <3>1. p + 1 \in 1 .. Len(t)
      BY <1>1
    <3> QED
      BY <3>1
  <2>4. /\ p + 1 >= p + 1
        /\ \A n \in p + 1 .. p + 1 : n = p + 1
    OBVIOUS
  <2>5. c \in InIdentifier
    BY <1>3, NoDot, Zenon
  <2>6. BegunName(t, p, "in_identifier", <<c>>, p + 1)
    BY <1>3, <2>3, <2>4, <2>5, Zenon DEF BegunName
  <2>7. "in_identifier" # "start"
    OBVIOUS
  <2> QED
    BY <2>2, <2>6, <2>7, Zenon DEF Progress, Begun
<1>4. CASE c = Quote
  <2>1. NextState("start", c) = "in_str" /\ TokenString("start", c, s) = <<>>
    BY <1>4, FromStart, Zenon
  <2>2. TokenType("start", c) = NoToken
    <3>1. Quote \notin Punctuation
      BY DEF Quote, Punctuation
    <3> QED
      BY <1>4, <3>1, FromStart, Zenon
  <2>3. Collecting(t, "in_str", hex, <<>>, p + 1, p + 1)
    <3>1. p + 1 \in Nat /\ p + 1 <= p + 1
      OBVIOUS
    <3> QED
      BY <3>1, NothingSpelled, Zenon DEF Collecting
  <2>4. "in_str" \in StringStates /\ "in_str" # "start" /\ "start" # "esc_hex_exp_first"
    BY DEF StringStates
  <2>5. Begun(t, p, "in_str", hex, <<>>, p + 1)
    BY <1>4, <2>3, <2>4, Zenon DEF Begun
  <2> QED
    BY <2>1, <2>2, <2>4, <2>5, Zenon DEF Progress
<1>5. CASE c = "/"
  <2>1. NextState("start", c) = "comm_start"
    BY <1>5, FromStart, Zenon
  <2>2. TokenType("start", c) = NoToken
    <3>1. "/" \notin Punctuation
      BY DEF Punctuation
    <3> QED
      BY <1>5, <3>1, FromStart, Zenon
  <2>3. BegunComment(t, p, "comm_start", p + 1)
    BY <1>5, Zenon DEF BegunComment
  <2>4. "comm_start" # "start"
    OBVIOUS
  <2> QED
    BY <2>1, <2>2, <2>3, <2>4, Zenon DEF Progress, Begun
<1>6. CASE c \notin Blank \union Punctuation \union Alpha \union {Quote, "/"}
  <2>1. NextState(q, c) = "invalid"
    BY <1>6, FromStart, Zenon
  <2> QED
    BY <2>1, Zenon DEF Progress
<1> QED
  BY <1>2, <1>3, <1>4, <1>5, <1>6

\* From its first character on a lexeme is made.
LEMMA Reads ==
  ASSUME NEW S, NEW t \in Seq(S), NEW b \in Nat, NEW p \in Nat, p < Len(t),
         NEW q, NEW s, NEW c, c = t[p + 1],
         (q = "start" /\ p = b) \/ Begun(t, b, q, hex, s, p)
  PROVE  Progress(t, b, q, c, s, p)
<1>1. Len(t) \in Nat
  OBVIOUS
<1>2. CASE q = "start" /\ p = b
  BY <1>2, FirstRead, Zenon
<1>3. CASE Begun(t, b, q, hex, s, p)
  BY <1>1, <1>3, CommentRead, NameRead, StringRead, Zenon DEF Begun
<1> QED
  BY <1>2, <1>3

\* Nothing has begun in the state "start".
LEMMA BegunState ==
  ASSUME NEW t, NEW b, NEW q, NEW h, NEW s, NEW p, Begun(t, b, q, h, s, p)
  PROVE  q # "start"
BY DEF Begun, BegunComment, BegunName, StringStates

-----------------------------------------------------------------------------
(* One lexeme more, and one document more.                                 *)

\* A lexeme more behind those that cover the text up to b.
LEMMA LexedMore ==
  ASSUME NEW t, NEW L, NEW b, Lexed(t, L, b), NEW x, Lexeme(t, x), x.from = b
  PROVE  /\ Lexed(t, Append(L, x), x.to)
         /\ Len(L) \in Nat /\ Len(Append(L, x)) = Len(L) + 1 /\ Append(L, x)[Len(L) + 1] = x
         /\ \A k \in 1 .. Len(L) : Append(L, x)[k] = L[k]
<1> DEFINE n == Len(L)
           L2 == Append(L, x)
<1>1. PICK S : L \in Seq(S)
  BY Zenon DEF Lexed
<1>2. /\ \A k \in 1 .. n : Lexeme(t, L[k]) /\ L[k].from = End(L, k - 1)
      /\ End(L, n) = b
  BY Zenon DEF Lexed
<1>3. /\ n \in Nat /\ Len(L2) = n + 1 /\ L2[n + 1] = x
      /\ \A k \in 1 .. n : L2[k] = L[k]
  BY <1>1
<1>4. \E S2 : L2 \in Seq(S2)
  <2>1. L2 \in Seq(S \union {x})
    BY <1>1
  <2> QED
    BY <2>1, Zenon
<1> HIDE DEF n, L2
<1>5. \A k \in 0 .. n : End(L2, k) = End(L, k)
  BY <1>3 DEF End
<1>6. End(L2, n + 1) = x.to
  BY <1>3 DEF End
<1>7. ASSUME NEW k \in 1 .. n + 1
      PROVE  Lexeme(t, L2[k]) /\ L2[k].from = End(L2, k - 1)
  <2>1. CASE k \in 1 .. n
    <3>1. k - 1 \in 0 .. n
      BY <1>3, <2>1
    <3> QED
      BY <1>2, <1>3, <1>5, <2>1, <3>1, Zenon
  <2>2. CASE k = n + 1
    <3>1. k - 1 = n /\ n \in 0 .. n
      BY <1>3, <2>2
    <3> QED
      BY <1>2, <1>3, <1>5, <2>2, <3>1, Zenon
  <2> QED
    BY <1>3, <2>1, <2>2
<1>8. Lexed(t, L2, x.to)
  BY <1>3, <1>4, <1>6, <1>7, Zenon DEF Lexed
<1> QED
  BY <1>3, <1>8, Zenon DEF n, L2

\* The documents do not depend on the lexemes behind them.
LEMMA RunMore ==
  ASSUME NEW L, NEW L2, NEW C, NEW j, Run(L, C, j),
         \A k \in 1 .. j : L2[k] = L[k]
  PROVE  Run(L2, C, j)
BY Zenon DEF Run

\* A document d behind the first j is followed by itself, where no token comes.
LEMMA RunTo ==
  ASSUME NEW L, NEW C, NEW j \in Nat, NEW n \in Nat, j < n, Run(L, C, j), NEW d,
         IF IsToken(L[j + 1]) THEN L[j + 1].type \in Allowed(C[j]) /\ d = After(C[j], L[j + 1])
         ELSE d = C[j],
         \A m \in j + 2 .. n : ~IsToken(L[m])
  PROVE  \E D : Run(L, D, n) /\ D[n] = d
<1> DEFINE D == [k \in 0 .. n |-> IF k <= j THEN C[k] ELSE d]
<1>1. /\ \A k \in 0 .. n : D[k] = IF k <= j THEN C[k] ELSE d
      /\ 0 \in 0 .. n /\ 0 <= j /\ n \in 0 .. n /\ ~(n <= j)
  OBVIOUS
<1> HIDE DEF D
<1>2. C[0] = Beginning /\ \A k \in 1 .. j :
        IF IsToken(L[k]) THEN L[k].type \in Allowed(C[k - 1]) /\ C[k] = After(C[k - 1], L[k])
        ELSE C[k] = C[k - 1]
  BY Zenon DEF Run
<1>3. ASSUME NEW k \in 1 .. n
      PROVE  IF IsToken(L[k]) THEN L[k].type \in Allowed(D[k - 1]) /\ D[k] = After(D[k - 1], L[k])
             ELSE D[k] = D[k - 1]
  <2>1. k - 1 \in 0 .. n /\ k \in 0 .. n
    OBVIOUS
  <2>2. CASE k <= j
    <3>1. k \in 1 .. j /\ k - 1 <= j
      BY <2>2
    <3>2. D[k] = C[k] /\ D[k - 1] = C[k - 1]
      BY <1>1, <2>1, <2>2, <3>1
    <3> QED
      BY <1>2, <3>1, <3>2
  <2>3. CASE k = j + 1
    <3>1. k - 1 = j /\ k - 1 <= j /\ ~(k <= j)
      BY <2>3
    <3>2. D[k] = d /\ D[k - 1] = C[j]
      BY <1>1, <2>1, <3>1
    <3> QED
      BY <2>3, <3>2
  <2>4. CASE k > j + 1
    <3>1. k \in j + 2 .. n /\ ~(k <= j) /\ ~(k - 1 <= j)
      BY <2>4
    <3>2. D[k] = d /\ D[k - 1] = d
      BY <1>1, <2>1, <3>1
    <3> QED
      BY <3>1, <3>2
  <2> QED
    BY <2>2, <2>3, <2>4
<1>4. D[0] = Beginning
  BY <1>1, <1>2
<1>5. Run(L, D, n) /\ D[n] = d
  BY <1>1, <1>3, <1>4, Zenon DEF Run
<1> QED
  BY <1>5, Zenon

-----------------------------------------------------------------------------
(* What the parser has made of the lexemes so far.                         *)

\* The parser has dealt with all tokens of L.
Settled(L, C) == Run(L, C, Len(L)) /\ Shape(C[Len(L)], stack)

\* Or with all but the last one, which is token_t.
Waits(L, C) ==
  \E j \in 0 .. Len(L) :
    /\ Run(L, C, j) /\ Shape(C[j], stack)
    /\ \/ token_t.type = NoToken /\ \A m \in j + 1 .. Len(L) : ~IsToken(L[m])
       \/ /\ j < Len(L) /\ IsToken(L[j + 1]) /\ Matches(L[j + 1], token_t)
          /\ \A m \in j + 2 .. Len(L) : ~IsToken(L[m])

\* The scanner came from b to the end, or to a token.
Came(b) ==
  \/ token.type = NoToken /\ Place = b /\ (source = "regular" => b = Len(Text))
  \/ \E x : /\ Lexeme(Text, x) /\ IsToken(x) /\ Matches(x, token)
            /\ x.from = b /\ x.to = Place

\* It has read the characters behind b, which are not yet a lexeme.
OnItsWay(b) ==
  /\ token.type = NoToken
  /\ (state = "start" /\ Place = b) \/ Begun(Text, b, state, hex, token.string, Place)

\* What was read so far is covered by lexemes, which the grammar allows.
SoundInv ==
  source # "directory" =>
    /\ status # "running" => phase = "done"
    /\ phase = "open" => Place = 0 /\ token_t.type = NoToken /\ Shape(Beginning, stack)
    /\ phase = "scan" /\ scan = "busy" =>
         \E L, C : \E b \in Nat : Lexed(Text, L, b) /\ Waits(L, C) /\ OnItsWay(b)
    /\ phase = "scan" /\ scan = "ok" =>
         \E L, C : \E b \in Nat : Lexed(Text, L, b) /\ Waits(L, C) /\ Came(b)
    /\ phase = "parse" /\ ~In("invalid") =>
         \E L, C : \E b \in Nat : Lexed(Text, L, b) /\ Settled(L, C) /\ Came(b)
    /\ phase = "done" /\ status = "ok" /\ source = "regular" => Readable(Text)

\* The lexemes are so many.
LEMMA LexedLength ==
  ASSUME NEW t, NEW L, NEW b, Lexed(t, L, b)
  PROVE  Len(L) \in Nat
<1>1. PICK S : L \in Seq(S)
  BY Zenon DEF Lexed
<1> QED
  BY <1>1

\* Where a token waits, one that is none may follow.
LEMMA WaitsOn ==
  ASSUME NEW L, NEW C, Waits(L, C), NEW t, NEW b, Lexed(t, L, b),
         NEW x, Lexeme(t, x), x.from = b, ~IsToken(x)
  PROVE  Waits(Append(L, x), C)
<1> DEFINE n == Len(L)
           L2 == Append(L, x)
<1>1. PICK j \in 0 .. n :
        /\ Run(L, C, j) /\ Shape(C[j], stack)
        /\ \/ token_t.type = NoToken /\ \A m \in j + 1 .. n : ~IsToken(L[m])
           \/ /\ j < n /\ IsToken(L[j + 1]) /\ Matches(L[j + 1], token_t)
              /\ \A m \in j + 2 .. n : ~IsToken(L[m])
  BY Zenon DEF Waits
<1>2. /\ n \in Nat /\ Len(L2) = n + 1 /\ L2[n + 1] = x
      /\ \A k \in 1 .. n : L2[k] = L[k]
  BY LexedMore
<1> HIDE DEF n, L2
<1>3. Run(L2, C, j)
  <2>1. \A k \in 1 .. j : k \in 1 .. n
    BY <1>2
  <2> QED
    BY <1>1, <1>2, <2>1, RunMore, Zenon
<1>4. j \in 0 .. n + 1 /\ (j < n => j < n + 1 /\ j + 1 \in 1 .. n)
  BY <1>2
<1>5. /\ \A m \in j + 1 .. n + 1 : m = n + 1 \/ (m \in j + 1 .. n /\ m \in 1 .. n)
      /\ \A m \in j + 2 .. n + 1 : m = n + 1 \/ (m \in j + 2 .. n /\ m \in 1 .. n)
  BY <1>2
<1>6. CASE token_t.type = NoToken /\ \A m \in j + 1 .. n : ~IsToken(L[m])
  <2>1. \A m \in j + 1 .. n + 1 : ~IsToken(L2[m])
    BY <1>2, <1>5, <1>6, Zenon
  <2> QED
    BY <1>1, <1>2, <1>3, <1>4, <1>6, <2>1, Zenon DEF Waits, L2
<1>7. CASE /\ j < n /\ IsToken(L[j + 1]) /\ Matches(L[j + 1], token_t)
           /\ \A m \in j + 2 .. n : ~IsToken(L[m])
  <2>1. \A m \in j + 2 .. n + 1 : ~IsToken(L2[m])
    BY <1>2, <1>5, <1>7, Zenon
  <2>2. j < n + 1 /\ L2[j + 1] = L[j + 1]
    BY <1>2, <1>4, <1>7, Zenon
  <2> QED
    BY <1>1, <1>2, <1>3, <1>4, <1>7, <2>1, <2>2, Zenon DEF Waits, L2
<1> QED
  BY <1>1, <1>6, <1>7

\* No token waits.
LEMMA NothingWaits ==
  ASSUME NEW L, NEW C, NEW t, NEW b, Lexed(t, L, b), Waits(L, C), token_t.type = NoToken
  PROVE  \E D : Settled(L, D)
<1> DEFINE n == Len(L)
<1>1. n \in Nat
  BY LexedLength
<1>2. \A k \in 1 .. n : Lexeme(t, L[k])
  BY Zenon DEF Lexed
<1>3. PICK j \in 0 .. n :
        /\ Run(L, C, j) /\ Shape(C[j], stack)
        /\ \/ token_t.type = NoToken /\ \A m \in j + 1 .. n : ~IsToken(L[m])
           \/ j < n /\ IsToken(L[j + 1]) /\ Matches(L[j + 1], token_t)
  BY Zenon DEF Waits
<1> HIDE DEF n
<1>4. \A m \in j + 1 .. n : ~IsToken(L[m])
  <2>1. SUFFICES ASSUME j < n, Matches(L[j + 1], token_t) PROVE FALSE
    BY <1>3
  <2>2. j + 1 \in 1 .. n
    BY <1>1, <2>1
  <2>3. L[j + 1].type # NoToken
    BY <1>2, <2>2, LexemeTypes, Zenon
  <2> QED
    BY <2>1, <2>3, Zenon DEF Matches
<1>5. CASE j = n
  BY <1>3, <1>5, Zenon DEF Settled, n
<1>6. CASE j < n
  <2>1. j \in Nat /\ j + 1 \in j + 1 .. n /\ \A m \in j + 2 .. n : m \in j + 1 .. n
    BY <1>1, <1>6
  <2>2. ~IsToken(L[j + 1]) /\ \A m \in j + 2 .. n : ~IsToken(L[m])
    BY <1>4, <2>1, Zenon
  <2> DEFINE d == C[j]
  <2>3. d = C[j] /\ Shape(d, stack)
    BY <1>3
  <2> HIDE DEF d
  <2>4. \E D : Run(L, D, n) /\ D[n] = d
    BY <1>1, <1>3, <1>6, <2>1, <2>2, <2>3, RunTo
  <2> QED
    BY <2>3, <2>4, Zenon DEF Settled, n
<1> QED
  BY <1>1, <1>5, <1>6

\* The parser deals with the one that does.
LEMMA DealSettles ==
  ASSUME StackInv, TokenInv, NEW L, NEW C, NEW t, NEW b, Lexed(t, L, b), Waits(L, C),
         token_t.type # NoToken, Dealing, ~In("invalid")'
  PROVE  \E D : Settled(L, D)'
<1> DEFINE n == Len(L)
<1>1. n \in Nat
  BY LexedLength
<1>2. PICK j \in 0 .. n :
        /\ Run(L, C, j) /\ Shape(C[j], stack)
        /\ j < n /\ IsToken(L[j + 1]) /\ Matches(L[j + 1], token_t)
        /\ \A m \in j + 2 .. n : ~IsToken(L[m])
  BY Zenon DEF Waits
<1> DEFINE c == C[j]
           x == L[j + 1]
           d == After(c, x)
<1>3. Shape(c, stack) /\ Matches(x, token_t) /\ IsToken(x)
  BY <1>2
<1>4. x.type \in Allowed(c) /\ Shape(d, stack')
  <2> HIDE DEF c, x
  <2> QED
    BY <1>3, DealStep
<1>5. j \in Nat /\ c = C[j] /\ x = L[j + 1] /\ d = After(C[j], L[j + 1])
  OBVIOUS
<1> HIDE DEF n, c, x, d
<1>6. \E D : Run(L, D, n) /\ D[n] = d
  <2>1. IsToken(L[j + 1]) /\ L[j + 1].type \in Allowed(C[j]) /\ d = After(C[j], L[j + 1])
    BY <1>3, <1>4, <1>5
  <2> QED
    BY <1>1, <1>2, <1>5, <2>1, RunTo
<1> QED
  BY <1>4, <1>6, Zenon DEF Settled, n

\* At the beginning there are none.
LEMMA SoundInit == Init => SoundInv
<1> SUFFICES ASSUME Init PROVE SoundInv
  OBVIOUS
<1>1. /\ fpos = 0 /\ offset = 0 /\ size = 0
      /\ phase = "open" /\ status = "running"
      /\ token = [type |-> NoToken, string |-> <<>>] /\ token_t = token
      /\ stack = <<Frame("top_level")>> /\ path = <<>> /\ values = <<>>
  BY DEF Init, LcfgInit, ScannerInit
<1>2. Place = 0 /\ token_t.type = NoToken
  BY <1>1 DEF Place, UsedUp
<1>3. Shape(Beginning, stack)
  BY <1>1, AnswersFirst, Zenon DEF Answers
<1>4. phase # "scan" /\ phase # "parse" /\ phase # "done"
  BY <1>1
<1> QED
  BY <1>1, <1>2, <1>3, <1>4, Zenon DEF SoundInv

\* Nothing has been read.
LEMMA NothingLexed ==
  ASSUME NEW t
  PROVE  Lexed(t, <<>>, 0) /\ Len(<<>>) = 0
<1>1. <<>> \in Seq({}) /\ Len(<<>>) = 0 /\ 1 .. 0 = {}
  OBVIOUS
<1>2. End(<<>>, 0) = 0
  BY DEF End
<1> QED
  BY <1>1, <1>2, Zenon DEF Lexed

\* The scanner reads a character.
LEMMA CharSound ==
  ASSUME BufferInv, source # "directory", ScanChar, UNCHANGED parserVars,
         NEW L, NEW C, NEW b \in Nat, Lexed(Text, L, b), Waits(L, C), OnItsWay(b)
  PROVE  /\ scan' = "busy" =>
              \E L2 : \E b2 \in Nat : Lexed(Text, L2, b2) /\ Waits(L2, C)' /\ OnItsWay(b2)'
         /\ scan' = "ok" => Waits(L, C)' /\ Came(b)'
<1> DEFINE p == Place
           c == Char
           type == TokenType(state, c)
           string == TokenString(state, c, token.string)
<1>1. /\ p < Len(Text) /\ c = Text[p + 1]
      /\ Place' = IF Consumed(state, c) THEN p + 1 ELSE p
  BY OneCharacter, Zenon
<1>2. /\ state' = NextState(state, c) /\ token' = [type |-> type, string |-> string]
      /\ hex' = IF state = "esc_hex_exp_first" THEN c ELSE hex
      /\ scan' = IF state' = "invalid" THEN "error" ELSE IF type # NoToken THEN "ok" ELSE "busy"
      /\ UNCHANGED <<file, source>>
  BY Zenon DEF ScanChar
<1>3. token'.type = type /\ token'.string = string
  BY <1>2
<1>4. Text \in Seq(STRING) /\ Len(Text) \in Nat /\ p \in Nat /\ Text' = Text
  BY <1>2, PlaceTyped, TextLength, ScannerAssumption DEF BufferInv, Text
<1>5. UNCHANGED <<token_t, stack, path, values>>
  BY Zenon DEF parserVars
<1>6. ASSUME NEW K, Waits(K, C) PROVE Waits(K, C)'
  BY <1>5, <1>6, Zenon DEF Waits
<1>7. (state = "start" /\ p = b) \/ Begun(Text, b, state, hex, token.string, p)
  BY Zenon DEF OnItsWay
<1> HIDE DEF p, c, type, string
<1>8. Progress(Text, b, state, c, token.string, p)
  BY <1>1, <1>4, <1>7, Reads, Zenon
<1>9. CASE state' = "invalid"
  <2>1. scan' = "error"
    BY <1>2, <1>9
  <2> QED
    BY <2>1
<1>10. CASE /\ state' # "start" /\ type = NoToken /\ state' # "invalid"
            /\ Begun(Text, b, state', hex', string, p + 1)
  <2>1. scan' = "busy"
    BY <1>2, <1>10
  <2>2. Place' = p + 1
    BY <1>1, <1>10, TypesApart, Zenon DEF Consumed, type
  <2>3. OnItsWay(b)'
    BY <1>3, <1>4, <1>10, <2>2, Zenon DEF OnItsWay
  <2>4. Waits(L, C)' /\ scan' # "ok"
    BY <1>6, <2>1
  <2> QED
    BY <2>3, <2>4, Zenon
<1>11. CASE /\ state' = "start" /\ type = NoToken
            /\ \E x : Lexeme(Text, x) /\ ~IsToken(x) /\ x.from = b /\ x.to = p + 1
  <2>1. scan' # "ok"
    BY <1>2, <1>11
  <2>2. Place' = p + 1
    BY <1>1, <1>11, TypesApart, Zenon DEF Consumed, type
  <2>3. PICK e \in Nat : e = p + 1
    BY <1>4
  <2>4. PICK x : Lexeme(Text, x) /\ ~IsToken(x) /\ x.from = b /\ x.to = e
    BY <1>11, <2>3, Zenon
  <2>5. Lexed(Text, Append(L, x), e) /\ Waits(Append(L, x), C)
    BY <2>4, LexedMore, WaitsOn
  <2>6. OnItsWay(e)'
    BY <1>3, <1>11, <2>2, <2>3, Zenon DEF OnItsWay
  <2> DEFINE L2 == Append(L, x)
  <2>7. Lexed(Text, L2, e) /\ Waits(L2, C)
    BY <2>5
  <2> HIDE DEF L2
  <2>8. Waits(L2, C)'
    BY <1>6, <2>7, Zenon
  <2> QED
    BY <2>1, <2>6, <2>7, <2>8, Zenon
<1>12. CASE /\ state' = "start" /\ type # NoToken
            /\ \E x : /\ Lexeme(Text, x) /\ IsToken(x) /\ x.from = b
                      /\ x.to = IF Consumed(state, c) THEN p + 1 ELSE p
                      /\ x.type = type
                      /\ x.type \in {"identifier", "string"} => x.string = string
  <2>1. scan' # "busy"
    BY <1>2, <1>12
  <2>2. PICK x : /\ Lexeme(Text, x) /\ IsToken(x) /\ x.from = b
                 /\ x.to = IF Consumed(state, c) THEN p + 1 ELSE p
                 /\ x.type = type
                 /\ x.type \in {"identifier", "string"} => x.string = string
    BY <1>12, Zenon
  <2>3. x.to = Place' /\ Matches(x, token)'
    BY <1>1, <1>3, <2>2, Zenon DEF Matches
  <2>4. Came(b)'
    BY <1>4, <2>2, <2>3, Zenon DEF Came
  <2>5. Waits(L, C)'
    BY <1>6
  <2> QED
    BY <2>1, <2>4, <2>5, Zenon
<1> QED
  BY <1>2, <1>8, <1>9, <1>10, <1>11, <1>12, Zenon DEF Progress, type, string

\* The steps of the scanner.
LEMMA ReadSound ==
  ASSUME BufferInv, SoundInv, source # "directory", ReadToken
  PROVE  SoundInv'
<1>1. phase = "scan" /\ UNCHANGED parserVars /\ (FillBuffer \/ ScanChar \/ EndOfFile)
  BY Zenon DEF ReadToken, Scan
<1>2. UNCHANGED <<phase, token_t, stack, path, values, status>>
  BY <1>1, Zenon DEF parserVars
<1>3. scan = "busy" /\ UNCHANGED <<file, source>>
  BY <1>1, Zenon DEF FillBuffer, ScanChar, EndOfFile
<1>4. PICK L, C : \E b \in Nat : Lexed(Text, L, b) /\ Waits(L, C) /\ OnItsWay(b)
  BY <1>1, <1>3, Zenon DEF SoundInv
<1>5. PICK b \in Nat : Lexed(Text, L, b) /\ Waits(L, C) /\ OnItsWay(b)
  BY <1>4, Zenon
<1>6. Text' = Text
  BY <1>3 DEF Text
<1>7. Waits(L, C)'
  BY <1>2, <1>5, Zenon DEF Waits
<1>8. status' = "running" /\ phase' = "scan" /\ phase' # "open" /\ phase' # "parse"
      /\ phase' # "done"
  <2>1. phase # "done" /\ phase # "open" /\ phase # "parse"
    BY <1>1
  <2> QED
    BY <1>1, <1>2, <2>1, Zenon DEF SoundInv
<1>9. CASE ScanChar
  <2>1. /\ scan' = "busy" =>
             \E L2 : \E b2 \in Nat : Lexed(Text, L2, b2) /\ Waits(L2, C)' /\ OnItsWay(b2)'
        /\ scan' = "ok" => Waits(L, C)' /\ Came(b)'
    BY <1>1, <1>5, <1>9, CharSound
  <2> QED
    BY <1>5, <1>6, <1>8, <2>1, Zenon DEF SoundInv
<1>10. CASE FillBuffer
  <2>1. Place' = Place /\ UNCHANGED <<state, hex, token, scan>>
    BY <1>10, OneRead, Zenon DEF FillBuffer
  <2>2. OnItsWay(b)'
    BY <1>5, <1>6, <2>1, Zenon DEF OnItsWay
  <2>3. scan' # "ok"
    BY <1>3, <2>1
  <2> QED
    BY <1>5, <1>6, <1>7, <1>8, <2>2, <2>3, Zenon DEF SoundInv
<1>11. CASE EndOfFile
  <2>1. /\ source = "regular" => Place = Len(Text)
        /\ Place' = Place /\ UNCHANGED <<state, hex, token>>
        /\ scan' = IF state = "start" THEN "ok" ELSE "error"
    BY <1>11, AtTheEnd, Zenon DEF EndOfFile
  <2>2. state = "start" => Came(b)'
    <3> SUFFICES ASSUME state = "start" PROVE Came(b)'
      OBVIOUS
    <3>1. Place = b /\ token.type = NoToken
      BY <1>5, BegunState, Zenon DEF OnItsWay
    <3> QED
      BY <1>3, <1>6, <2>1, <3>1, Zenon DEF Came
  <2>3. scan' # "busy" /\ (scan' = "ok" => state = "start")
    BY <2>1
  <2> QED
    BY <1>5, <1>6, <1>7, <1>8, <2>2, <2>3, Zenon DEF SoundInv
<1> QED
  BY <1>1, <1>9, <1>10, <1>11

\* The parser's own steps.
LEMMA ParserSound ==
  ASSUME BufferInv, TokenInv, StackInv, SoundInv, source # "directory", LcfgNext, ~ReadToken
  PROVE  SoundInv'
<1>1. UNCHANGED bufferVars
  BY OwnSteps
<1>2. Place' = Place /\ Text' = Text /\ UNCHANGED source
  BY <1>1, BufferStays DEF bufferVars, Text
<1>3. phase # "done" => status = "running"
  BY Zenon DEF SoundInv
<1>4. CASE OpenFile
  <2>1. /\ phase = "open" /\ phase' = "scan" /\ StartScan
        /\ UNCHANGED <<token_t, stack, path, values, status>>
    BY <1>4, Zenon DEF OpenFile
  <2>2. /\ scan' = "busy" /\ state' = "start" /\ token'.type = NoToken
    BY <2>1 DEF StartScan, TokenInv
  <2>3. Place = 0 /\ token_t.type = NoToken /\ Shape(Beginning, stack)
    BY <2>1, Zenon DEF SoundInv
  <2> DEFINE C == [k \in {0} |-> Beginning]
             L == <<>>
  <2>4. C[0] = Beginning /\ Len(L) = 0 /\ 1 .. 0 = {} /\ 0 + 1 .. 0 = {} /\ 0 \in 0 .. 0 /\ 0 \in Nat
    OBVIOUS
  <2>5. Lexed(Text, L, 0)
    BY NothingLexed
  <2> HIDE DEF C, L
  <2>6. Run(L, C, 0)
    BY <2>4, Zenon DEF Run
  <2>7. Waits(L, C)'
    BY <2>1, <2>3, <2>4, <2>6, Zenon DEF Waits
  <2>8. OnItsWay(0)'
    BY <1>2, <2>2, <2>3, Zenon DEF OnItsWay
  <2>9. status' = "running" /\ phase' # "open" /\ phase' # "parse" /\ phase' # "done"
        /\ scan' # "ok"
    BY <1>3, <2>1, <2>2
  <2> QED
    BY <1>2, <2>4, <2>5, <2>7, <2>8, <2>9, Zenon DEF SoundInv
\* The end.
<1>5. ASSUME phase' = "done", status' = "ok" /\ source = "regular" => Readable(Text)
      PROVE  SoundInv'
  <2>1. phase' # "open" /\ phase' # "scan" /\ phase' # "parse"
    BY <1>5
  <2> QED
    BY <1>2, <1>5, <2>1, Zenon DEF SoundInv
<1>6. CASE OpenFails \/ ScanFails
  <2>1. phase' = "done" /\ status' = "error"
    BY <1>6, Zenon DEF OpenFails, ScanFails
  <2>2. status' # "ok"
    BY <2>1
  <2> QED
    BY <1>5, <2>1, <2>2
<1>7. CASE Finish
  <2>1. /\ phase = "parse" /\ (~HasNext \/ In("invalid")) /\ phase' = "done"
        /\ status' = IF In("top_level") /\ Len(stack) = 1 THEN "ok" ELSE "error"
    BY <1>7, Zenon DEF Finish
  <2>2. SUFFICES ASSUME status' = "ok", source = "regular" PROVE Readable(Text)
    BY <1>5, <2>1
  <2>3. In("top_level") /\ Len(stack) = 1
    BY <2>1, <2>2
  <2>4. ~In("invalid")
    BY <2>3 DEF In
  <2>5. PICK L, C : \E b \in Nat : Lexed(Text, L, b) /\ Settled(L, C) /\ Came(b)
    BY <2>1, <2>4, Zenon DEF SoundInv
  <2>6. PICK b \in Nat : Lexed(Text, L, b) /\ Settled(L, C) /\ Came(b)
    BY <2>5, Zenon
  <2>7. token.type = NoToken
    BY <2>1, <2>4, Zenon DEF HasNext
  <2>8. b = Len(Text)
    <3>1. ASSUME NEW x, Lexeme(Text, x), Matches(x, token) PROVE FALSE
      BY <2>7, <3>1, LexemeTypes, Zenon DEF Matches
    <3> QED
      BY <2>2, <2>6, <3>1, Zenon DEF Came
  <2>9. Complete(C[Len(L)])
    <3> DEFINE c == C[Len(L)]
    <3>1. Shape(c, stack)
      BY <2>6, Zenon DEF Settled
    <3> HIDE DEF c
    <3>2. Len(c.levels) = 1 /\ c.expects = "entry"
      <4>1. PICK S : c.levels \in Seq(S)
        BY <3>1, Zenon DEF Shape
      <4>2. /\ Len(c.levels) >= 1
            /\ Len(stack) = IF c.expects = "entry" THEN Len(c.levels) ELSE Len(c.levels) + 1
        BY <3>1, Zenon DEF Shape
      <4> QED
        BY <2>3, <4>1, <4>2
    <3> QED
      BY <3>2, Zenon DEF Complete, c
  <2> QED
    BY <2>6, <2>8, <2>9, Zenon DEF Readable, Reading, Settled
<1>8. CASE NextToken
  <2>1. /\ phase = "parse" /\ token.type # NoToken /\ ~In("invalid")
        /\ phase' = "scan" /\ token_t' = token
        /\ StartScan /\ UNCHANGED <<stack, path, values, status>>
    BY <1>8, Zenon DEF NextToken, HasNext
  <2>2. PICK L, C : \E b \in Nat : Lexed(Text, L, b) /\ Settled(L, C) /\ Came(b)
    BY <2>1, Zenon DEF SoundInv
  <2>3. PICK b \in Nat : Lexed(Text, L, b) /\ Settled(L, C) /\ Came(b)
    BY <2>2, Zenon
  <2>4. PICK x : Lexeme(Text, x) /\ IsToken(x) /\ Matches(x, token) /\ x.from = b /\ x.to = Place
    BY <2>1, <2>3, Zenon DEF Came
  <2> DEFINE L2 == Append(L, x)
             n == Len(L)
  <2>5. Run(L, C, n) /\ Shape(C[n], stack)
    BY <2>3, Zenon DEF Settled
  <2>6. L2 = Append(L, x) /\ n = Len(L)
    OBVIOUS
  <2>7. /\ Lexed(Text, L2, Place) /\ n \in Nat /\ Len(L2) = n + 1 /\ L2[n + 1] = x
        /\ \A k \in 1 .. n : L2[k] = L[k]
    BY <2>3, <2>4, LexedMore
  <2> HIDE DEF L2, n
  <2>8. /\ n \in 0 .. Len(L2) /\ n < Len(L2) /\ Run(L2, C, n) /\ L2[n + 1] = x
        /\ n + 2 .. Len(L2) = {}
    <3>1. Run(L2, C, n)
      BY <2>5, <2>7, RunMore, Zenon
    <3> QED
      BY <2>7, <3>1
  <2>9. Matches(x, token_t)'
    BY <2>1, <2>4, Zenon DEF Matches
  <2>10. Waits(L2, C)'
    BY <2>1, <2>4, <2>5, <2>8, <2>9, Zenon DEF Waits
  <2>11. scan' = "busy" /\ state' = "start" /\ token'.type = NoToken
    BY <2>1 DEF StartScan, TokenInv
  <2>12. PICK e \in Nat : e = Place
    BY PlaceTyped
  <2>13. OnItsWay(e)'
    BY <1>2, <2>11, <2>12, Zenon DEF OnItsWay
  <2>14. status' = "running" /\ phase' # "open" /\ phase' # "parse" /\ phase' # "done"
         /\ scan' # "ok"
    BY <1>3, <2>1, <2>11
  <2> QED
    BY <1>2, <2>7, <2>10, <2>12, <2>13, <2>14, Zenon DEF SoundInv
\* A token that waited is dealt with, if one did.
<1>9. ASSUME phase = "scan", scan = "ok", phase' = "parse", UNCHANGED <<token, status>>,
             NEW L, NEW C, NEW b \in Nat, Lexed(Text, L, b), Came(b),
             NEW D, ~In("invalid")' => Settled(L, D)'
      PROVE  SoundInv'
  <2>1. Came(b)'
    BY <1>2, <1>9, Zenon DEF Came, Matches
  <2>2. status' = "running" /\ phase' # "open" /\ phase' # "scan" /\ phase' # "done"
    BY <1>3, <1>9
  <2> QED
    BY <1>2, <1>9, <2>1, <2>2, Zenon DEF SoundInv
<1>10. ASSUME phase = "scan", scan = "ok"
       PROVE  \E L, C : \E b \in Nat : Lexed(Text, L, b) /\ Waits(L, C) /\ Came(b)
  BY <1>10, Zenon DEF SoundInv
<1>11. CASE FirstToken
  <2>1. /\ phase = "scan" /\ scan = "ok" /\ token_t.type = NoToken /\ phase' = "parse"
        /\ UNCHANGED <<token, stack, status>>
    BY <1>11, Zenon DEF FirstToken, scannerVars
  <2>2. PICK L, C : \E b \in Nat : Lexed(Text, L, b) /\ Waits(L, C) /\ Came(b)
    BY <1>10, <2>1
  <2>3. PICK b \in Nat : Lexed(Text, L, b) /\ Waits(L, C) /\ Came(b)
    BY <2>2, Zenon
  <2>4. PICK D : Settled(L, D)
    BY <2>1, <2>3, NothingWaits
  <2>5. Settled(L, D)'
    BY <2>1, <2>4, Zenon DEF Settled
  <2> QED
    BY <1>9, <2>1, <2>3, <2>5
<1>12. CASE Dealing
  <2>1. Deal
    BY <1>12, Zenon DEF Dealing, Name, Equals, Value, OpenList, OpenMap, CloseMap, Comma,
                        Element, Nested, CloseList, Unexpected
  <2>2. /\ phase = "scan" /\ scan = "ok" /\ token_t.type # NoToken /\ phase' = "parse"
        /\ UNCHANGED <<token, status>>
    BY <2>1, Zenon DEF Deal
  <2>3. PICK L, C : \E b \in Nat : Lexed(Text, L, b) /\ Waits(L, C) /\ Came(b)
    BY <1>10, <2>2
  <2>4. PICK b \in Nat : Lexed(Text, L, b) /\ Waits(L, C) /\ Came(b)
    BY <2>3, Zenon
  <2>5. \E D : ~In("invalid")' => Settled(L, D)'
    <3>1. CASE In("invalid")'
      BY <3>1
    <3>2. CASE ~In("invalid")'
      BY <1>12, <2>2, <2>4, <3>2, DealSettles
    <3> QED
      BY <3>1, <3>2
  <2> QED
    BY <1>9, <2>2, <2>4, <2>5
<1> QED
  BY <1>4, <1>6, <1>7, <1>8, <1>11, <1>12, Zenon DEF LcfgNext, Dealing

\* A file that is accepted is one that can be read: not a character of it was
\* passed over that does not belong to a lexeme, no token stands where the
\* grammar has none, and nothing is left open at its end.
AcceptedReadable ==
  source = "regular" /\ status = "ok" => Readable(Text)

\* At the end of the file the lexemes are a reading of it.
LEMMA SoundIsReadable == ASSUME SoundInv PROVE AcceptedReadable
<1> SUFFICES ASSUME source = "regular", status = "ok" PROVE Readable(Text)
  BY DEF AcceptedReadable
<1>1. source # "directory" /\ status # "running"
  OBVIOUS
<1> QED
  BY <1>1, Zenon DEF SoundInv

(* What the parser accepts as a file has a reading: lexemes that cover it  *)
(* from its first character to its last, with tokens only where they may   *)
(* stand and all lists and maps closed. So a file that has none is refused,*)
(* wherever the borders of the buffer fall. (lcfg_static.c:483-1140)       *)
THEOREM AcceptedIsReadable == Spec => []AcceptedReadable
<1> DEFINE Inv == ReadInv /\ TokenInv /\ ConfInv /\ StackInv /\ SoundInv
<1>1. Init => Inv
  BY ReadInit, TokenInit, ConfInit, StackInit, SoundInit
<1>2. Inv /\ [Next]_vars => Inv'
  <2> SUFFICES ASSUME Inv, [Next]_vars PROVE Inv'
    OBVIOUS
  <2>1. ReadInv' /\ ConfInv' /\ BufferInv
    BY ReadStep, ConfSteps DEF ReadInv
  <2>2. CASE LcfgNext
    <3>1. StackInv' /\ TokenInv'
      <4>1. PICK S : values \in Seq(S)
        BY Zenon DEF ConfInv
      <4> QED
        BY <2>2, <4>1, PathStep, TokenStep
    <3>2. source = "directory" => SoundInv'
      <4>1. source' = source
        <5>1. CASE ReadToken
          BY <5>1, Zenon DEF ReadToken, Scan, FillBuffer, ScanChar, EndOfFile
        <5>2. CASE ~ReadToken
          <6>1. UNCHANGED bufferVars
            BY <2>2, <5>2, OwnSteps
          <6> QED
            BY <6>1 DEF bufferVars
        <5> QED
          BY <5>1, <5>2
      <4> QED
        BY <4>1, Zenon DEF SoundInv
    <3> QED
      BY <2>1, <2>2, <3>1, <3>2, ReadSound, ParserSound
  <2>3. CASE ~LcfgNext
    <3>1. UNCHANGED lcfgVars
      BY <2>3, Zenon DEF Next, Parse, ParseOk, ParseFails, Visit, NoMoreValues, CommandLine,
                         OpenFiles, OpenFilesFails, WriteHeader, CopyByte, Close, CutInput,
                         DiskFull, Terminated, vars
    <3>2. /\ UNCHANGED <<file, source, state, hex, token, scan, token_t, stack>>
          /\ UNCHANGED <<phase, status>> /\ Place' = Place
      BY <3>1, StaysOut DEF lcfgVars, scannerVars, bufferVars, parserVars
    <3>3. Text' = Text
      BY <3>2 DEF Text
    <3>4. TokenInv' /\ StackInv'
      BY <3>2, Zenon DEF TokenInv, StackInv
    <3>5. /\ \A L, C : Waits(L, C) => Waits(L, C)'
          /\ \A L, C : Settled(L, C) => Settled(L, C)'
      BY <3>2, Zenon DEF Waits, Settled, Matches
    <3>6. \A b : Came(b) => Came(b)'
      BY <3>2, <3>3, Zenon DEF Came, Matches
    <3>7. \A b : OnItsWay(b) => OnItsWay(b)'
      BY <3>2, <3>3, Zenon DEF OnItsWay, Begun, BegunComment, BegunName, Collecting
    <3>8. In("invalid")' = In("invalid")
      BY <3>2 DEF In, Top
    <3>9. SoundInv'
      BY <3>2, <3>3, <3>5, <3>6, <3>7, <3>8, Zenon DEF SoundInv
    <3> QED
      BY <2>1, <3>4, <3>9
  <2> QED
    BY <2>2, <2>3
<1>3. Inv => AcceptedReadable
  BY SoundIsReadable
<1> HIDE DEF Inv
<1> QED
  BY <1>1, <1>2, <1>3, PTL DEF Spec

\* The files are labelled rightly: one that has nothing wrong means what its
\* text says, and a damaged or unended one has no reading. Of the others, with
\* a list that is too long or a wrong digit, nothing is said.
Labelled ==
  \A f \in Files :
    /\ f.wrong = "nothing" => Says(f.text, f.means)
    /\ f.wrong \in {"damaged", "unended"} => ~Readable(f.text)

(* Any files, read by pieces of any size: the parser accepts a file without *)
(* fault with exactly its values and keys, refuses a damaged one, and of a *)
(* pipe takes no value that is not there. (lcfg_static.c:483-1140)         *)
THEOREM WrittenIsAccepted ==
  ASSUME Labelled
  PROVE  Spec => []AcceptedAsWritten
<1>1. SaidIsFound /\ AcceptedReadable /\ ReadInv => AcceptedAsWritten
  <2> SUFFICES ASSUME SaidIsFound, AcceptedReadable, ReadInv PROVE AcceptedAsWritten
    OBVIOUS
  <2>1. file \in Files /\ source \in {"regular", "stream", "directory"}
    BY Zenon DEF ReadInv, BufferInv
  <2>2. status = "ok" => source # "directory"
    BY DEF ReadInv, DirectoryInv
  <2>3. /\ Wrong = "nothing" => Says(Text, Means)
        /\ Wrong \in {"damaged", "unended"} => ~Readable(Text)
    BY <2>1, Zenon DEF Labelled, Wrong, Text, Means
  <2>4. status = "ok" /\ source = "regular" =>
          /\ Wrong \notin {"damaged", "unended"}
          /\ Wrong = "nothing" => values = Means
    <3> SUFFICES ASSUME status = "ok", source = "regular"
                 PROVE  /\ Wrong \notin {"damaged", "unended"}
                        /\ Wrong = "nothing" => values = Means
      OBVIOUS
    <3>1. source # "directory" /\ Readable(Text)
      BY DEF AcceptedReadable
    <3> QED
      BY <2>3, <3>1, Zenon DEF SaidIsFound
  <2>5. status = "ok" /\ source = "stream" /\ Wrong = "nothing" => IsPrefix(values, Means)
    <3> SUFFICES ASSUME status = "ok", source = "stream", Wrong = "nothing"
                 PROVE  IsPrefix(values, Means)
      OBVIOUS
    <3>1. source # "directory"
      OBVIOUS
    <3> QED
      BY <2>3, <3>1, Zenon DEF SaidIsFound
  <2>6. status = "error" /\ source = "regular" /\ Opened => Wrong # "nothing"
    <3> SUFFICES ASSUME status = "error", source = "regular", Opened, Wrong = "nothing"
                 PROVE  FALSE
      OBVIOUS
    <3>1. source # "directory"
      OBVIOUS
    <3> QED
      BY <2>3, <3>1, Zenon DEF SaidIsFound
  <2> QED
    BY <2>2, <2>4, <2>5, <2>6, Zenon DEF AcceptedAsWritten
<1>2. ReadInv /\ [Next]_vars => ReadInv'
  BY ReadStep
<1> QED
  BY <1>1, <1>2, ReadInit, SaidIsRead, AcceptedIsReadable, PTL DEF Spec

(* So no image is made with half a configuration, whatever the files, the  *)
(* buffer and the settings in them. (gpsign.c:567-601, compare.h:30-91)    *)
THEOREM ImageAsWritten ==
  ASSUME Labelled
  PROVE  Spec => []ImageHoldsConfig
BY WrittenIsAccepted, ConfigurationWhole, PTL
=============================================================================
