----------------------------- MODULE PUsbProofs -----------------------------
(***************************************************************************)
(* What holds of pusb for every file, buffer and limit, and every width of *)
(* the counter that can hold a file's length: proofs about module PUsb.    *)
(***************************************************************************)
EXTENDS PUsb, SequenceTheorems, TLAPS

-----------------------------------------------------------------------------
(* Numbers and parts of the file.                                          *)

\* A part of a sequence is a sequence over the same set.
LEMMA PartOfSeq ==
  ASSUME NEW S, NEW s \in Seq(S), NEW a \in Nat \ {0}, NEW b \in 0 .. Len(s)
  PROVE  /\ SubSeq(s, a, b) \in Seq(S)
         /\ Len(SubSeq(s, a, b)) = IF a <= b THEN b - a + 1 ELSE 0
         /\ \A i \in 1 .. Len(SubSeq(s, a, b)) : SubSeq(s, a, b)[i] = s[a + i - 1]
OBVIOUS

\* The n elements of a sequence behind the first a, and the first k of those.
LEMMA PartBehind ==
  ASSUME NEW S, NEW s \in Seq(S), NEW a \in Nat, NEW n \in Nat, a + n <= Len(s)
  PROVE  /\ SubSeq(s, a + 1, a + n) \in Seq(S)
         /\ Len(SubSeq(s, a + 1, a + n)) = n
<1>1. a + 1 \in Nat \ {0} /\ a + n \in 0 .. Len(s)
  OBVIOUS
<1>2. /\ SubSeq(s, a + 1, a + n) \in Seq(S)
      /\ Len(SubSeq(s, a + 1, a + n)) = IF a + 1 <= a + n THEN a + n - (a + 1) + 1 ELSE 0
  BY <1>1, PartOfSeq
<1> QED
  BY <1>2

LEMMA PartOfPart ==
  ASSUME NEW S, NEW s \in Seq(S), NEW a \in Nat, NEW n \in Nat, a + n <= Len(s),
         NEW k \in 0 .. n
  PROVE  SubSeq(SubSeq(s, a + 1, a + n), 1, k) = SubSeq(s, a + 1, a + k)
<1>1. CASE k = 0
  BY <1>1, SubSeqEmpty
<1>2. CASE k # 0
  <2>1. /\ a + 1 \in 1 .. Len(s) /\ a + n \in 1 .. Len(s)
        /\ 1 \in 1 .. a + n - (a + 1) + 1 /\ k \in 1 .. a + n - (a + 1) + 1
        /\ a + 1 + 1 - 1 = a + 1 /\ a + 1 + k - 1 = a + k
    BY <1>2
  <2> QED
    BY <2>1, SubSeqOfSubSeq
<1> QED
  BY <1>1, <1>2

\* An unsigned int that is counted below 0 wraps around once.
LEMMA WrapAround ==
  ASSUME NEW x \in -WORD .. WORD - 1
  PROVE  x % WORD = IF x >= 0 THEN x ELSE x + WORD
<1>1. WORD \in Nat \ {0}
  BY PUsbAssumption
<1>2. CASE x >= 0
  BY <1>1, <1>2
<1>3. CASE x < 0
  BY <1>1, <1>3
<1> QED
  BY <1>2, <1>3

LEMMA FileFacts ==
  /\ File \in Seq(Nat) /\ Len(File) \in Nat /\ WORD \in Nat /\ Len(File) < WORD
  /\ READ_BUFFER_SIZE \in Nat \ {0} /\ MAX_SIZE \in Nat
  /\ Prefix(0) = <<>> /\ Len(<<>>) = 0 /\ <<>> \in Seq(Nat)
  /\ \A n \in 0 .. Len(File) : Prefix(n) \in Seq(Nat) /\ Len(Prefix(n)) = n
BY PUsbAssumption, PartOfSeq DEF Prefix

\* What is read next, and any part of it that a transfer got through.
LEMMA ChunkFacts ==
  ASSUME TypeOK
  PROVE  /\ Len(Chunk) \in Nat /\ pos + Len(Chunk) \in 0 .. Len(File)
         /\ Chunk # <<>> => Len(Chunk) > 0
         /\ \A n \in 0 .. Len(Chunk) :
              SubSeq(Chunk, 1, n) = SubSeq(File, pos + 1, pos + n)
         /\ Chunk = SubSeq(File, pos + 1, pos + Len(Chunk))
<1> DEFINE left == IF pos < fileLen THEN fileLen - pos ELSE 0
           n == Lesser(READ_BUFFER_SIZE, left)
<1>1. pos \in 0 .. Len(File) /\ fileLen \in 0 .. Len(File) /\ n \in Nat /\ pos + n \in 0 .. Len(File)
  BY FileFacts DEF TypeOK, Lesser
<1>2. Chunk = SubSeq(File, pos + 1, pos + n)
  BY DEF Chunk
<1> HIDE DEF n
<1>3. Chunk \in Seq(Nat) /\ Len(Chunk) = n
  <2>1. pos \in Nat /\ n \in Nat /\ pos + n <= Len(File) /\ File \in Seq(Nat)
    BY <1>1, FileFacts
  <2> QED
    BY <1>2, <2>1, PartBehind
<1>4. ASSUME NEW m \in 0 .. Len(Chunk)
      PROVE  SubSeq(Chunk, 1, m) = SubSeq(File, pos + 1, pos + m)
  <2>1. pos \in Nat /\ pos + n <= Len(File) /\ File \in Seq(Nat) /\ m \in 0 .. n
    BY <1>1, <1>3, FileFacts
  <2> QED
    BY <1>1, <1>2, <2>1, PartOfPart
<1>5. Chunk # <<>> => Len(Chunk) > 0
  BY <1>1, <1>3, EmptySeq
<1> QED
  BY <1>1, <1>2, <1>3, <1>4, <1>5

\* What the ROM stores of the bytes behind those it has.
LEMMA StoredFacts ==
  ASSUME TypeOK, BoardInv, rom = "data", Len(got) = pos,
         NEW n \in Nat, pos + n \in 0 .. Len(File),
         Stored(SubSeq(File, pos + 1, pos + n))
  PROVE  \E k \in 0 .. n :
           /\ k = Lesser(n, announced - pos)
           /\ got' = Prefix(pos + k) /\ got' \in Seq(Nat) /\ Len(got') = pos + k
           /\ pos + k <= announced
           /\ rom' = IF pos + k = announced THEN "run" ELSE "data"
           /\ UNCHANGED <<bus, announced>>
<1> DEFINE data == SubSeq(File, pos + 1, pos + n)
           k == Lesser(n, announced - pos)
<1>1. /\ pos \in Nat /\ announced \in Nat /\ pos < announced /\ announced <= Len(File)
      /\ got = Prefix(pos) /\ Len(File) \in Nat /\ File \in Seq(Nat)
  BY FileFacts DEF TypeOK, BoardInv
<1>2. k \in 0 .. n /\ pos + k <= announced /\ k <= n /\ k \in 0 .. Len(File) - pos
  BY <1>1 DEF Lesser
<1>3. Len(data) = n
  <2>1. pos + n <= Len(File)
    BY <1>1
  <2> QED
    BY <1>1, <2>1, PartBehind
<1>4. got' = got \o SubSeq(data, 1, Lesser(Len(data), announced - Len(got)))
  BY Zenon DEF Stored
<1>5. /\ rom' = (IF Len(got') = announced THEN "run" ELSE "data")
      /\ UNCHANGED <<bus, announced>>
  BY Zenon DEF Stored
<1> HIDE DEF data
<1>6. got' = got \o SubSeq(data, 1, k)
  BY <1>3, <1>4
<1> HIDE DEF k
<1>7. SubSeq(data, 1, k) = SubSeq(File, pos + 1, pos + k)
  <2>1. pos + n <= Len(File)
    BY <1>1
  <2> QED
    BY <1>1, <1>2, <2>1, PartOfPart DEF data
<1>8. got' = Prefix(pos + k)
  <2>1. pos \in 0 .. Len(File)
    BY <1>1
  <2>2. SubSeq(File, 1, pos) \o SubSeq(File, pos + 1, pos + k) = SubSeq(File, 1, pos + k)
    BY <1>1, <1>2, <2>1, ConcatAdjacentSubSeq
  <2> QED
    BY <1>1, <1>6, <1>7, <2>2 DEF Prefix
<1>9. Prefix(pos + k) \in Seq(Nat) /\ Len(Prefix(pos + k)) = pos + k
  BY <1>1, <1>2, FileFacts
<1> QED
  BY <1>2, <1>5, <1>8, <1>9 DEF k

-----------------------------------------------------------------------------
(* The initial state, and steps that leave the board alone.                *)

LEMMA InitInvariant == Init => IInv
<1> SUFFICES ASSUME Init PROVE IInv
  OBVIOUS
<1>1. TypeOK
  <2>1. /\ -1 \in -1 .. Len(File) /\ 0 \in 0 .. Len(File) /\ 0 \in 0 .. WORD - 1
        /\ <<>> \in Seq(Nat) /\ <<>> \in {<<>>} \cup {<<m>> : m \in Packet}
    BY FileFacts
  <2> QED
    BY <2>1 DEF Init, TypeOK
<1>2. FileInv /\ BoardInv /\ StepInv
  BY FileFacts DEF Init, FileInv, BoardInv, StepInv, Early
<1> QED
  BY <1>1, <1>2 DEF IInv

\* What the board has, and what it was told, did not change.
LEMMA SameBoard ==
  ASSUME BoardInv, UNCHANGED <<rom, out, announced, got, size>>
  PROVE  BoardInv'
BY DEF BoardInv, Prefix, Size

LEMMA MainInvariance ==
  ASSUME IInv,
         \/ CheckFile \/ OpenDevice \/ configure_device \/ ClaimInterface \/ FailsEarly
         \/ AllSent \/ CloseUp \/ CloseUpFails
  PROVE  IInv'
<1>1. TypeOK /\ FileInv /\ BoardInv /\ StepInv
  BY DEF IInv
<1>2. UNCHANGED <<size, filesize, pos, fileLen, resized, bus, rom, out, announced, got>>
  BY DEF CheckFile, OpenDevice, configure_device, ClaimInterface, FailsEarly, AllSent,
         CloseUp, CloseUpFails, countVars, diskVars, romVars
<1>3. BoardInv'
  BY <1>1, <1>2, SameBoard
<1>4. CASE CheckFile \/ OpenDevice \/ configure_device \/ ClaimInterface
  <2>1. /\ UNCHANGED <<exit, fail>>
        /\ \/ pc = "check" /\ pc' = "wait"
           \/ pc = "wait" /\ pc' = "configure"
           \/ pc = "configure" /\ pc' = "size"
           \/ pc = "claim" /\ pc' = "id"
    BY <1>4 DEF CheckFile, OpenDevice, configure_device, ClaimInterface
  <2>2. TypeOK'
    BY <1>1, <1>2, <2>1 DEF TypeOK
  <2>3. FileInv' /\ StepInv'
    BY <1>1, <1>2, <2>1 DEF FileInv, StepInv, Size
  <2> QED
    BY <1>3, <2>2, <2>3 DEF IInv
<1>5. CASE FailsEarly \/ CloseUpFails
  <2>1. pc' = "exited" /\ exit' = "failed" /\ fail' \in {fail, TRUE}
    BY <1>5 DEF FailsEarly, CloseUpFails, Return
  <2>2. TypeOK'
    BY <1>1, <1>2, <2>1 DEF TypeOK
  <2>3. FileInv' /\ StepInv'
    BY <1>1, <1>2, <2>1 DEF FileInv, StepInv
  <2> QED
    BY <1>3, <2>2, <2>3 DEF IInv
<1>6. CASE AllSent
  <2>1. pc = "while" /\ filesize = 0 /\ pc' = "closeup" /\ UNCHANGED <<exit, fail>>
    BY <1>6 DEF AllSent
  <2>2. TypeOK'
    BY <1>1, <1>2, <2>1 DEF TypeOK
  <2>3. FileInv'
    BY <1>1, <1>2, <2>1 DEF FileInv
  <2>4. /\ pos \in Nat /\ pos <= Len(File) /\ size \in Int /\ size >= -1 /\ size # -1
        /\ Len(File) < WORD /\ WORD \in Nat /\ Len(File) \in Nat
    BY <1>1, <2>1, FileFacts DEF TypeOK, FileInv
  <2>5. pos = size
    BY <1>1, <2>1, <2>4 DEF FileInv
  <2>6. size > 0 => rom = "run"
    BY <1>1, <2>1, <2>4, <2>5 DEF StepInv, BoardInv
  <2>7. StepInv'
    BY <1>1, <1>2, <2>1, <2>4, <2>5, <2>6 DEF StepInv, FileInv
  <2> QED
    BY <1>3, <2>2, <2>3, <2>7 DEF IInv
<1>7. CASE CloseUp
  <2>1. /\ pc = "closeup" /\ pc' = "exited" /\ fail' = fail
        /\ exit' = IF fail THEN "failed" ELSE "ok"
    BY <1>7 DEF CloseUp, Return
  <2>2. TypeOK'
    BY <1>1, <1>2, <2>1 DEF TypeOK
  <2>3. FileInv' /\ StepInv'
    BY <1>1, <1>2, <2>1 DEF FileInv, StepInv, TypeOK
  <2> QED
    BY <1>3, <2>2, <2>3 DEF IInv
<1> QED
  BY <1>4, <1>5, <1>6, <1>7

LEMMA OpenFileInvariance ==
  ASSUME IInv, OpenFile
  PROVE  IInv'
<1>1. /\ pc = "size" /\ fileLen <= MAX_SIZE
      /\ size' = fileLen /\ filesize' = fileLen /\ resized' = FALSE /\ pc' = "claim"
      /\ UNCHANGED <<exit, fail, pos, fileLen, bus, rom, out, announced, got>>
  BY DEF OpenFile, romVars
<1>2. /\ TypeOK /\ FileInv /\ BoardInv /\ StepInv
      /\ fileLen \in 0 .. Len(File) /\ Len(File) < WORD /\ WORD \in Nat /\ Len(File) \in Nat
  BY FileFacts DEF IInv, TypeOK
<1>3. TypeOK'
  <2>1. fileLen \in -1 .. Len(File) /\ fileLen \in 0 .. WORD - 1
    BY <1>2
  <2> QED
    BY <1>1, <1>2, <2>1 DEF TypeOK
<1>4. FileInv'
  BY <1>1, <1>2 DEF FileInv
<1>5. rom \in Early /\ out = <<>> /\ announced = -1
  BY <1>1, <1>2 DEF StepInv, BoardInv, Early
<1>6. BoardInv' /\ StepInv'
  BY <1>1, <1>2, <1>5 DEF BoardInv, StepInv, FileInv, Prefix, Early
<1> QED
  BY <1>3, <1>4, <1>6 DEF IInv

-----------------------------------------------------------------------------
(* The ID and the short transfers.                                         *)

\* pusb did not change its counts, and the endpoint got m or stayed empty.
LEMMA SendType ==
  ASSUME TypeOK, UNCHANGED <<exit, size, filesize, pos, fileLen, resized>>,
         fail' \in BOOLEAN,
         pc' \in {"id", "request", "again", "command", "filesize", "while", "closeup"},
         UNCHANGED <<bus, announced, got>>, rom' \in {rom, "message"},
         NEW m \in Packet, out' \in {out, <<m>>}
  PROVE  TypeOK'
<1>1. rom' \in {"boot", "id", "message", "size", "data", "run"}
  BY DEF TypeOK
<1>2. out' \in {<<>>} \cup {<<k>> : k \in Packet}
  BY DEF TypeOK
<1> QED
  BY <1>1, <1>2 DEF TypeOK

LEMMA IdInvariance ==
  ASSUME IInv, ReadId \/ ReadIdFails
  PROVE  IInv'
<1>1. /\ pc \in {"id", "again"}
      /\ UNCHANGED <<exit, size, filesize, pos, fileLen, resized, bus, out, announced, got>>
      /\ \/ rom = "id" /\ rom' = "message"
         \/ rom' = rom
  BY DEF ReadId, ReadIdFails, IdTaken, countVars, diskVars, romVars
<1>2. \/ pc' = "command" /\ fail' = fail
      \/ pc = "id" /\ pc' = "request" /\ fail' = fail
      \/ pc' = "closeup" /\ fail' = TRUE
  BY DEF ReadId, ReadIdFails
<1>3. TypeOK /\ FileInv /\ BoardInv /\ StepInv /\ fail \in BOOLEAN
  BY DEF IInv, TypeOK
<1>4. TypeOK'
  <2>1. rom' \in {"boot", "id", "message", "size", "data", "run"} /\ fail' \in BOOLEAN
    BY <1>1, <1>2, <1>3 DEF TypeOK
  <2> QED
    BY <1>1, <1>2, <1>3, <2>1 DEF TypeOK
<1>5. FileInv'
  BY <1>1, <1>2, <1>3 DEF FileInv
<1>6. BoardInv'
  BY <1>1, <1>3 DEF BoardInv, Prefix, Size
<1>7. StepInv'
  BY <1>1, <1>2, <1>3 DEF StepInv, FileInv, Early, Size
<1> QED
  BY <1>4, <1>5, <1>6, <1>7 DEF IInv

LEMMA CommandInvariance ==
  ASSUME IInv, RequestId \/ RequestIdFails \/ SendCommand \/ SendCommandFails
  PROVE  IInv'
<1>1. PICK m \in {Message("get"), Message("download")} :
        /\ UNCHANGED <<exit, size, filesize, pos, fileLen, resized, bus, rom, announced, got>>
        /\ \/ out' = out
           \/ out = <<>> /\ out' = <<m>>
        /\ \/ m = Message("get") /\ pc = "request" /\ pc' = "again" /\ fail' = fail
           \/ m = Message("download") /\ pc = "command" /\ pc' = "filesize" /\ fail' = fail
              /\ out' = <<m>>
           \/ pc \in {"request", "command"} /\ pc' = "closeup" /\ fail' = TRUE
  BY DEF RequestId, RequestIdFails, SendCommand, SendCommandFails, Send, SendFails, Put,
         countVars, diskVars, romVars
<1>2. TypeOK /\ FileInv /\ BoardInv /\ StepInv /\ fail \in BOOLEAN
  BY DEF IInv, TypeOK
<1>3. /\ m \in Packet /\ m.type \in {"get", "download"}
      /\ m = Message("get") => m.type = "get"
      /\ m = Message("download") => m.type = "download"
  <2>1. 0 \in 0 .. Len(File)
    BY FileFacts
  <2> QED
    BY <2>1 DEF Message, Packet
<1>4. TypeOK'
  BY <1>1, <1>2, <1>3, SendType
<1>5. FileInv'
  BY <1>1, <1>2 DEF FileInv
<1>6. rom \in Early /\ out' # <<>> => out'[1].type \in {"get", "download"}
  BY <1>1, <1>2, <1>3 DEF BoardInv, Early
<1>7. rom \in Early
  BY <1>1, <1>2 DEF StepInv
<1>8. BoardInv'
  BY <1>1, <1>2, <1>6, <1>7 DEF BoardInv, Prefix, Early
<1>9. StepInv'
  BY <1>1, <1>2, <1>3, <1>7 DEF StepInv, FileInv, Early
<1> QED
  BY <1>4, <1>5, <1>8, <1>9 DEF IInv

LEMMA SizeInvariance ==
  ASSUME IInv, SendSize \/ SendSizeFails
  PROVE  IInv'
<1>1. /\ pc = "filesize"
      /\ UNCHANGED <<exit, size, filesize, pos, fileLen, resized, bus, rom, announced, got>>
      /\ \/ out' = out /\ pc' = "closeup" /\ fail' = TRUE
         \/ out = <<>> /\ out' = <<Size(filesize)>>
            /\ \/ pc' = "while" /\ fail' = fail
               \/ pc' = "closeup" /\ fail' = TRUE
  <2>1. CASE SendSize
    <3> DEFINE m == Size(filesize)
    <3>1. Send("filesize", m, "while")
      BY <2>1 DEF SendSize
    <3> HIDE DEF m
    <3>2. /\ pc = "filesize" /\ pc' = "while" /\ out = <<>> /\ out' = <<m>>
          /\ UNCHANGED <<exit, fail, size, filesize, pos, fileLen, resized, bus, rom, announced, got>>
      BY <3>1 DEF Send, Put, countVars, diskVars
    <3> QED
      BY <3>2 DEF m
  <2>2. CASE SendSizeFails
    BY <2>2 DEF SendSizeFails, SendFails, Put, countVars, diskVars, romVars
  <2> QED
    BY <2>1, <2>2
<1>2. TypeOK /\ FileInv /\ BoardInv /\ StepInv /\ fail \in BOOLEAN
  BY DEF IInv, TypeOK
<1>3. size # -1 /\ pos = 0 /\ filesize = size /\ size \in 0 .. Len(File)
  BY <1>1, <1>2, FileFacts DEF FileInv, TypeOK
<1>4. Size(filesize) \in Packet /\ Size(filesize) = Size(size) /\ Size(size)' = Size(size)
  BY <1>1, <1>3 DEF Size, Packet
<1>5. TypeOK'
  BY <1>1, <1>2, <1>4, SendType
<1>6. FileInv'
  BY <1>1, <1>2 DEF FileInv
<1>7. CASE out' = out
  <2>1. BoardInv'
    BY <1>1, <1>2, <1>7, SameBoard
  <2>2. StepInv'
    BY <1>1, <1>2, <1>7 DEF StepInv, FileInv
  <2> QED
    BY <1>5, <1>6, <2>1, <2>2 DEF IInv
<1>8. CASE out = <<>> /\ out' = <<Size(size)>>
  <2>1. rom = "size"
    BY <1>1, <1>2, <1>8 DEF StepInv
  <2>2. BoardInv'
    BY <1>1, <1>2, <1>3, <1>4, <1>8, <2>1 DEF BoardInv, Prefix
  <2>3. StepInv'
    BY <1>1, <1>2, <1>3, <1>4, <1>8, <2>1 DEF StepInv, FileInv
  <2> QED
    BY <1>5, <1>6, <2>2, <2>3 DEF IInv
<1> QED
  BY <1>1, <1>4, <1>7, <1>8

-----------------------------------------------------------------------------
(* The data.                                                               *)

\* Where the two are while data is sent.
LEMMA WhileFacts ==
  ASSUME IInv, pc = "while"
  PROVE  /\ TypeOK /\ FileInv /\ BoardInv /\ StepInv
         /\ Len(Chunk) \in Nat /\ pos + Len(Chunk) \in 0 .. Len(File)
         /\ pos \in Nat /\ size \in Nat /\ size <= Len(File) /\ Len(File) \in Nat
         /\ got \in Seq(Nat)
         /\ exit = "running" /\ ~fail
         /\ rom = "data" => announced = size /\ Len(got) = pos /\ pos < size
         /\ rom = "run" => announced = size /\ Len(got) = size /\ pos >= size
<1>1. TypeOK /\ FileInv /\ BoardInv /\ StepInv
  BY DEF IInv
<1>2. Len(Chunk) \in Nat /\ pos + Len(Chunk) \in 0 .. Len(File)
  BY <1>1, ChunkFacts
<1>3. size \in Nat /\ size <= Len(File) /\ pos \in Nat /\ Len(File) \in Nat /\ got \in Seq(Nat)
  BY <1>1, FileFacts DEF TypeOK, FileInv
<1>4. exit = "running" /\ ~fail
  BY <1>1 DEF FileInv
<1>5. rom = "data" => announced = size /\ Len(got) = pos /\ pos < size
  BY <1>1 DEF BoardInv, StepInv
<1>6. rom = "run" => announced = size /\ Len(got) = size /\ pos >= size
  BY <1>1 DEF BoardInv, StepInv
<1> QED
  BY <1>1, <1>2, <1>3, <1>4, <1>5, <1>6

\* A transfer, or the part of one that got through, continues the prefix the
\* ROM has, and stops at the size it was told.
LEMMA PartStored ==
  ASSUME IInv, pc = "while", rom = "data", UNCHANGED size,
         NEW n \in 0 .. Len(Chunk), Stored(SubSeq(Chunk, 1, n)),
         out' = <<>> \/ n > size - pos
  PROVE  /\ BoardInv'
         /\ UNCHANGED <<bus, announced>> /\ got' \in Seq(Nat)
         /\ got' # got => \E k \in Len(got) + 1 .. size : got' = Prefix(k)
         /\ \/ rom' = "data" /\ Len(got') = pos + n
            \/ rom' = "run" /\ pos + n >= size
<1>1. /\ TypeOK /\ BoardInv /\ announced = size /\ Len(got) = pos /\ pos < size
      /\ Len(Chunk) \in Nat /\ pos + Len(Chunk) \in 0 .. Len(File)
      /\ pos \in Nat /\ size \in Nat /\ size <= Len(File) /\ Len(File) \in Nat
  BY WhileFacts
<1>2. SubSeq(Chunk, 1, n) = SubSeq(File, pos + 1, pos + n)
  BY <1>1, ChunkFacts
<1>3. n \in Nat /\ pos + n \in 0 .. Len(File)
  BY <1>1
<1>4. PICK k \in 0 .. n :
        /\ k = Lesser(n, announced - pos)
        /\ got' = Prefix(pos + k) /\ got' \in Seq(Nat) /\ Len(got') = pos + k
        /\ pos + k <= announced
        /\ rom' = IF pos + k = announced THEN "run" ELSE "data"
        /\ UNCHANGED <<bus, announced>>
  BY <1>1, <1>2, <1>3, StoredFacts
<1>5. k = IF n < size - pos THEN n ELSE size - pos
  BY <1>1, <1>4 DEF Lesser
<1>6. \/ rom' = "data" /\ Len(got') = pos + n /\ pos + n < size /\ out' = <<>>
      \/ rom' = "run" /\ pos + n >= size /\ Len(got') = size
  BY <1>1, <1>3, <1>4, <1>5
<1>7. BoardInv'
  <2>1. got' = Prefix(Len(got')) /\ announced' = size /\ size # -1
    BY <1>1, <1>4
  <2> QED
    BY <1>6, <2>1 DEF BoardInv, Prefix
<1>8. got' # got => \E j \in Len(got) + 1 .. size : got' = Prefix(j)
  <2>1. got = Prefix(pos)
    BY <1>1 DEF BoardInv
  <2>2. got' # got => k # 0
    BY <1>1, <1>4, <2>1
  <2>3. k # 0 => pos + k \in Len(got) + 1 .. size
    BY <1>1, <1>3, <1>4, <1>5
  <2> QED
    BY <1>4, <2>2, <2>3
<1> QED
  BY <1>4, <1>6, <1>7, <1>8

LEMMA TransferFacts ==
  ASSUME IInv, pc = "while", UNCHANGED size, Transfer(Chunk)
  PROVE  /\ BoardInv'
         /\ UNCHANGED <<bus, announced>> /\ got' \in Seq(Nat)
         /\ out' \in {<<>>, <<Message("surplus")>>}
         /\ got' # got => \E k \in Len(got) + 1 .. size : got' = Prefix(k)
         /\ \/ rom' = "data" /\ Len(got') = pos + Len(Chunk)
            \/ rom' = "run" /\ pos + Len(Chunk) >= size
<1>1. /\ TypeOK /\ BoardInv /\ Len(Chunk) \in Nat
      /\ pos \in Nat /\ size \in Nat /\ got \in Seq(Nat)
      /\ rom = "data" => announced = size /\ Len(got) = pos
      /\ rom = "run" => announced = size /\ Len(got) = size /\ pos >= size
  BY WhileFacts
<1>2. out' = IF rom = "data" /\ Len(Chunk) <= announced - Len(got) THEN <<>> ELSE <<Message("surplus")>>
  BY DEF Transfer
<1>3. CASE rom = "data" /\ Stored(Chunk)
  <2>1. Chunk = SubSeq(Chunk, 1, Len(Chunk))
    <3>1. Len(Chunk) \in 0 .. Len(Chunk)
      BY <1>1
    <3> QED
      BY <1>1, <3>1, ChunkFacts
  <2>2. Stored(SubSeq(Chunk, 1, Len(Chunk)))
    BY <1>3, <2>1
  <2>3. out' = <<>> \/ Len(Chunk) > size - pos
    BY <1>1, <1>2, <1>3
  <2>4. Len(Chunk) \in 0 .. Len(Chunk)
    BY <1>1
  <2>5. /\ BoardInv'
        /\ UNCHANGED <<bus, announced>> /\ got' \in Seq(Nat)
        /\ got' # got => \E k \in Len(got) + 1 .. size : got' = Prefix(k)
        /\ \/ rom' = "data" /\ Len(got') = pos + Len(Chunk)
           \/ rom' = "run" /\ pos + Len(Chunk) >= size
    BY <1>3, <2>2, <2>3, <2>4, PartStored
  <2> QED
    BY <1>2, <2>5
<1>4. CASE rom = "run" /\ UNCHANGED <<bus, rom, announced, got>>
  <2>1. BoardInv'
    BY <1>1, <1>4 DEF BoardInv, Prefix
  <2>2. pos + Len(Chunk) >= size
    BY <1>1, <1>4
  <2> QED
    BY <1>1, <1>2, <1>4, <2>1, <2>2
<1> QED
  BY <1>3, <1>4 DEF Transfer

LEMMA TransferFailsFacts ==
  ASSUME IInv, pc = "while", UNCHANGED size, TransferFails(Chunk)
  PROVE  /\ BoardInv'
         /\ UNCHANGED <<bus, out, announced>> /\ got' \in Seq(Nat)
         /\ rom' \in {rom, "data", "run"}
         /\ got' # got => \E k \in Len(got) + 1 .. size : got' = Prefix(k)
<1>1. CASE UNCHANGED romVars
  <2>1. UNCHANGED <<bus, rom, out, announced, got>> /\ got \in Seq(Nat) /\ BoardInv
    BY <1>1, WhileFacts DEF romVars
  <2> QED
    BY <2>1, SameBoard
<1>2. CASE out = <<>> /\ rom = "data" /\ (\E n \in 0 .. Len(Chunk) : Stored(SubSeq(Chunk, 1, n)))
           /\ UNCHANGED out
  <2>1. PICK n \in 0 .. Len(Chunk) : Stored(SubSeq(Chunk, 1, n))
    BY <1>2
  <2>2. /\ BoardInv'
        /\ UNCHANGED <<bus, announced>> /\ got' \in Seq(Nat)
        /\ got' # got => \E k \in Len(got) + 1 .. size : got' = Prefix(k)
        /\ \/ rom' = "data" /\ Len(got') = pos + n
           \/ rom' = "run" /\ pos + n >= size
    BY <1>2, <2>1, PartStored
  <2> QED
    BY <1>2, <2>2
<1> QED
  BY <1>1, <1>2 DEF TransferFails

LEMMA ChunkInvariance ==
  ASSUME IInv, SendChunk
  PROVE  IInv'
<1>1. /\ pc = "while" /\ filesize # 0 /\ Transfer(Chunk) /\ pos' = pos + Len(Chunk)
      /\ filesize' = (filesize - Len(Chunk)) % WORD
      /\ UNCHANGED <<pc, exit, fail, size, fileLen, resized>>
  BY DEF SendChunk, mainVars, diskVars
<1>2. /\ TypeOK /\ FileInv /\ BoardInv /\ StepInv
      /\ Len(Chunk) \in Nat /\ pos + Len(Chunk) \in 0 .. Len(File)
      /\ pos \in Nat /\ size \in Nat /\ size <= Len(File) /\ Len(File) \in Nat
      /\ Len(File) < WORD /\ WORD \in Nat
      /\ exit = "running" /\ ~fail
  BY <1>1, WhileFacts, FileFacts
<1>3. /\ BoardInv'
      /\ UNCHANGED <<bus, announced>> /\ got' \in Seq(Nat)
      /\ out' \in {<<>>, <<Message("surplus")>>}
      /\ \/ rom' = "data" /\ Len(got') = pos'
         \/ rom' = "run" /\ pos' >= size
  BY <1>1, TransferFacts
<1>4. filesize' = IF pos' <= size THEN size - pos' ELSE size - pos' + WORD
  <2>1. filesize = IF pos <= size THEN size - pos ELSE size - pos + WORD
    BY <1>1, <1>2 DEF FileInv
  <2>2. filesize - Len(Chunk) \in -WORD .. WORD - 1
    BY <1>2, <2>1
  <2>3. filesize' = IF filesize - Len(Chunk) >= 0 THEN filesize - Len(Chunk)
                    ELSE filesize - Len(Chunk) + WORD
    BY <1>1, <2>2, WrapAround
  <2>4. CASE pos <= size
    BY <1>1, <1>2, <2>1, <2>3, <2>4
  <2>5. CASE pos > size
    <3>1. filesize - Len(Chunk) = size - pos' + WORD /\ pos' > size /\ pos' <= Len(File)
      BY <1>1, <1>2, <2>1, <2>5
    <3>2. size - pos' + WORD >= 0 /\ ~(pos' <= size)
      BY <1>1, <1>2, <3>1
    <3> QED
      BY <2>3, <3>1, <3>2
  <2> QED
    BY <1>2, <2>4, <2>5
<1>5. TypeOK'
  <2>1. filesize' \in 0 .. WORD - 1 /\ pos' \in 0 .. Len(File)
    BY <1>1, <1>2, <1>4
  <2>2. Message("surplus") \in Packet
    BY <1>2 DEF Message, Packet
  <2>3. out' \in {<<>>} \cup {<<m>> : m \in Packet}
    BY <1>3, <2>2
  <2>4. rom' \in {"boot", "id", "message", "size", "data", "run"}
    BY <1>3
  <2> HIDE DEF Packet
  <2> QED
    BY <1>1, <1>2, <1>3, <2>1, <2>3, <2>4 DEF TypeOK
<1>6. FileInv'
  BY <1>1, <1>2, <1>4 DEF FileInv
<1>7. StepInv'
  BY <1>1, <1>2, <1>3 DEF StepInv
<1> QED
  BY <1>3, <1>5, <1>6, <1>7 DEF IInv

LEMMA ChunkFailsInvariance ==
  ASSUME IInv, SendChunkFails
  PROVE  IInv'
<1>1. /\ pc = "while" /\ TransferFails(Chunk) /\ pos' = pos + Len(Chunk)
      /\ fail' = TRUE /\ pc' = "closeup"
      /\ UNCHANGED <<exit, size, filesize, fileLen, resized>>
  BY DEF SendChunkFails, diskVars
<1>2. /\ TypeOK /\ FileInv
      /\ pos + Len(Chunk) \in 0 .. Len(File) /\ size # -1 /\ exit = "running"
  BY <1>1, WhileFacts
<1>3. /\ BoardInv'
      /\ UNCHANGED <<bus, out, announced>> /\ got' \in Seq(Nat) /\ rom' \in {rom, "data", "run"}
  BY <1>1, TransferFailsFacts
<1>4. TypeOK'
  <2>1. rom' \in {"boot", "id", "message", "size", "data", "run"}
    BY <1>2, <1>3 DEF TypeOK
  <2> QED
    BY <1>1, <1>2, <1>3, <2>1 DEF TypeOK
<1>5. FileInv' /\ StepInv'
  BY <1>1, <1>2 DEF FileInv, StepInv
<1> QED
  BY <1>3, <1>4, <1>5 DEF IInv

-----------------------------------------------------------------------------
(* The board and the file's other users.                                   *)

LEMMA BusInvariance ==
  ASSUME IInv, Connect \/ Disconnect \/ RomBoots
  PROVE  IInv'
<1>1. /\ UNCHANGED <<pc, exit, fail, size, filesize, pos, fileLen, resized, out, announced, got>>
      /\ bus' \in {bus, "present", "gone"}
      /\ \/ rom' = rom
         \/ rom = "boot" /\ rom' = "id"
  BY DEF Connect, Disconnect, RomBoots, mainVars, countVars, diskVars
<1>2. TypeOK /\ FileInv /\ BoardInv /\ StepInv
  BY DEF IInv
<1>3. TypeOK'
  BY <1>1, <1>2 DEF TypeOK
<1>4. FileInv'
  BY <1>1, <1>2 DEF FileInv
<1>5. BoardInv' /\ StepInv'
  BY <1>1, <1>2 DEF BoardInv, StepInv, Prefix, Size, Early
<1> QED
  BY <1>3, <1>4, <1>5 DEF IInv

LEMMA TakesMessageInvariance ==
  ASSUME IInv, RomTakesMessage
  PROVE  IInv'
<1>1. /\ UNCHANGED <<pc, exit, fail, size, filesize, pos, fileLen, resized, bus, announced, got>>
      /\ rom = "message" /\ out # <<>> /\ out' = <<>>
      /\ rom' = IF out[1].type = "get" THEN "id" ELSE "size"
  BY DEF RomTakesMessage, mainVars, countVars, diskVars
<1>2. TypeOK /\ FileInv /\ BoardInv /\ StepInv
  BY DEF IInv
<1>3. TypeOK'
  BY <1>1, <1>2 DEF TypeOK
<1>4. FileInv'
  BY <1>1, <1>2 DEF FileInv
<1>5. BoardInv'
  BY <1>1, <1>2 DEF BoardInv, Prefix
<1>6. pc \in {"again", "command"} => rom' = "id"
  BY <1>1, <1>2 DEF StepInv
<1>7. pc \notin {"check", "wait", "configure", "size", "claim", "id", "request", "while"}
  BY <1>1, <1>2 DEF StepInv
<1>8. StepInv'
  BY <1>1, <1>2, <1>6, <1>7 DEF StepInv, Early
<1> QED
  BY <1>3, <1>4, <1>5, <1>8 DEF IInv

LEMMA TakesSizeInvariance ==
  ASSUME IInv, RomTakesSize
  PROVE  IInv'
<1>1. /\ UNCHANGED <<pc, exit, fail, size, filesize, pos, fileLen, resized, bus, got>>
      /\ rom = "size" /\ out # <<>> /\ out' = <<>>
      /\ announced' = out[1].n
      /\ rom' = IF out[1].n = 0 THEN "run" ELSE "data"
  BY DEF RomTakesSize, mainVars, countVars, diskVars
<1>2. TypeOK /\ FileInv /\ BoardInv /\ StepInv /\ size \in -1 .. Len(File)
  BY DEF IInv, TypeOK
<1>3. out[1].n = size /\ size # -1
  BY <1>1, <1>2 DEF BoardInv, Size
<1>4. size \in 0 .. Len(File) /\ size \in -1 .. Len(File)
  BY <1>2, <1>3, FileFacts
<1>5. got = <<>>
  BY <1>1, <1>2 DEF BoardInv
<1>6. TypeOK'
  BY <1>1, <1>2, <1>3, <1>4 DEF TypeOK
<1>7. FileInv'
  BY <1>1, <1>2 DEF FileInv
<1>8. Prefix(0)' = Prefix(0)
  BY DEF Prefix
<1>9. BoardInv'
  BY <1>1, <1>3, <1>4, <1>5, <1>8, FileFacts DEF BoardInv
<1>10. StepInv'
  BY <1>1, <1>2, <1>3, <1>4, <1>5, FileFacts DEF StepInv, Early
<1> QED
  BY <1>6, <1>7, <1>9, <1>10 DEF IInv

LEMMA ResizeInvariance ==
  ASSUME IInv, Resize
  PROVE  IInv'
<1>1. /\ UNCHANGED <<pc, exit, fail, size, filesize, pos, bus, rom, out, announced, got>>
      /\ fileLen' \in 0 .. Len(File) /\ resized' = TRUE
  BY DEF Resize, mainVars, countVars, romVars
<1>2. TypeOK /\ FileInv /\ BoardInv /\ StepInv
  BY DEF IInv
<1>3. TypeOK'
  BY <1>1, <1>2 DEF TypeOK
<1>4. FileInv' /\ StepInv'
  BY <1>1, <1>2 DEF FileInv, StepInv, Size
<1>5. BoardInv'
  BY <1>1, <1>2, SameBoard
<1> QED
  BY <1>3, <1>4, <1>5 DEF IInv

-----------------------------------------------------------------------------
(* The theorems.                                                           *)

LEMMA StutterInvariance ==
  ASSUME IInv, UNCHANGED vars
  PROVE  IInv'
<1>1. UNCHANGED <<pc, exit, fail, size, filesize, pos, fileLen, resized, bus, rom, out,
                  announced, got>>
  BY DEF vars, mainVars, countVars, diskVars, romVars
<1>2. TypeOK /\ FileInv /\ BoardInv /\ StepInv
  BY DEF IInv
<1>3. TypeOK' /\ FileInv' /\ StepInv'
  BY <1>1, <1>2 DEF TypeOK, FileInv, StepInv, Size
<1>4. BoardInv'
  BY <1>1, <1>2, SameBoard
<1> QED
  BY <1>3, <1>4 DEF IInv

LEMMA StepInvariance == IInv /\ [Next]_vars => IInv'
<1> SUFFICES ASSUME IInv, [Next]_vars PROVE IInv'
  OBVIOUS
<1>1. CASE ToolStep \/ ToolFails
  <2>1. CASE SendNothing
    BY <2>1, StutterInvariance DEF SendNothing
  <2> QED
    BY <1>1, <2>1, MainInvariance, OpenFileInvariance, IdInvariance, CommandInvariance,
       SizeInvariance, ChunkInvariance, ChunkFailsInvariance DEF ToolStep, ToolFails
<1>2. CASE Environment
  BY <1>2, BusInvariance, TakesMessageInvariance, TakesSizeInvariance, ResizeInvariance
     DEF Environment
<1>3. CASE Over \/ UNCHANGED vars
  BY <1>3, StutterInvariance DEF Over
<1> QED
  BY <1>1, <1>2, <1>3 DEF Next

(* The inductive invariant holds of pusb, whatever the file, the buffer    *)
(* and the width of the counter.                                           *)
THEOREM Invariance == Spec => []IInv
<1> QED
  BY InitInvariant, StepInvariance, PTL DEF Spec

(* The variables keep their types; the counter never leaves its width.     *)
THEOREM TypeCorrect == Spec => []TypeOK
<1>1. IInv => TypeOK
  BY DEF IInv
<1> QED
  BY <1>1, Invariance, PTL

\* Once the ROM runs what it was sent, it has it all. An empty file leaves
\* nothing to run.
LEMMA WholeWhenSent ==
  ASSUME TypeOK, BoardInv, size \in Nat, size > 0 => rom = "run"
  PROVE  got = Prefix(size) /\ (size > 0 => announced = size /\ rom = "run")
<1>1. TypeOK /\ BoardInv /\ size \in Nat
  OBVIOUS
<1>2. rom = "run" => announced = size /\ got = Prefix(size)
  BY <1>1 DEF BoardInv
<1>3. CASE size > 0
  BY <1>1, <1>2, <1>3
<1>4. CASE size = 0
  <2>1. announced \in -1 .. Len(File) /\ (announced # -1 => announced = 0)
    BY <1>1, <1>4 DEF TypeOK, BoardInv
  <2>2. got = <<>>
    <3>1. CASE announced = -1
      BY <1>1, <3>1 DEF BoardInv
    <3>2. CASE announced = 0
      <4>1. rom = "run"
        BY <1>1, <3>2 DEF BoardInv, TypeOK
      <4> QED
        BY <1>2, <1>4, <4>1, FileFacts
    <3> QED
      BY <2>1, <3>1, <3>2
  <2> QED
    BY <1>4, <2>2, FileFacts
<1> QED
  BY <1>1, <1>3, <1>4

(* pusb returns 0 only when the board holds the file it was told of.       *)
THEOREM SuccessWhole == Spec => []SuccessMeansWhole
<1>1. IInv => SuccessMeansWhole
  <2> SUFFICES ASSUME IInv, exit = "ok"
      PROVE  got = Prefix(size) /\ (size > 0 => announced = size /\ rom = "run")
    BY DEF SuccessMeansWhole
  <2>1. TypeOK /\ BoardInv /\ size \in Nat /\ (size > 0 => rom = "run")
    BY FileFacts DEF IInv, TypeOK, StepInv
  <2> QED
    BY <2>1, WholeWhenSent
<1> QED
  BY <1>1, Invariance, PTL

(* The board is never told of, and never stores, more than MAX_SIZE.       *)
THEOREM LimitKept == Spec => []NeverTooMuch
<1>1. IInv => NeverTooMuch
  <2> SUFFICES ASSUME IInv PROVE NeverTooMuch
    OBVIOUS
  <2>1. /\ TypeOK /\ BoardInv /\ size <= MAX_SIZE /\ MAX_SIZE \in Nat
        /\ size \in Int /\ announced \in Int /\ got \in Seq(Nat)
        /\ rom \in {"boot", "id", "message", "size", "data", "run"}
    BY FileFacts DEF IInv, TypeOK, FileInv
  <2>2. announced <= MAX_SIZE
    BY <2>1 DEF BoardInv
  <2>3. Len(got) <= MAX_SIZE
    <3>1. CASE announced = -1
      BY <2>1, <3>1, FileFacts DEF BoardInv
    <3>2. CASE announced # -1
      BY <2>1, <2>2, <3>2 DEF BoardInv
    <3> QED
      BY <3>1, <3>2
  <2> QED
    BY <2>2, <2>3 DEF NeverTooMuch
<1> QED
  BY <1>1, Invariance, PTL

\* Every step of pusb and its board is a step of FileTransfer, or none.
LEMMA DownloadStep ==
  ASSUME IInv, [Next]_vars
  PROVE  [Download!Next]_Download!vars
<1> USE DEF Download!vars
<1>1. TypeOK /\ FileInv /\ BoardInv /\ StepInv
  BY DEF IInv
<1>2. CASE OpenFile
  <2>1. /\ UNCHANGED <<got, exit>> /\ size' = fileLen /\ size = -1 /\ exit = "running"
    BY <1>1, <1>2 DEF OpenFile, romVars, FileInv
  <2>2. fileLen \in 0 .. Len(File)
    BY <1>1 DEF TypeOK
  <2> QED
    BY <2>1, <2>2 DEF Download!Next, Download!Announce, Download!Unknown
<1>3. CASE FailsEarly \/ CloseUpFails
  <2>1. UNCHANGED <<got, size>> /\ exit = "running" /\ exit' = "failed"
    BY <1>1, <1>3 DEF FailsEarly, CloseUpFails, Return, countVars, romVars, FileInv
  <2> QED
    BY <2>1 DEF Download!Next, Download!Fail
<1>4. CASE CloseUp
  <2>1. /\ UNCHANGED <<got, size>> /\ exit = "running" /\ exit' = IF fail THEN "failed" ELSE "ok"
        /\ size # -1
    BY <1>1, <1>4 DEF CloseUp, Return, countVars, romVars, FileInv
  <2>2. CASE fail
    BY <2>1, <2>2 DEF Download!Next, Download!Fail
  <2>3. CASE ~fail
    <3>1. pos = size /\ (size > 0 => rom = "run") /\ size \in Nat
      BY <1>1, <1>4, <2>1, <2>3, FileFacts DEF CloseUp, StepInv, TypeOK
    <3>2. got = SubSeq(File, 1, size)
      BY <1>1, <3>1, WholeWhenSent DEF Prefix
    <3> QED
      BY <2>1, <2>3, <3>2 DEF Download!Next, Download!Succeed, Download!Unknown, Download!Prefix
  <2> QED
    BY <2>2, <2>3
<1>5. CASE SendChunk \/ SendChunkFails
  <2>1. /\ pc = "while" /\ UNCHANGED <<size, exit>>
        /\ Transfer(Chunk) \/ TransferFails(Chunk)
    BY <1>5 DEF SendChunk, SendChunkFails, mainVars
  <2>2. got' # got => \E k \in Len(got) + 1 .. size : got' = Prefix(k)
    BY <2>1, TransferFacts, TransferFailsFacts
  <2>3. exit # "ok"
    BY <2>1, WhileFacts
  <2> QED
    BY <2>1, <2>2, <2>3 DEF Download!Next, Download!Deliver, Download!Prefix, Prefix
<1>6. CASE \/ CheckFile \/ OpenDevice \/ configure_device \/ ClaimInterface \/ ReadId
           \/ RequestId \/ SendCommand \/ SendSize \/ SendNothing \/ AllSent
           \/ ReadIdFails \/ RequestIdFails \/ SendCommandFails \/ SendSizeFails
  <2>1. UNCHANGED <<size, got, exit>>
    BY <1>6 DEF CheckFile, OpenDevice, configure_device, ClaimInterface, ReadId, IdTaken,
                RequestId, SendCommand, SendSize, SendNothing, AllSent, ReadIdFails,
                RequestIdFails, SendCommandFails, SendSizeFails, Send, SendFails, Put,
                vars, mainVars, countVars, romVars
  <2> QED
    BY <2>1
<1>7. CASE Environment
  BY <1>7 DEF Environment, Connect, Disconnect, RomBoots, RomTakesMessage, RomTakesSize,
              Resize, mainVars, countVars, romVars
<1>8. CASE Over \/ UNCHANGED vars
  BY <1>8 DEF Over, vars, mainVars, countVars, romVars
<1> QED
  BY <1>2, <1>3, <1>4, <1>5, <1>6, <1>7, <1>8 DEF Next, ToolStep, ToolFails

(* pusb keeps the promise of FileTransfer: the board only ever grows from  *)
(* one prefix of the file to a longer one, and success is reported only    *)
(* when it holds everything that was announced.                            *)
THEOREM PUsbImplementsTransfer == Spec => ImplementsTransfer
<1>1. Init => Download!Init
  BY DEF Init, Download!Init, Download!Unknown
<1>2. IInv /\ [Next]_vars => [Download!Next]_Download!vars
  BY DownloadStep
<1> QED
  BY <1>1, <1>2, Invariance, PTL DEF Spec, ImplementsTransfer, Download!Spec
=============================================================================
