--------------------------- MODULE PSerialProofs ---------------------------
(***************************************************************************)
(* What holds of pserial for every file, ID and fault budget: proofs about *)
(* module PSerial.                                                         *)
(***************************************************************************)
EXTENDS PSerial, SequenceTheorems, TLAPS

Bytes == [at : Int, chip : {"4430", "3430", "3630", "unknown"}]

-----------------------------------------------------------------------------
\* A part of a sequence is a sequence over the same set.
LEMMA PartOfSeq ==
  ASSUME NEW S, NEW s \in Seq(S), NEW a \in Nat \ {0}, NEW b \in 0 .. Len(s)
  PROVE  /\ SubSeq(s, a, b) \in Seq(S)
         /\ Len(SubSeq(s, a, b)) = IF a <= b THEN b - a + 1 ELSE 0
         /\ \A i \in 1 .. Len(SubSeq(s, a, b)) : SubSeq(s, a, b)[i] = s[a + i - 1]
OBVIOUS

-----------------------------------------------------------------------------
(* Pieces of the actions.                                                  *)

\* Faults are counted and never forgotten.
LEMMA FaultFacts ==
  ASSUME TypeOK, (\E k \in FaultKind : Strikes(k)) \/ UNCHANGED faults
  PROVE  /\ faults' \in [FaultKind -> Nat]
         /\ \A k \in FaultKind : faults[k] \in Nat /\ faults'[k] \in Nat /\ faults'[k] >= faults[k]
<1>1. CASE UNCHANGED faults
  BY <1>1 DEF TypeOK
<1>2. CASE \E k \in FaultKind : Strikes(k)
  <2>1. PICK k \in FaultKind : Strikes(k)
    BY <1>2
  <2>2. faults \in [FaultKind -> Nat] /\ faults' = [faults EXCEPT ![k] = @ + 1]
    BY <2>1 DEF TypeOK, Strikes
  <2> QED
    BY <2>2
<1> QED
  BY <1>1, <1>2

LEMMA StrikesFacts ==
  ASSUME TypeOK, NEW k \in FaultKind, Strikes(k)
  PROVE  /\ faults' \in [FaultKind -> Nat]
         /\ \A j \in FaultKind : faults'[j] = IF j = k THEN faults[j] + 1 ELSE faults[j]
BY DEF TypeOK, Strikes

\* A read takes bytes off the line.
LEMMA ReadFacts ==
  ASSUME TypeOK, NEW n \in Nat, n <= Len(line), line' = SubSeq(line, n + 1, Len(line))
  PROVE  line' \in Seq(Bytes) /\ Len(line') = Len(line) - n /\ Len(line) \in Nat
<1>1. line \in Seq(Bytes) /\ Len(line) \in Nat
  BY DEF TypeOK, Bytes
<1> QED
  BY <1>1

LEMMA ArrivesFacts ==
  ASSUME TypeOK, NEW n \in Nat, NEW want \in Nat, Read(n, want)
  PROVE  /\ n <= Len(line) /\ line' = SubSeq(line, n + 1, Len(line))
         /\ (\E k \in FaultKind : Strikes(k)) \/ UNCHANGED faults
         /\ n = 0 /\ n # want => hung
<1>1. Len(line) \in Nat
  BY DEF TypeOK
<1>2. Arrives(n, want) /\ line' = SubSeq(line, n + 1, Len(line))
  BY DEF Read
<1>3. /\ n <= Len(line)
      /\ Strikes("gap") \/ UNCHANGED faults
      /\ n = 0 /\ n # want => hung
  BY <1>1, <1>2 DEF Arrives
<1>4. "gap" \in FaultKind
  BY DEF FaultKind
<1> QED
  BY <1>2, <1>3, <1>4, Zenon

\* A prefix of the file and what f_read yields behind it.
LEMMA ChunkFacts ==
  ASSUME TypeOK, NEW k \in Nat
  PROVE  /\ Chunk(k) \in Seq(Nat)
         /\ Len(Chunk(k)) \in Nat /\ Len(Chunk(k)) <= k
         /\ tot_read + Len(Chunk(k)) \in 0 .. Len(File)
         /\ Prefix(tot_read) \o Chunk(k) = Prefix(tot_read + Len(Chunk(k)))
<1> DEFINE left == IF tot_read < fileLen THEN fileLen - tot_read ELSE 0
           n == Lesser(k, left)
<1>1. /\ File \in Seq(Nat) /\ Len(File) \in Nat
      /\ tot_read \in 0 .. Len(File) /\ fileLen \in 0 .. Len(File)
  BY PSerialAssumption DEF TypeOK
<1>2. n \in Nat /\ n <= k /\ tot_read + n <= Len(File)
  BY <1>1 DEF Lesser
<1>3. Chunk(k) = SubSeq(File, tot_read + 1, tot_read + n)
  BY DEF Chunk
<1> HIDE DEF n
<1>4. Chunk(k) \in Seq(Nat) /\ Len(Chunk(k)) = n
  <2>1. tot_read + 1 \in Nat \ {0} /\ tot_read + n \in 0 .. Len(File)
    BY <1>1, <1>2
  <2> QED
    BY <1>1, <1>2, <1>3, <2>1, PartOfSeq
<1>5. Prefix(tot_read) \o Chunk(k) = Prefix(tot_read + n)
  <2>1. n \in 0 .. Len(File) - tot_read
    BY <1>1, <1>2
  <2> QED
    BY <1>1, <1>3, <2>1, ConcatAdjacentSubSeq DEF Prefix
<1> QED
  BY <1>1, <1>2, <1>4, <1>5

-----------------------------------------------------------------------------
(* The initial state.                                                      *)

LEMMA InitInvariant == Init => IInv
<1> SUFFICES ASSUME Init PROVE IInv
  OBVIOUS
<1>1. PICK n \in 0 .. MaxFaults["noise"] :
        /\ line \in [1 .. n -> {Stray, Token(0, "unknown")}]
        /\ faults = [k \in FaultKind |-> IF k = "noise" THEN n ELSE 0]
  BY DEF Init
<1>2. n \in Nat /\ n <= MaxFaults["noise"] /\ MaxFaults["noise"] \in Nat
  BY PSerialAssumption DEF FaultKind
<1>3. Stray \in Bytes /\ Token(0, "unknown") \in Bytes
  BY DEF Stray, Token, Bytes
<1>4. line \in Seq(Bytes) /\ Len(line) = n
  BY <1>1, <1>2, <1>3
<1>5. faults \in [FaultKind -> Nat]
  BY <1>1, <1>2
<1>6. File \in Seq(Nat) /\ Len(File) \in Nat
  BY PSerialAssumption
<1>11. /\ pc = "open" /\ exit = "running" /\ buff0 = "unset" /\ read_size = 0
       /\ size = -1 /\ tot_read = 0 /\ fileLen = Len(File)
       /\ hung = FALSE /\ rom = "power" /\ announced = -1 /\ got = <<>>
  BY DEF Init
<1>12. <<>> \in Seq(Nat) /\ -1 \in -1 .. Len(File) /\ 0 \in 0 .. Len(File) /\ Len(File) \in 0 .. Len(File)
  BY <1>6
<1>7. TypeOK
  BY <1>4, <1>5, <1>11, <1>12 DEF TypeOK, Bytes
<1>8. PowerInv /\ FileInv /\ StepInv
  BY <1>2, <1>4 DEF Init, PowerInv, FileInv, StepInv
<1>9. Prefix(0) = <<>> /\ Len(<<>>) = 0
  BY <1>6 DEF Prefix
<1>10. BoardInv
  BY <1>9 DEF Init, BoardInv
<1> QED
  BY <1>7, <1>8, <1>10 DEF IInv

-----------------------------------------------------------------------------
(* Steps that leave the file and the board alone.                          *)

BeforeCommand == {"open", "marker", "id", "rest", "command"}

\* Nothing but pc, exit, the read buffer, the line and the fault count change.
LEMMA QuietStep ==
  ASSUME IInv,
         UNCHANGED <<fileVars, hung, romVars>>,
         (\E k \in FaultKind : Strikes(k)) \/ UNCHANGED faults,
         line' \in Seq(Bytes),
         buff0' \in {"unset", "other"},
         read_size' \in {0, REST_4430, REST_OTHER},
         \/ pc' = "exited" /\ exit' \in {"ok", "failed"}
         \/ exit' = exit /\ pc' # "exited" /\ pc # "exited",
         \/ pc' \in {pc, "close", "exited"}
         \/ pc' \in BeforeCommand /\ pc \in BeforeCommand,
         pc' = "close" => pc \in {"announce", "while"},
         PowerInv',
         Clean' /\ (pc' = "close" \/ exit' = "ok") => Whole
  PROVE  IInv'
<1>1. /\ faults \in [FaultKind -> Nat] /\ faults' \in [FaultKind -> Nat]
      /\ \A k \in FaultKind : faults[k] \in Nat /\ faults'[k] \in Nat /\ faults'[k] >= faults[k]
  BY FaultFacts DEF IInv, TypeOK
<1>2. /\ size' = size /\ tot_read' = tot_read /\ fileLen' = fileLen /\ hung' = hung
      /\ rom' = rom /\ announced' = announced /\ got' = got
  BY DEF fileVars, romVars
<1>3. TypeOK'
  BY <1>1, <1>2 DEF IInv, TypeOK, Bytes, BeforeCommand
<1>4. FileInv'
  BY <1>2 DEF IInv, FileInv, BeforeCommand
<1>5. faults'["write"] = 0 => faults["write"] = 0
  BY <1>1 DEF FaultKind
<1>6. BoardInv'
  <2>1. BoardInv /\ FileInv /\ size \in Int
    BY DEF IInv, TypeOK
  <2>2. rom = "data" => pc' \in {"while", "close", "exited"}
    BY <2>1 DEF BoardInv, BeforeCommand
  <2> QED
    BY <1>2, <1>5, <2>1, <2>2 DEF BoardInv, FileInv, Prefix
<1>7. Clean' => Clean
  BY <1>1 DEF Clean, FaultKind
<1>8. hung' => faults'["hangup"] > 0
  BY <1>1, <1>2 DEF IInv, StepInv, FaultKind
<1>9. Whole' <=> Whole
  BY <1>2 DEF Whole, Prefix
<1>10. StepInv'
  BY <1>2, <1>7, <1>8, <1>9 DEF IInv, TypeOK, StepInv, BeforeCommand
<1> QED
  BY <1>3, <1>4, <1>6, <1>10 DEF IInv

LEMMA QuietInvariance ==
  ASSUME IInv,
         \/ OpenPort \/ ReadMarker \/ ReadId \/ ReadRest \/ ReadShort
         \/ EndOfFile \/ ClosePort
         \/ OpenPortFails \/ ReadMarkerFails \/ ReadFails \/ ClosePortFails
  PROVE  IInv'
<1>1. /\ TypeOK /\ PowerInv /\ StepInv
      /\ line \in Seq(Bytes) /\ Len(line) \in Nat
      /\ buff0 \in {"unset", "other"} /\ read_size \in {0, REST_4430, REST_OTHER}
  BY DEF IInv, TypeOK, Bytes
<1>2. /\ ASIC_ID_SIZE \in Nat /\ REST_4430 \in Nat /\ REST_OTHER \in 1 .. REST_4430
      /\ MaxFaults["noise"] \in Nat /\ MaxFaults["noise"] < ASIC_ID_SIZE + REST_OTHER
  BY PSerialAssumption DEF FaultKind
<1>3. CASE OpenPort
  <2>1. PICK n \in 0 .. Len(line) : line' = SubSeq(line, n + 1, Len(line))
    BY <1>3 DEF OpenPort
  <2>2. line' \in Seq(Bytes) /\ Len(line') = Len(line) - n
    BY <1>1, <2>1, ReadFacts
  <2>3. PowerInv'
    BY <1>1, <1>2, <1>3, <2>2 DEF OpenPort, PowerInv, romVars
  <2> QED
    BY <1>1, <1>3, <2>2, <2>3, QuietStep DEF OpenPort, BeforeCommand, StepInv
<1>4. CASE ReadMarker
  <2>1. line' = SubSeq(line, 1 + 1, Len(line)) /\ 1 <= Len(line) /\ 1 \in Nat
    BY <1>1, <1>4 DEF ReadMarker
  <2>2. line' \in Seq(Bytes) /\ Len(line') = Len(line) - 1
    BY <1>1, <2>1, ReadFacts
  <2>3. PowerInv'
    BY <1>1, <1>2, <1>4, <2>2 DEF ReadMarker, PowerInv, romVars
  <2> QED
    BY <1>1, <1>4, <2>2, <2>3, QuietStep DEF ReadMarker, BeforeCommand, StepInv
<1>5. CASE ReadId
  <2>1. /\ line' = SubSeq(line, ASIC_ID_SIZE + 1, Len(line)) /\ ASIC_ID_SIZE <= Len(line)
        /\ (\E k \in FaultKind : Strikes(k)) \/ UNCHANGED faults
    BY <1>1, <1>2, <1>5, ArrivesFacts DEF ReadId
  <2>2. line' \in Seq(Bytes) /\ Len(line') = Len(line) - ASIC_ID_SIZE
    BY <1>1, <1>2, <2>1, ReadFacts
  <2>3. read_size' \in {REST_4430, REST_OTHER}
    BY <1>5 DEF ReadId, Rest
  <2>4. PowerInv'
    BY <1>1, <1>2, <1>5, <2>2, <2>3 DEF ReadId, PowerInv, romVars
  <2> QED
    BY <1>1, <1>5, <2>1, <2>2, <2>3, <2>4, QuietStep DEF ReadId, BeforeCommand, StepInv
<1>6. CASE ReadRest
  <2>1. read_size \in Nat /\ read_size >= REST_OTHER
    BY <1>1, <1>2, <1>6 DEF ReadRest, PowerInv
  <2>2. /\ line' = SubSeq(line, read_size + 1, Len(line)) /\ read_size <= Len(line)
        /\ (\E k \in FaultKind : Strikes(k)) \/ UNCHANGED faults
    BY <1>1, <1>6, <2>1, ArrivesFacts DEF ReadRest
  <2>3. line' \in Seq(Bytes)
    BY <1>1, <2>1, <2>2, ReadFacts
  <2>4. rom # "power"
    BY <1>1, <1>2, <1>6, <2>1, <2>2 DEF ReadRest, PowerInv
  <2>5. PowerInv'
    BY <1>6, <2>4 DEF ReadRest, PowerInv, romVars
  <2> QED
    BY <1>1, <1>6, <2>2, <2>3, <2>5, QuietStep DEF ReadRest, BeforeCommand, StepInv
<1>7. CASE ReadShort
  <2>1. Wanted \in Nat
    BY <1>1, <1>2 DEF Wanted
  <2>2. PICK n \in 0 .. Wanted - 1 :
          Read(n, Wanted) /\ Return(IF n = 0 THEN "ok" ELSE "failed")
    BY <1>7 DEF ReadShort
  <2>3. n \in Nat /\ n # Wanted
    BY <2>1
  <2>4. /\ n <= Len(line) /\ line' = SubSeq(line, n + 1, Len(line))
        /\ (\E k \in FaultKind : Strikes(k)) \/ UNCHANGED faults
        /\ n = 0 => hung
    BY <1>1, <2>1, <2>2, <2>3, ArrivesFacts
  <2>5. line' \in Seq(Bytes) /\ Len(line') = Len(line) - n
    BY <1>1, <2>3, <2>4, ReadFacts
  <2>6. PowerInv'
    BY <1>1, <1>2, <1>7, <2>2, <2>3, <2>5 DEF ReadShort, Return, PowerInv, romVars
  <2>7. exit' = "ok" => ~Clean'
    <3>1. exit' = "ok" => hung
      BY <2>2, <2>4 DEF Return
    <3>2. \A k \in FaultKind : faults'[k] >= faults[k] /\ faults[k] \in Nat /\ faults'[k] \in Nat
      BY <1>1, <2>4, FaultFacts
    <3> QED
      BY <1>1, <3>1, <3>2 DEF StepInv, Clean, FaultKind
  <2>8. pc' = "exited" /\ exit' \in {"ok", "failed"}
    BY <2>2 DEF Return
  <2> QED
    BY <1>1, <1>7, <2>4, <2>5, <2>6, <2>7, <2>8, QuietStep DEF ReadShort
<1>8. CASE EndOfFile
  <2>1. PowerInv'
    BY <1>1, <1>8 DEF EndOfFile, PowerInv, romVars
  <2>2. Clean' => Whole
    <3>1. UNCHANGED <<faults, hung>>
      BY <1>8 DEF EndOfFile, lineVars
    <3>2. SUFFICES ASSUME Clean PROVE Whole
      BY <3>1 DEF Clean
    <3>3. faults["write"] = 0 /\ ~hung /\ rom = "data"
      BY <1>1, <1>8, <3>2 DEF EndOfFile, StepInv, Clean
    <3>4. tot_read = size
      BY <1>8 DEF EndOfFile, IInv, FileInv, TypeOK
    <3> QED
      BY <3>3, <3>4 DEF Whole, IInv, BoardInv
  <2> QED
    BY <1>1, <1>8, <2>1, <2>2, QuietStep DEF EndOfFile, lineVars, StepInv
<1>9. CASE ClosePort
  <2>1. PowerInv'
    BY <1>1, <1>9 DEF ClosePort, Return, PowerInv, romVars, lineVars
  <2>2. Clean' => Whole
    BY <1>1, <1>9 DEF ClosePort, StepInv, Clean, lineVars
  <2> QED
    BY <1>1, <1>9, <2>1, <2>2, QuietStep DEF ClosePort, Return, lineVars
<1>10. CASE OpenPortFails \/ ReadFails \/ ClosePortFails
  <2>1. /\ pc' = "exited" /\ exit' = "failed"
        /\ UNCHANGED <<buff0, read_size, fileVars, line, hung, romVars>>
        /\ (\E k \in FaultKind : Strikes(k)) \/ UNCHANGED faults
        /\ pc \in {"open", "id", "rest", "close"}
    BY <1>10 DEF OpenPortFails, ReadFails, ClosePortFails, Return, FaultKind
  <2>2. PowerInv'
    BY <1>1, <1>2, <2>1 DEF PowerInv, romVars
  <2> QED
    BY <1>1, <2>1, <2>2, QuietStep
<1>11. CASE ReadMarkerFails
  <2>1. PowerInv'
    BY <1>1, <1>2, <1>11 DEF ReadMarkerFails, PowerInv, romVars
  <2>2. /\ pc = "marker" /\ pc' \in {"marker", "id"} /\ exit = "running"
        /\ UNCHANGED <<exit, buff0, read_size, fileVars, line, hung, romVars>>
        /\ \E k \in FaultKind : Strikes(k)
    BY <1>1, <1>11 DEF ReadMarkerFails, StepInv, FaultKind
  <2> QED
    BY <1>1, <2>1, <2>2, QuietStep DEF BeforeCommand
<1> QED
  BY <1>3, <1>4, <1>5, <1>6, <1>7, <1>8, <1>9, <1>10, <1>11

-----------------------------------------------------------------------------
(* Steps of the file and of the board.                                     *)

LEMMA CommandInvariance == IInv /\ SendCommand => IInv'
<1> SUFFICES ASSUME IInv, SendCommand PROVE IInv'
  OBVIOUS
<1>1. /\ pc = "command" /\ pc' = "file" /\ ~hung
      /\ UNCHANGED <<exit, buff0, read_size, size, tot_read, fileLen, line, hung, faults>>
      /\ rom' = IF rom = "command" THEN "size" ELSE rom
      /\ UNCHANGED <<announced, got>>
  BY DEF SendCommand, RomTakesCommand, fileVars, lineVars
<1>2. rom = "command"
  BY <1>1 DEF IInv, PowerInv, StepInv
<1>3. TypeOK' /\ PowerInv' /\ FileInv'
  BY <1>1, <1>2 DEF IInv, TypeOK, PowerInv, FileInv
<1>4. BoardInv'
  BY <1>1, <1>2 DEF IInv, BoardInv, Prefix
<1>5. StepInv'
  BY <1>1, <1>2 DEF IInv, StepInv, Clean
<1> QED
  BY <1>3, <1>4, <1>5 DEF IInv

LEMMA OpenFileInvariance == IInv /\ (OpenFile \/ OpenFileFails) => IInv'
<1> SUFFICES ASSUME IInv, OpenFile \/ OpenFileFails PROVE IInv'
  OBVIOUS
<1>1. /\ pc = "file" /\ size' \in {size, fileLen}
      /\ UNCHANGED <<exit, buff0, read_size, tot_read, fileLen, line, hung, rom, announced, got>>
  BY DEF OpenFile, OpenFileFails, lineVars, romVars
<1>2. \/ pc' = "announce" /\ size' = fileLen /\ UNCHANGED faults
      \/ pc' = "close" /\ Strikes("file")
  BY DEF OpenFile, OpenFileFails, lineVars
<1>3. /\ faults \in [FaultKind -> Nat] /\ faults' \in [FaultKind -> Nat]
      /\ \A k \in FaultKind : faults[k] \in Nat /\ faults'[k] \in Nat /\ faults'[k] >= faults[k]
  BY <1>2, FaultFacts DEF IInv, TypeOK, FaultKind
<1>4. /\ size = -1 /\ tot_read = 0 /\ rom \notin {"power", "data"}
      /\ fileLen \in 0 .. Len(File) /\ Len(File) \in Nat /\ exit = "running"
  BY <1>1, PSerialAssumption DEF IInv, TypeOK, PowerInv, FileInv, BoardInv, StepInv
<1>5. pc' = "close" => ~Clean'
  <2> SUFFICES ASSUME pc' = "close" PROVE faults'["file"] # 0
    BY DEF Clean
  <2>1. "file" \in FaultKind /\ Strikes("file")
    BY <1>2 DEF FaultKind
  <2> QED
    BY <1>3, <2>1, StrikesFacts DEF IInv
<1>6. TypeOK'
  BY <1>1, <1>2, <1>3 DEF IInv, TypeOK
<1>7. PowerInv' /\ FileInv'
  BY <1>1, <1>2, <1>4 DEF PowerInv, FileInv
<1>8. BoardInv'
  <2>1. faults'["write"] = 0 => faults["write"] = 0
    BY <1>3 DEF FaultKind
  <2> QED
    BY <1>1, <1>4, <2>1 DEF IInv, BoardInv, Prefix
<1>9. StepInv'
  <2>1. (hung => faults'["hangup"] > 0) /\ (Clean' => Clean)
    BY <1>3 DEF IInv, StepInv, Clean, FaultKind
  <2> QED
    BY <1>1, <1>2, <1>4, <1>5, <2>1 DEF IInv, StepInv
<1> QED
  BY <1>6, <1>7, <1>8, <1>9 DEF IInv

LEMMA SizeInvariance == IInv /\ SendSize => IInv'
<1> SUFFICES ASSUME IInv, SendSize PROVE IInv'
  OBVIOUS
<1>1. /\ pc = "announce" /\ pc' = "while" /\ ~hung
      /\ UNCHANGED <<exit, buff0, read_size, size, tot_read, fileLen, line, hung, faults>>
  BY DEF SendSize, fileVars, lineVars
<1>2. /\ size # -1 /\ tot_read = 0 /\ tot_read <= size /\ exit = "running"
      /\ rom \notin {"power", "data"} /\ announced = -1 /\ got = <<>>
  BY <1>1 DEF IInv, FileInv, BoardInv, PowerInv, StepInv
<1>3. \/ rom = "size" /\ rom' = "data" /\ announced' = size /\ got' = <<>>
      \/ rom # "size" /\ rom' = rom /\ announced' = announced /\ got' = got
  BY DEF SendSize, RomTakesSize, romVars
<1>4. Prefix(0) = <<>> /\ Len(<<>>) = 0 /\ <<>> \in Seq(Nat)
  BY PSerialAssumption DEF Prefix
<1>5. TypeOK'
  BY <1>1, <1>2, <1>3, <1>4 DEF IInv, TypeOK
<1>6. PowerInv' /\ FileInv'
  BY <1>1, <1>2, <1>3 DEF PowerInv, FileInv
<1>7. BoardInv'
  <2>1. \A n : Prefix(n)' = Prefix(n)
    BY DEF Prefix
  <2> QED
    BY <1>1, <1>2, <1>3, <1>4, <2>1 DEF BoardInv
<1>8. StepInv'
  BY <1>1, <1>2, <1>3 DEF IInv, StepInv, Clean
<1> QED
  BY <1>5, <1>6, <1>7, <1>8 DEF IInv

\* A command or a size that could not be written for sure: the board took it
\* or it did not, and a fault has been counted.
LEMMA UnsureInvariance == IInv /\ (SendCommandFails \/ SendSizeFails) => IInv'
<1> SUFFICES ASSUME IInv, SendCommandFails \/ SendSizeFails PROVE IInv'
  OBVIOUS
<1>1. /\ UNCHANGED <<buff0, read_size, fileVars, line, hung>>
      /\ \/ pc = "command" /\ pc' = "exited" /\ exit' = "failed"
         \/ pc = "announce" /\ pc' = "close" /\ exit' = exit
  BY DEF SendCommandFails, SendSizeFails, Return
<1>2. /\ TypeOK /\ PowerInv /\ FileInv /\ BoardInv /\ StepInv
      /\ rom # "power"
  BY <1>1 DEF IInv, PowerInv
<1>3. \/ UNCHANGED romVars
      \/ pc = "command" /\ RomTakesCommand
      \/ pc = "announce" /\ RomTakesSize(size)
  BY DEF SendCommandFails, SendSizeFails
<1>4. Strikes("write") \/ (hung /\ UNCHANGED faults)
  <2>1. CASE SendCommandFails
    BY <2>1 DEF SendCommandFails, romVars
  <2>2. CASE SendSizeFails
    BY <2>2 DEF SendSizeFails, romVars
  <2> QED
    BY <2>1, <2>2
<1>5. /\ faults \in [FaultKind -> Nat] /\ faults' \in [FaultKind -> Nat]
      /\ \A k \in FaultKind : faults[k] \in Nat /\ faults'[k] \in Nat /\ faults'[k] >= faults[k]
  BY <1>2, <1>4, FaultFacts DEF TypeOK, FaultKind
<1>6. ~Clean'
  <2>1. CASE Strikes("write")
    <3>1. "write" \in FaultKind
      BY DEF FaultKind
    <3>2. faults'["write"] = faults["write"] + 1
      BY <1>2, <2>1, <3>1, StrikesFacts
    <3> QED
      BY <1>5, <3>1, <3>2 DEF Clean
  <2>2. CASE hung /\ UNCHANGED faults
    BY <1>2, <2>2 DEF StepInv, Clean
  <2> QED
    BY <1>4, <2>1, <2>2
<1>7. \/ UNCHANGED romVars
      \/ rom = "command" /\ rom' = "size" /\ announced' = announced /\ got' = got
      \/ /\ pc = "announce" /\ rom = "size" /\ rom' = "data" /\ announced' = size /\ got' = <<>>
  BY <1>3 DEF RomTakesCommand, RomTakesSize, romVars
<1>8. TypeOK'
  <2>1. /\ rom' \in {"power", "command", "size", "data"}
        /\ announced' \in -1 .. Len(File)
        /\ got' \in Seq(Nat)
    <3>1. <<>> \in Seq(Nat) /\ size \in -1 .. Len(File)
      BY <1>2 DEF TypeOK
    <3>2. CASE UNCHANGED romVars \/ (rom' = "size" /\ announced' = announced /\ got' = got)
      BY <1>2, <3>2 DEF TypeOK, romVars
    <3>3. CASE rom' = "data" /\ announced' = size /\ got' = <<>>
      BY <3>1, <3>3
    <3> QED
      BY <1>7, <3>2, <3>3
  <2>2. /\ pc' \in {"exited", "close"}
        /\ exit' \in {"running", "ok", "failed"}
    BY <1>1, <1>2 DEF TypeOK
  <2> QED
    BY <1>1, <1>2, <1>5, <2>1, <2>2 DEF TypeOK, fileVars
<1>9. PowerInv' /\ FileInv'
  BY <1>1, <1>2, <1>7 DEF PowerInv, FileInv, romVars, fileVars
<1>10. BoardInv'
  <2>1. \A n : Prefix(n)' = Prefix(n)
    BY DEF Prefix
  <2>2. Prefix(0) = <<>>
    BY PSerialAssumption DEF Prefix
  <2>3. faults'["write"] = 0 => faults["write"] = 0
    BY <1>5 DEF FaultKind
  <2> QED
    BY <1>1, <1>2, <1>5, <1>7, <2>1, <2>2, <2>3 DEF BoardInv, FileInv, romVars, fileVars
<1>11. StepInv'
  <2>1. hung' => faults'["hangup"] > 0
    BY <1>1, <1>2, <1>5 DEF StepInv, FaultKind
  <2> QED
    BY <1>1, <1>2, <1>6, <1>7, <2>1 DEF StepInv, Clean, romVars, fileVars, BeforeCommand
<1> QED
  BY <1>8, <1>9, <1>10, <1>11 DEF IInv

\* A chunk on its way to the board: taken whole, in part, or not at all.
LEMMA ChunkInvariance == IInv /\ SendChunk => IInv'
<1> SUFFICES ASSUME IInv, SendChunk PROVE IInv'
  OBVIOUS
<1> DEFINE k == Lesser(size - tot_read, TOT_SIZE)
           data == Chunk(k)
           taken(b) == SubSeq(b, 1, Lesser(Len(b), announced - Len(got)))
<1>1. /\ pc = "while" /\ tot_read < size /\ tot_read' = tot_read + Len(data)
      /\ UNCHANGED <<pc, exit, buff0, read_size, size, fileLen, line, hung>>
      /\ \/ ~hung /\ RomTakesData(data) /\ UNCHANGED faults
         \/ ~hung /\ Strikes("write") /\ \E n \in 0 .. Len(data) : RomTakesData(SubSeq(data, 1, n))
         \/ hung /\ UNCHANGED <<faults, rom, announced, got>>
  BY DEF SendChunk, mainVars, romVars
<1>2. /\ TypeOK /\ PowerInv /\ FileInv /\ BoardInv /\ StepInv
      /\ size \in Nat /\ tot_read \in Nat /\ got \in Seq(Nat) /\ Len(got) \in Nat
      /\ announced \in Int
  BY <1>1 DEF IInv, TypeOK, FileInv
<1>3. k \in Nat /\ k <= size - tot_read
  BY <1>1, <1>2, PSerialAssumption DEF Lesser
<1> HIDE DEF k
<1>4. /\ data \in Seq(Nat) /\ Len(data) \in Nat /\ Len(data) <= k
      /\ tot_read + Len(data) \in 0 .. Len(File)
      /\ Prefix(tot_read) \o data = Prefix(tot_read + Len(data))
  BY <1>2, <1>3, ChunkFacts
<1> HIDE DEF data
<1>5. /\ faults \in [FaultKind -> Nat] /\ faults' \in [FaultKind -> Nat]
      /\ \A j \in FaultKind : faults[j] \in Nat /\ faults'[j] \in Nat /\ faults'[j] >= faults[j]
  BY <1>1, <1>2, FaultFacts DEF TypeOK, FaultKind
<1>6. rom' = rom /\ announced' = announced
  BY <1>1 DEF RomTakesData
<1>7. rom # "data" => got' = got
  BY <1>1 DEF RomTakesData
\* The board never stores more than pserial has read.
<1>8. got' \in Seq(Nat) /\ Len(got') \in Nat /\ Len(got') <= Len(got) + Len(data)
  <2>1. ASSUME NEW b \in Seq(Nat), Len(b) <= Len(data), RomTakesData(b)
        PROVE  got' \in Seq(Nat) /\ Len(got') \in Nat /\ Len(got') <= Len(got) + Len(data)
    <3>1. CASE rom # "data"
      BY <1>2, <1>4, <1>7, <3>1
    <3>2. CASE rom = "data"
      <4>1. announced - Len(got) \in Nat
        BY <1>1, <1>2, <3>2 DEF BoardInv, FileInv
      <4>2. Lesser(Len(b), announced - Len(got)) \in 0 .. Len(b)
        BY <4>1 DEF Lesser
      <4>3. taken(b) \in Seq(Nat) /\ Len(taken(b)) <= Len(b) /\ Len(taken(b)) \in Nat
        BY <4>2
      <4>4. got' = got \o taken(b)
        BY <2>1, <3>2 DEF RomTakesData
      <4> HIDE DEF taken
      <4>5. got' \in Seq(Nat) /\ Len(got') = Len(got) + Len(taken(b))
        BY <1>2, <4>3, <4>4, ConcatProperties
      <4> QED
        BY <1>2, <1>4, <2>1, <4>3, <4>5
    <3> QED
      BY <3>1, <3>2
  <2>2. \A n \in 0 .. Len(data) : SubSeq(data, 1, n) \in Seq(Nat) /\ Len(SubSeq(data, 1, n)) <= Len(data)
    BY <1>4
  <2>3. CASE RomTakesData(data)
    BY <1>4, <2>1, <2>3
  <2>4. CASE \E n \in 0 .. Len(data) : RomTakesData(SubSeq(data, 1, n))
    BY <2>1, <2>2, <2>4
  <2>5. CASE got' = got
    BY <1>2, <1>4, <2>5
  <2> QED
    BY <1>1, <2>3, <2>4, <2>5
\* With every write working, it stores all of it.
<1>9. faults'["write"] = 0 => faults["write"] = 0 /\ ~Strikes("write")
  BY <1>2, <1>5, StrikesFacts DEF FaultKind
<1>10. ASSUME faults'["write"] = 0, ~hung, rom = "data"
       PROVE  got' = Prefix(tot_read')
  <2>1. got = Prefix(tot_read) /\ announced = size
    BY <1>2, <1>9, <1>10 DEF BoardInv
  <2>2. got' = got \o taken(data)
    BY <1>1, <1>9, <1>10 DEF RomTakesData
  <2>3. Len(got) = tot_read
    BY <1>2, <2>1, PSerialAssumption DEF Prefix, TypeOK
  <2>4. Lesser(Len(data), announced - Len(got)) = Len(data)
    <3>1. announced - Len(got) = size - tot_read
      BY <2>1, <2>3
    <3>2. Len(data) <= size - tot_read /\ size - tot_read \in Int
      BY <1>2, <1>3, <1>4
    <3> QED
      BY <1>4, <3>1, <3>2 DEF Lesser
  <2>5. taken(data) = data
    BY <1>4, <2>4
  <2> HIDE DEF taken
  <2> QED
    BY <1>1, <1>4, <2>1, <2>2, <2>5
<1>11. faults'["write"] = 0 => got' = Prefix(Len(got'))
  <2> SUFFICES ASSUME faults'["write"] = 0 PROVE got' = Prefix(Len(got'))
    OBVIOUS
  <2>1. CASE ~hung /\ rom = "data"
    <3>1. got' = Prefix(tot_read')
      BY <1>10, <2>1
    <3>2. Len(got') = tot_read'
      BY <1>1, <1>4, <3>1, PSerialAssumption DEF Prefix
    <3> QED
      BY <3>1, <3>2
  <2>2. CASE hung \/ rom # "data"
    <3>1. got' = got
      BY <1>1, <1>7, <1>9, <2>2
    <3> QED
      BY <1>2, <1>9, <3>1 DEF BoardInv
  <2> QED
    BY <2>1, <2>2
<1>12. TypeOK'
  BY <1>1, <1>2, <1>4, <1>5, <1>6, <1>8 DEF TypeOK
<1>13. PowerInv' /\ FileInv'
  BY <1>1, <1>2, <1>3, <1>4, <1>6 DEF PowerInv, FileInv
<1>14. BoardInv'
  <2>1. \A n : Prefix(n)' = Prefix(n)
    BY DEF Prefix
  <2>2. Len(got') <= tot_read'
    BY <1>1, <1>2, <1>4, <1>8 DEF BoardInv
  <2> QED
    BY <1>1, <1>2, <1>6, <1>7, <1>10, <1>11, <2>1, <2>2 DEF BoardInv
<1>15. StepInv'
  <2>1. (hung => faults'["hangup"] > 0) /\ (Clean' => Clean)
    BY <1>2, <1>5 DEF StepInv, Clean, FaultKind
  <2> QED
    BY <1>1, <1>2, <1>6, <2>1 DEF StepInv
<1> QED
  BY <1>12, <1>13, <1>14, <1>15 DEF IInv

-----------------------------------------------------------------------------
(* Steps of the board's power, the cable and the file's other users.       *)

LEMMA AsicIdFacts == AsicId \in Seq(Bytes) /\ Len(AsicId) \in Nat
<1>1. 1 + ASIC_ID_SIZE + Rest(Chip) \in Nat
  BY PSerialAssumption DEF Rest
<1>2. ASSUME NEW i \in 1 .. 1 + ASIC_ID_SIZE + Rest(Chip)
      PROVE  Token(i - 1, Chip) \in Bytes
  BY PSerialAssumption DEF Token, Bytes
<1> QED
  BY <1>1, <1>2 DEF AsicId

\* A reset empties the board and makes it send its ID.
LEMMA ResetInvariance == IInv /\ Reset => IInv'
<1> SUFFICES ASSUME IInv, Reset PROVE IInv'
  OBVIOUS
<1>1. /\ UNCHANGED <<pc, exit, buff0, read_size, size, tot_read, fileLen, hung>>
      /\ rom' = "command" /\ announced' = -1 /\ got' = <<>>
      /\ line' \in {line, line \o AsicId}
      /\ \/ rom = "power" /\ UNCHANGED faults
         \/ Strikes("reset")
  BY DEF Reset, mainVars, fileVars
<1>2. /\ TypeOK /\ PowerInv /\ FileInv /\ BoardInv /\ StepInv
      /\ tot_read \in Nat /\ line \in Seq(Bytes)
      /\ faults \in [FaultKind -> Nat] /\ faults' \in [FaultKind -> Nat]
      /\ \A j \in FaultKind : faults[j] \in Nat /\ faults'[j] \in Nat /\ faults'[j] >= faults[j]
  BY <1>1, FaultFacts DEF IInv, TypeOK, FaultKind, Bytes
<1>3. line' \in Seq(Bytes)
  <2>1. line \o AsicId \in Seq(Bytes)
    BY <1>2, AsicIdFacts, ConcatProperties
  <2> QED
    BY <1>1, <1>2, <2>1
<1>4. Prefix(0) = <<>> /\ Len(<<>>) = 0 /\ <<>> \in Seq(Nat) /\ -1 \in -1 .. Len(File)
  BY PSerialAssumption DEF Prefix
<1>5. TypeOK'
  BY <1>1, <1>2, <1>3, <1>4 DEF TypeOK, Bytes
<1>6. PowerInv' /\ FileInv'
  BY <1>1, <1>2 DEF PowerInv, FileInv
<1>7. BoardInv'
  <2>1. \A n : Prefix(n)' = Prefix(n)
    BY DEF Prefix
  <2> QED
    BY <1>1, <1>2, <1>4, <2>1 DEF BoardInv
<1>8. StepInv'
  <2>1. (hung => faults'["hangup"] > 0) /\ (Clean' => Clean)
    BY <1>2 DEF StepInv, Clean, FaultKind
  <2>2. CASE rom = "power"
    BY <1>1, <1>2, <2>1, <2>2 DEF StepInv, PowerInv, Clean, Whole
  <2>3. CASE Strikes("reset")
    <3>1. "reset" \in FaultKind
      BY DEF FaultKind
    <3>2. faults'["reset"] = faults["reset"] + 1
      BY <1>2, <2>3, <3>1, StrikesFacts
    <3>3. ~Clean'
      BY <1>2, <3>1, <3>2 DEF Clean
    <3> QED
      BY <1>1, <1>2, <2>1, <3>3 DEF StepInv
  <2> QED
    BY <1>1, <2>2, <2>3
<1> QED
  BY <1>5, <1>6, <1>7, <1>8 DEF IInv

LEMMA HangUpInvariance == IInv /\ HangUp => IInv'
<1> SUFFICES ASSUME IInv, HangUp PROVE IInv'
  OBVIOUS
<1>1. /\ UNCHANGED <<pc, exit, buff0, read_size, size, tot_read, fileLen, rom, announced, got>>
      /\ Strikes("hangup") /\ hung' = TRUE /\ line' = <<>>
  BY DEF HangUp, mainVars, fileVars, romVars
<1>2. /\ TypeOK /\ PowerInv /\ FileInv /\ BoardInv /\ StepInv
      /\ line \in Seq(Bytes) /\ Len(line) \in Nat /\ "hangup" \in FaultKind
      /\ faults \in [FaultKind -> Nat] /\ faults' \in [FaultKind -> Nat]
      /\ \A j \in FaultKind : faults'[j] = IF j = "hangup" THEN faults[j] + 1 ELSE faults[j]
  BY <1>1, StrikesFacts DEF IInv, TypeOK, FaultKind, Bytes
<1>3. faults'["hangup"] > 0 /\ faults'["write"] = faults["write"]
  BY <1>2 DEF FaultKind
<1>4. TypeOK'
  BY <1>1, <1>2 DEF TypeOK
<1>5. Len(line') = 0
  BY <1>1
<1>9. PowerInv'
  <2>1. ASIC_ID_SIZE \in Nat /\ MaxFaults["noise"] \in Nat
    BY PSerialAssumption DEF FaultKind
  <2> QED
    BY <1>1, <1>2, <1>5, <2>1 DEF PowerInv
<1>6. PowerInv' /\ FileInv'
  BY <1>1, <1>2, <1>9 DEF FileInv
<1>7. BoardInv'
  BY <1>1, <1>2, <1>3 DEF BoardInv, Prefix
<1>8. StepInv'
  BY <1>1, <1>2, <1>3 DEF StepInv, Clean
<1> QED
  BY <1>4, <1>6, <1>7, <1>8 DEF IInv

LEMMA ResizeInvariance == IInv /\ Resize => IInv'
<1> SUFFICES ASSUME IInv, Resize PROVE IInv'
  OBVIOUS
<1>1. /\ UNCHANGED <<pc, exit, buff0, read_size, size, tot_read, line, hung, rom, announced, got>>
      /\ Strikes("resize") /\ fileLen' \in 0 .. Len(File)
  BY DEF Resize, mainVars, romVars
<1>2. /\ TypeOK /\ PowerInv /\ FileInv /\ BoardInv /\ StepInv /\ "resize" \in FaultKind
      /\ faults \in [FaultKind -> Nat] /\ faults' \in [FaultKind -> Nat]
      /\ \A j \in FaultKind : faults'[j] = IF j = "resize" THEN faults[j] + 1 ELSE faults[j]
  BY <1>1, StrikesFacts DEF IInv, TypeOK, FaultKind
<1>3. \A j \in {"write", "file", "hangup", "reset"} : faults'[j] = faults[j]
  BY <1>2 DEF FaultKind
<1>4. TypeOK'
  BY <1>1, <1>2 DEF TypeOK
<1>5. PowerInv' /\ FileInv'
  BY <1>1, <1>2 DEF PowerInv, FileInv
<1>6. BoardInv'
  BY <1>1, <1>2, <1>3 DEF BoardInv, Prefix
<1>7. StepInv'
  BY <1>1, <1>2, <1>3 DEF StepInv, Clean, Whole, Prefix
<1> QED
  BY <1>4, <1>5, <1>6, <1>7 DEF IInv

-----------------------------------------------------------------------------
(* The theorems.                                                           *)

LEMMA StepInvariance == IInv /\ [Next]_vars => IInv'
<1> SUFFICES ASSUME IInv, [Next]_vars PROVE IInv'
  OBVIOUS
<1>1. CASE ToolStep
  BY <1>1, QuietInvariance, CommandInvariance, OpenFileInvariance, SizeInvariance,
     ChunkInvariance DEF ToolStep
<1>2. CASE ToolFails
  BY <1>2, QuietInvariance, OpenFileInvariance, UnsureInvariance DEF ToolFails
<1>3. CASE Reset \/ HangUp \/ Resize
  BY <1>3, ResetInvariance, HangUpInvariance, ResizeInvariance
<1>4. CASE UNCHANGED vars
  <2>1. UNCHANGED <<pc, exit, buff0, read_size, size, tot_read, fileLen, line, hung, faults,
                    rom, announced, got>>
    BY <1>4 DEF vars, mainVars, fileVars, lineVars, romVars
  <2>2. TypeOK' /\ PowerInv' /\ FileInv'
    BY <2>1 DEF IInv, TypeOK, PowerInv, FileInv
  <2>3. BoardInv' /\ StepInv'
    BY <2>1 DEF IInv, BoardInv, StepInv, Clean, Whole, Prefix
  <2> QED
    BY <2>2, <2>3 DEF IInv
<1> QED
  BY <1>1, <1>2, <1>3, <1>4 DEF Next, Over

(* The inductive invariant holds of pserial, whatever the file, the chip   *)
(* and the faults.                                                         *)
THEOREM Invariance == Spec => []IInv
<1> QED
  BY InitInvariant, StepInvariance, PTL DEF Spec

(* The variables keep their types.                                         *)
THEOREM TypeCorrect == Spec => []TypeOK
<1>1. IInv => TypeOK
  BY DEF IInv
<1> QED
  BY <1>1, Invariance, PTL

(* The board is never told a size pserial does not keep to.                *)
THEOREM SizeKept == Spec => []SizeHonoured
<1>1. IInv => SizeHonoured
  BY DEF IInv, BoardInv, FileInv, SizeHonoured
<1> QED
  BY <1>1, Invariance, PTL

(* Only a failed write leaves a hole in what the board stores.             *)
THEOREM NoHolesLeft == Spec => []NoHoles
<1>1. IInv => NoHoles
  BY DEF IInv, BoardInv, NoHoles
<1> QED
  BY <1>1, Invariance, PTL

(* Delays, noise, early or short reads of the ID and changes of the file's *)
(* length never make pserial report a success it did not have.             *)
THEOREM FalseSuccess == Spec => []FalseSuccessNeedsFault
<1>1. IInv => FalseSuccessNeedsFault
  <2> SUFFICES ASSUME IInv, exit = "ok", ~Whole
      PROVE  \E k \in {"write", "file", "hangup", "reset"} : faults[k] > 0
    BY DEF FalseSuccessNeedsFault
  <2>1. ~Clean
    BY DEF IInv, StepInv
  <2>2. PICK k \in {"write", "file", "hangup", "reset"} : faults[k] # 0
    BY <2>1 DEF Clean
  <2>3. faults[k] \in Nat
    BY <2>2 DEF IInv, TypeOK, FaultKind
  <2> QED
    BY <2>2, <2>3
<1> QED
  BY <1>1, Invariance, PTL
-----------------------------------------------------------------------------
(* The ID is read to its end.                                              *)

LEMMA IdShape ==
  /\ Rest(Chip) \in Nat \ {0} /\ ASIC_ID_SIZE \in Nat /\ ASIC_ID_SIZE >= 5
  /\ AsicId \in Seq(Bytes) /\ Len(AsicId) = 1 + ASIC_ID_SIZE + Rest(Chip)
  /\ \A i \in 1 .. Len(AsicId) : AsicId[i] = Token(i - 1, Chip)
<1>1. Rest(Chip) \in Nat \ {0} /\ ASIC_ID_SIZE \in Nat /\ ASIC_ID_SIZE >= 5
  BY PSerialAssumption DEF Rest
<1>2. Len(AsicId) = 1 + ASIC_ID_SIZE + Rest(Chip)
  BY <1>1 DEF AsicId
<1>3. \A i \in 1 .. Len(AsicId) : AsicId[i] = Token(i - 1, Chip)
  BY <1>2 DEF AsicId
<1> QED
  BY <1>1, <1>2, <1>3, AsicIdFacts

\* What a read leaves of the end of an ID is the end of it.
LEMMA EndShrinks ==
  ASSUME TypeOK, EndOfId, NEW n \in Nat, n <= Len(line),
         line' = SubSeq(line, n + 1, Len(line))
  PROVE  EndOfId'
<1> DEFINE L == Len(AsicId)
<1>1. line \in Seq(Bytes) /\ Len(line) \in Nat /\ L \in Nat
  BY AsicIdFacts DEF TypeOK, Bytes
<1> HIDE DEF L
<1>2. Len(line') = Len(line) - n /\ \A k \in 1 .. Len(line') : line'[k] = line[n + k]
  <2>1. n + 1 \in Nat \ {0} /\ Len(line) \in 0 .. Len(line)
    BY <1>1
  <2>2. /\ Len(line') = IF n + 1 <= Len(line) THEN Len(line) - (n + 1) + 1 ELSE 0
        /\ \A k \in 1 .. Len(line') : line'[k] = line[n + 1 + k - 1]
    BY <1>1, <2>1, PartOfSeq
  <2>3. Len(line') = Len(line) - n
    BY <1>1, <2>2
  <2>4. \A k \in 1 .. Len(line') : n + 1 + k - 1 = n + k
    BY <1>1, <2>3
  <2> QED
    BY <2>2, <2>3, <2>4
<1>3. ASSUME NEW k \in 1 .. Len(line')
      PROVE  line'[k] = AsicId[L - Len(line') + k]
  <2>1. n + k \in 1 .. Len(line) /\ line'[k] = line[n + k]
    BY <1>1, <1>2
  <2>2. line[n + k] = AsicId[L - Len(line) + (n + k)]
    BY <2>1 DEF EndOfId, L
  <2>3. L - Len(line) + (n + k) = L - Len(line') + k
    <3>1. Len(line') = Len(line) - n /\ k \in Int
      BY <1>2
    <3>2. \A a, b \in Int : a - b + (n + k) = a - (b - n) + k
      BY <3>1
    <3>3. L - Len(line) + (n + k) = L - (Len(line) - n) + k
      BY <1>1, <3>2
    <3> QED
      BY <3>1, <3>3, Zenon
  <2> QED
    BY <2>1, <2>2, <2>3
<1>4. Len(line') <= L
  BY <1>1, <1>2 DEF EndOfId, L
<1>5. AsicId' = AsicId
  BY DEF AsicId, Token, Rest
<1> QED
  BY <1>3, <1>4, <1>5 DEF EndOfId, L

\* The chip is recognised when all of the ID proper is there to be read.
LEMMA DetectedFacts ==
  ASSUME TypeOK, EndOfId, ASIC_ID_SIZE <= Len(line), Len(line) = Len(AsicId) - 1
  PROVE  Detected(SubSeq(line, 1, ASIC_ID_SIZE)) = Chip
<1> DEFINE b == SubSeq(line, 1, ASIC_ID_SIZE)
<1>1. line \in Seq(Bytes) /\ Len(line) \in Nat
  BY DEF TypeOK, Bytes
<1>2. b[4] = line[4] /\ b[5] = line[5] /\ Len(line) >= 5
  <2>1. ASIC_ID_SIZE \in 0 .. Len(line) /\ 1 \in Nat \ {0}
    BY <1>1, IdShape
  <2>2. Len(b) = ASIC_ID_SIZE /\ \A i \in 1 .. Len(b) : b[i] = line[1 + i - 1]
    BY <1>1, <2>1, IdShape, PartOfSeq
  <2> HIDE DEF b
  <2>3. 4 \in 1 .. Len(b) /\ 5 \in 1 .. Len(b) /\ 1 + 4 - 1 = 4 /\ 1 + 5 - 1 = 5
    BY <2>2, IdShape
  <2> QED
    BY <1>1, <2>2, <2>3, IdShape
<1> HIDE DEF b
<1>3. line[4] = Token(4, Chip) /\ line[5] = Token(5, Chip)
  <2>1. ASSUME NEW k \in 1 .. Len(line)
        PROVE  line[k] = Token(k, Chip)
    <3>1. line[k] = AsicId[Len(AsicId) - Len(line) + k]
      BY DEF EndOfId
    <3>2. Len(AsicId) \in Nat /\ k \in Nat /\ k <= Len(AsicId) - 1 /\ k >= 1
      BY <1>1, AsicIdFacts
    <3>3. Len(AsicId) - (Len(AsicId) - 1) + k = k + 1 /\ k + 1 - 1 = k
      BY <3>2
    <3>4. k + 1 \in 1 .. Len(AsicId)
      BY <3>2
    <3>5. AsicId[k + 1] = Token(k + 1 - 1, Chip)
      BY <3>4, IdShape
    <3> QED
      BY <3>1, <3>3, <3>5
  <2> QED
    BY <1>1, <1>2, <2>1
<1>4. Token(4, Chip).at = 4 /\ Token(5, Chip).at = 5 /\ Token(4, Chip).chip = Chip
  BY DEF Token
<1> QED
  BY <1>2, <1>3, <1>4 DEF Detected, b

\* A step counts at most one fault.
LEMMA FaultStep ==
  ASSUME TypeOK, [Next]_vars
  PROVE  (\E k \in FaultKind : Strikes(k)) \/ UNCHANGED faults
<1>1. CASE ToolStep
  <2>1. CASE ReadId \/ ReadRest \/ ReadShort
    BY <2>1 DEF ReadId, ReadRest, ReadShort, Read, Arrives, FaultKind
  <2>2. CASE ~(ReadId \/ ReadRest \/ ReadShort)
    BY <1>1, <2>2 DEF ToolStep, OpenPort, ReadMarker, SendCommand, OpenFile, SendSize,
                      SendChunk, EndOfFile, ClosePort, lineVars, FaultKind
  <2> QED
    BY <2>1, <2>2
<1>2. CASE ToolFails
  BY <1>2 DEF ToolFails, OpenPortFails, ReadMarkerFails, ReadFails, SendCommandFails,
              OpenFileFails, SendSizeFails, ClosePortFails, FaultKind
<1>3. CASE Reset \/ HangUp \/ Resize
  BY <1>3 DEF Reset, HangUp, Resize, FaultKind
<1>4. CASE Over \/ UNCHANGED vars
  BY <1>4 DEF Over, vars, lineVars
<1> QED
  BY <1>1, <1>2, <1>3, <1>4 DEF Next

LEMMA QuietFacts ==
  ASSUME TypeOK, [Next]_vars, Quiet'
  PROVE  Quiet /\ \A k \in {"noise", "reset", "port"} : ~Strikes(k)
<1>1. /\ faults' \in [FaultKind -> Nat]
      /\ \A k \in FaultKind : faults[k] \in Nat /\ faults'[k] \in Nat /\ faults'[k] >= faults[k]
  BY FaultStep, FaultFacts
<1>2. {"noise", "reset", "port"} \subseteq FaultKind
  BY DEF FaultKind
<1>3. Quiet
  BY <1>1, <1>2 DEF Quiet
<1>4. ASSUME NEW k \in {"noise", "reset", "port"}, Strikes(k)
      PROVE  FALSE
  <2>1. faults'[k] = faults[k] + 1 /\ faults[k] \in Nat
    BY <1>1, <1>2, <1>4, StrikesFacts
  <2> QED
    BY <1>4, <2>1 DEF Quiet
<1> QED
  BY <1>3, <1>4

AfterId == {"command", "file", "announce", "while", "close"}

LEMMA DrainStep == IInv /\ DrainInv /\ [Next]_vars => DrainInv'
<1> SUFFICES ASSUME IInv, DrainInv, [Next]_vars, Quiet' PROVE DrainInv'
  BY DEF DrainInv
<1>1. /\ TypeOK /\ Quiet
      /\ \A k \in {"noise", "reset", "port"} : ~Strikes(k)
      /\ line \in Seq(Bytes) /\ Len(line) \in Nat
  BY QuietFacts DEF IInv, TypeOK, Bytes
<1>2. /\ rom = "power" => line = <<>> /\ pc \in {"open", "marker", "exited"}
      /\ pc \in {"open", "marker", "id"} => EndOfId
      /\ pc = "id" => Len(line) < Len(AsicId)
      /\ pc = "rest" =>
           /\ Len(line) <= Rest(Chip)
           /\ Len(line) = Rest(Chip) => read_size = Rest(Chip)
      /\ IdDrained
  BY <1>1 DEF DrainInv
<1>3. UNCHANGED <<AsicId, Rest(Chip)>>
  BY DEF AsicId, Token, Rest
\* The tool returns.
<1>4. ASSUME pc' = "exited", rom' = "power" => rom = "power", line' = line \/ rom # "power"
      PROVE  DrainInv'
  BY <1>2, <1>4 DEF DrainInv, IdDrained
\* The ID has been read.
<1>5. ASSUME pc \in AfterId, pc' \in AfterId, UNCHANGED <<line, read_size>>,
             rom' = "power" => rom = "power"
      PROVE  DrainInv'
  BY <1>1, <1>2, <1>3, <1>5 DEF DrainInv, IdDrained, AfterId
<1>6. CASE ToolStep
  <2>1. CASE OpenPort
    <3>1. PICK n \in 0 .. Len(line) : line' = SubSeq(line, n + 1, Len(line))
      BY <2>1 DEF OpenPort
    <3>2. n \in Nat /\ n <= Len(line) /\ pc = "open" /\ pc' = "marker" /\ rom' = rom
      BY <1>1, <2>1 DEF OpenPort, romVars
    <3>3. EndOfId'
      BY <1>1, <1>2, <3>1, <3>2, EndShrinks
    <3>4. rom = "power" => line' = <<>>
      BY <1>2, <3>1
    <3> QED
      BY <3>2, <3>3, <3>4 DEF DrainInv, IdDrained
  <2>2. CASE ReadMarker
    <3>1. /\ pc = "marker" /\ pc' \in {"marker", "id"} /\ rom' = rom /\ line # <<>>
          /\ line' = SubSeq(line, 1 + 1, Len(line)) /\ 1 <= Len(line) /\ 1 \in Nat
      BY <1>1, <2>2 DEF ReadMarker, romVars
    <3>2. EndOfId' /\ Len(line') = Len(line) - 1
      BY <1>1, <1>2, <3>1, EndShrinks, ReadFacts
    <3>3. Len(line') < Len(AsicId)
      BY <1>1, <1>2, <3>1, <3>2, AsicIdFacts DEF EndOfId
    <3> QED
      BY <1>2, <1>3, <3>1, <3>2, <3>3 DEF DrainInv, IdDrained
  <2>3. CASE ReadId
    <3>1. /\ pc = "id" /\ pc' = "rest" /\ rom' = rom
          /\ Read(ASIC_ID_SIZE, ASIC_ID_SIZE)
          /\ read_size' = Rest(Detected(SubSeq(line, 1, ASIC_ID_SIZE)))
      BY <2>3 DEF ReadId, romVars
    <3>2. ASIC_ID_SIZE <= Len(line) /\ line' = SubSeq(line, ASIC_ID_SIZE + 1, Len(line))
      BY <1>1, <3>1, IdShape, ArrivesFacts
    <3>3. Len(line') = Len(line) - ASIC_ID_SIZE
      BY <1>1, <3>2, IdShape, ReadFacts
    <3>4. EndOfId /\ Len(line) < Len(AsicId) /\ rom # "power"
      BY <1>2, <3>1
    <3>5. Len(line') <= Rest(Chip)
      BY <1>1, <3>3, <3>4, IdShape
    <3>6. ASSUME Len(line') = Rest(Chip) PROVE read_size' = Rest(Chip)
      <4>1. Len(line) = Len(AsicId) - 1
        BY <1>1, <3>3, <3>6, IdShape
      <4>2. Detected(SubSeq(line, 1, ASIC_ID_SIZE)) = Chip
        BY <1>1, <3>2, <3>4, <4>1, DetectedFacts
      <4> QED
        BY <3>1, <4>2
    <3> QED
      BY <1>3, <3>1, <3>4, <3>5, <3>6 DEF DrainInv, IdDrained
  <2>4. CASE ReadRest
    <3>1. pc = "rest" /\ pc' = "command" /\ rom' = rom /\ read_size' = read_size
          /\ Read(read_size, read_size)
      BY <2>4 DEF ReadRest, romVars
    <3>2. read_size \in Nat
      BY <1>1, PSerialAssumption DEF TypeOK
    <3>3. read_size <= Len(line) /\ line' = SubSeq(line, read_size + 1, Len(line))
      BY <1>1, <3>1, <3>2, ArrivesFacts
    <3>4. line' \in Seq(Bytes) /\ Len(line') = Len(line) - read_size
      BY <1>1, <3>2, <3>3, ReadFacts
    <3>5. line' = <<>> \/ 1 + ASIC_ID_SIZE + read_size + Len(line') < Len(AsicId)
      <4>1. CASE Len(line) = Rest(Chip)
        BY <1>2, <3>1, <3>4, <4>1, IdShape
      <4>2. CASE Len(line) < Rest(Chip)
        BY <1>1, <3>2, <3>4, <4>2, IdShape
      <4> QED
        BY <1>1, <1>2, <3>1, <4>1, <4>2, IdShape
    <3> QED
      BY <1>2, <1>3, <3>1, <3>5 DEF DrainInv, IdDrained
  <2>5. CASE ReadShort \/ ClosePort
    <3>1. /\ pc' = "exited" /\ rom' = rom /\ pc \in {"id", "rest", "close"}
      BY <2>5 DEF ReadShort, ClosePort, Return, romVars
    <3> QED
      BY <1>2, <1>4, <3>1
  <2>6. CASE SendCommand \/ OpenFile \/ SendSize \/ SendChunk \/ EndOfFile
    <3>1. /\ pc \in AfterId /\ pc' \in AfterId /\ UNCHANGED <<line, read_size>>
          /\ rom' = "power" => rom = "power"
      BY <2>6 DEF SendCommand, OpenFile, SendSize, SendChunk, EndOfFile, AfterId, mainVars,
                  lineVars, romVars, RomTakesCommand, RomTakesSize, RomTakesData
    <3> QED
      BY <1>5, <3>1
  <2> QED
    BY <1>6, <2>1, <2>2, <2>3, <2>4, <2>5, <2>6 DEF ToolStep
<1>7. CASE ToolFails
  <2>1. CASE OpenFileFails \/ SendSizeFails
    <3>1. /\ pc \in AfterId /\ pc' \in AfterId /\ UNCHANGED <<line, read_size>>
          /\ rom' = "power" => rom = "power"
      BY <2>1 DEF OpenFileFails, SendSizeFails, RomTakesSize, AfterId, romVars
    <3> QED
      BY <1>5, <3>1
  <2>2. CASE OpenPortFails \/ ReadFails \/ SendCommandFails \/ ClosePortFails
    <3>1. pc' = "exited" /\ UNCHANGED line /\ (rom' = "power" => rom = "power")
      BY <2>2 DEF OpenPortFails, ReadFails, SendCommandFails, ClosePortFails, RomTakesCommand,
                  Return, romVars
    <3> QED
      BY <1>4, <3>1
  <2>3. CASE ReadMarkerFails
    BY <1>1, <2>3 DEF ReadMarkerFails
  <2> QED
    BY <1>7, <2>1, <2>2, <2>3 DEF ToolFails
<1>8. CASE Reset
  <2>1. /\ rom = "power" /\ rom' = "command" /\ pc' = pc
        /\ line' = IF hung THEN line ELSE line \o AsicId
    BY <1>1, <1>8 DEF Reset, mainVars
  <2>2. line = <<>> /\ pc \in {"open", "marker", "exited"}
    BY <1>2, <2>1
  <2>3. line' = <<>> \/ line' = AsicId
    BY <2>1, <2>2, AsicIdFacts
  <2>4. EndOfId'
    <3>1. CASE line' = <<>>
      BY <1>3, <3>1, AsicIdFacts DEF EndOfId
    <3>2. CASE line' = AsicId
      <4>1. \A k \in 1 .. Len(AsicId) : Len(AsicId) - Len(AsicId) + k = k
        BY AsicIdFacts
      <4> QED
        BY <1>3, <3>2, <4>1, AsicIdFacts DEF EndOfId
    <3> QED
      BY <2>3, <3>1, <3>2
  <2> QED
    BY <2>1, <2>2, <2>4 DEF DrainInv, IdDrained
<1>9. CASE HangUp
  <2>1. line' = <<>> /\ Len(line') = 0 /\ UNCHANGED <<pc, rom, read_size>>
    BY <1>9 DEF HangUp, mainVars, romVars
  <2>2. EndOfId' /\ Len(line') < Len(AsicId) /\ Len(line') <= Rest(Chip) /\ Len(line') # Rest(Chip)
    BY <1>3, <2>1, IdShape DEF EndOfId
  <2> QED
    BY <1>2, <1>3, <2>1, <2>2 DEF DrainInv, IdDrained
<1>10. CASE Resize \/ Over \/ UNCHANGED vars
  <2>1. UNCHANGED <<pc, rom, read_size, line>>
    BY <1>10 DEF Resize, Over, vars, mainVars, lineVars, romVars
  <2>2. EndOfId => EndOfId'
    BY <1>3, <2>1 DEF EndOfId
  <2> QED
    BY <1>1, <1>2, <1>3, <2>1, <2>2 DEF DrainInv, IdDrained
<1> QED
  BY <1>6, <1>7, <1>8, <1>9, <1>10 DEF Next

(* With nothing ahead of the ID and no interruption, bytes of it are still *)
(* to come when the command goes out only if its beginning was discarded.  *)
THEOREM IdReadToItsEnd == Spec => []IdDrained
<1>1. Init => DrainInv
  <2> SUFFICES ASSUME Init, Quiet PROVE DrainInv
    BY DEF DrainInv
  <2>1. PICK n \in 0 .. MaxFaults["noise"] :
          /\ line \in [1 .. n -> {Stray, Token(0, "unknown")}]
          /\ faults = [k \in FaultKind |-> IF k = "noise" THEN n ELSE 0]
    BY DEF Init
  <2>2. n = 0
    BY <2>1 DEF Quiet, FaultKind
  <2>3. line = <<>>
    BY <2>1, <2>2
  <2>4. EndOfId
    BY <2>3, AsicIdFacts DEF EndOfId
  <2> QED
    BY <2>3, <2>4 DEF Init, DrainInv, IdDrained
<1>2. IInv /\ DrainInv /\ [Next]_vars => DrainInv'
  BY DrainStep
<1>3. DrainInv => IdDrained
  BY DEF DrainInv, IdDrained
<1> QED
  BY <1>1, <1>2, <1>3, Invariance, PTL DEF Spec

-----------------------------------------------------------------------------
(* pserial keeps the promise of FileTransfer while it is in step.          *)

\* A chunk whose write works takes the board to the prefix that was read.
LEMMA ChunkDelivered ==
  ASSUME IInv, IInv', Clean, Clean', SendChunk
  PROVE  /\ got' # got => \E n \in Len(got) + 1 .. size : got' = Prefix(n)
         /\ UNCHANGED <<size, exit>> /\ exit = "running"
<1>1. pc = "while" /\ pc' = "while" /\ UNCHANGED <<size, exit>> /\ exit = "running"
  BY DEF SendChunk, mainVars, IInv, StepInv
<1>2. got = Prefix(tot_read)
  BY <1>1 DEF IInv, StepInv, BoardInv, Clean
<1>3. got' = Prefix(tot_read')
  <2>1. got' = Prefix(tot_read)'
    BY <1>1 DEF IInv, StepInv, BoardInv, Clean
  <2> QED
    BY <2>1 DEF Prefix
<1>4. /\ tot_read \in 0 .. Len(File) /\ tot_read' \in 0 .. Len(File)
      /\ File \in Seq(Nat) /\ Len(File) \in Nat
      /\ tot_read' <= size /\ size \in Int
  BY <1>1, PSerialAssumption DEF IInv, TypeOK, FileInv
<1>5. tot_read <= tot_read'
  <2>1. Lesser(size - tot_read, TOT_SIZE) \in Nat
    BY <1>1, <1>4, PSerialAssumption DEF Lesser, SendChunk
  <2>2. /\ tot_read' = tot_read + Len(Chunk(Lesser(size - tot_read, TOT_SIZE)))
        /\ Len(Chunk(Lesser(size - tot_read, TOT_SIZE))) \in Nat
    BY <2>1, ChunkFacts DEF SendChunk, IInv
  <2> QED
    BY <1>4, <2>2
<1>6. Len(got) = tot_read
  BY <1>2, <1>4 DEF Prefix
<1>7. ASSUME got' # got
      PROVE  tot_read' \in Len(got) + 1 .. size
  <2>1. tot_read' # tot_read
    BY <1>2, <1>3, <1>7
  <2> QED
    BY <1>4, <1>5, <1>6, <2>1
<1> QED
  BY <1>1, <1>3, <1>7

\* Every step in step is a step of FileTransfer, or none.
LEMMA TransferStep ==
  ASSUME IInv, IInv', Clean, Clean', [Next]_vars
  PROVE  [Transfer!Next]_Transfer!vars
<1> USE DEF Transfer!vars
<1>1. TypeOK /\ PowerInv /\ FileInv /\ BoardInv /\ StepInv
  BY DEF IInv
<1>2. ~hung /\ ~hung' /\ \A k \in {"write", "file", "hangup", "reset"} : ~Strikes(k)
  <2>1. faults["hangup"] = 0 /\ faults'["hangup"] = 0
    BY DEF Clean
  <2>2. ~hung /\ ~hung'
    BY <2>1 DEF IInv, StepInv
  <2>3. ASSUME NEW k \in {"write", "file", "hangup", "reset"}, Strikes(k)
        PROVE  FALSE
    <3>1. k \in FaultKind
      BY DEF FaultKind
    <3>2. faults'[k] = faults[k] + 1
      BY <1>1, <2>3, <3>1, StrikesFacts
    <3> QED
      BY <3>2 DEF Clean
  <2> QED
    BY <2>2, <2>3
<1>3. CASE OpenFile
  <2>1. /\ UNCHANGED <<got, exit>> /\ size' = fileLen /\ size = -1 /\ exit = "running"
        /\ fileLen \in 0 .. Len(File)
    BY <1>1, <1>3 DEF OpenFile, romVars, FileInv, StepInv, TypeOK
  <2> QED
    BY <2>1 DEF Transfer!Next, Transfer!Announce, Transfer!Unknown
<1>4. CASE SendChunk
  BY <1>4, ChunkDelivered DEF Transfer!Next, Transfer!Deliver, Transfer!Prefix, Prefix
<1>5. CASE ClosePort
  <2>1. /\ UNCHANGED <<got, size>> /\ exit = "running" /\ exit' = "ok" /\ Whole
    BY <1>1, <1>5 DEF ClosePort, Return, fileVars, romVars, StepInv
  <2>2. got = SubSeq(File, 1, size) /\ size # -1
    BY <1>1, <2>1 DEF Whole, Prefix, BoardInv
  <2> QED
    BY <2>1, <2>2 DEF Transfer!Next, Transfer!Succeed, Transfer!Unknown, Transfer!Prefix
<1>6. CASE OpenPortFails \/ ReadFails \/ ClosePortFails
  <2>1. UNCHANGED <<got, size>> /\ exit = "running" /\ exit' = "failed"
    BY <1>1, <1>6 DEF OpenPortFails, ReadFails, ClosePortFails, Return,
                      fileVars, romVars, StepInv
  <2> QED
    BY <2>1 DEF Transfer!Next, Transfer!Fail
<1>7. CASE ReadShort
  <2>1. UNCHANGED <<got, size>> /\ exit = "running" /\ Wanted \in Int
    BY <1>1, <1>7, PSerialAssumption DEF ReadShort, fileVars, romVars, StepInv, Wanted, TypeOK
  <2>2. PICK n \in 0 .. Wanted - 1 : Read(n, Wanted) /\ Return(IF n = 0 THEN "ok" ELSE "failed")
    BY <1>7 DEF ReadShort
  <2>3. n # 0
    <3>1. Wanted \in Nat /\ n \in Nat /\ n # Wanted
      BY <2>1, <2>2
    <3> QED
      BY <1>1, <1>2, <2>2, <3>1, ArrivesFacts
  <2>4. exit' = "failed"
    BY <2>2, <2>3 DEF Return
  <2> QED
    BY <2>1, <2>4 DEF Transfer!Next, Transfer!Fail
<1>8. CASE SendSize
  <2>1. UNCHANGED <<size, exit>> /\ rom = "size" /\ got' = <<>> /\ got = <<>>
    BY <1>1, <1>8 DEF SendSize, fileVars, RomTakesSize, StepInv, BoardInv
  <2> QED
    BY <2>1
<1>9. CASE Reset
  <2>1. rom = "power" /\ got' = <<>> /\ UNCHANGED <<size, exit>>
    BY <1>2, <1>9 DEF Reset, mainVars, fileVars
  <2>2. got = <<>>
    BY <1>1, <2>1 DEF BoardInv
  <2> QED
    BY <2>1, <2>2
<1>10. CASE \/ OpenPort \/ ReadMarker \/ ReadId \/ ReadRest \/ SendCommand \/ EndOfFile
            \/ ReadMarkerFails \/ Resize \/ Over \/ UNCHANGED vars
  <2>1. UNCHANGED <<size, got, exit>>
    BY <1>10 DEF OpenPort, ReadMarker, ReadId, ReadRest, SendCommand, EndOfFile,
                 ReadMarkerFails, Resize, Over, RomTakesCommand, vars, mainVars, fileVars, romVars
  <2> QED
    BY <2>1
<1>11. ~OpenFileFails /\ ~SendCommandFails /\ ~SendSizeFails /\ ~HangUp
  BY <1>2 DEF OpenFileFails, SendCommandFails, SendSizeFails, HangUp
<1> QED
  BY <1>3, <1>4, <1>5, <1>6, <1>7, <1>8, <1>9, <1>10, <1>11 DEF Next, ToolStep, ToolFails

(* Whatever the delays, the noise, the failures of the port and the        *)
(* changes of the file: with writes that work, a file that can be opened   *)
(* and one reset, pserial only ever makes the board's prefix of the file   *)
(* longer, and reports a success only when it is as long as announced.     *)
THEOREM PSerialImplementsTransfer == Spec => ImplementsTransfer
<1>1. Init => Transfer!Init
  BY DEF Init, Transfer!Init, Transfer!Unknown
<1>2. IInv /\ IInv' /\ Clean /\ Clean' /\ [Next]_vars => [Transfer!Next]_Transfer!vars
  BY TransferStep
<1> QED
  BY <1>1, <1>2, Invariance, PTL DEF Spec, ImplementsTransfer, Transfer!Spec
=============================================================================
