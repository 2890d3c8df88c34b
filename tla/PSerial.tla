------------------------------ MODULE PSerial ------------------------------
(***************************************************************************)
(* pserial (src/src/pserial.c): answers the ASIC ID a board sends over the *)
(* serial port after its reset by a command, a size and a file. Nothing is *)
(* ever acknowledged: the board's boot ROM, which is not in this           *)
(* repository, is modelled by what pserial expects of it.                  *)
(*                                                                         *)
(* A byte of an ASIC ID is the token [at, chip]: at = 0 is the marker 0x04 *)
(* pserial waits for, at = 1, 2, ... the bytes behind it. A write waits    *)
(* until the line is drained (src/lib/serial_posix.c:333-354), so what it  *)
(* sends is at the board when it returns.                                  *)
(***************************************************************************)
EXTENDS Naturals, Integers, Sequences

CONSTANTS
  File,           \* the file's bytes
  TOT_SIZE,       \* bytes per read of the file (2048 in the code)
  Chip,           \* the chip on the board
  ASIC_ID_SIZE,   \* bytes of the ID proper (7 in the code)
  REST_4430,      \* bytes that follow it on an OMAP4430 (59 in the code)
  REST_OTHER,     \* and on the others (50 in the code)
  Markers,        \* which bytes of the ID happen to be 0x04
  MaxFaults       \* how often each kind of fault may strike

FaultKind ==
  {"noise",    \* a stray byte, maybe 0x04, arrives ahead of the ID
   "gap",      \* bytes of the ID are delayed beyond VTIME
   "reset",    \* the board is reset once more
   "hangup",   \* the port disappears
   "resize",   \* somebody truncates or extends the file
   "write",    \* a write fails or is cut short
   "file",     \* the file cannot be looked up or opened
   "port"}     \* the port cannot be opened, read or closed

ASSUME PSerialAssumption ==
  /\ File \in Seq(Nat)
  /\ TOT_SIZE \in Nat \ {0}
  /\ Chip \in {"4430", "3430", "3630", "unknown"}
  /\ ASIC_ID_SIZE \in Nat /\ ASIC_ID_SIZE >= 5
  /\ REST_4430 \in Nat /\ REST_OTHER \in 1 .. REST_4430
  /\ Markers \subseteq 1 .. ASIC_ID_SIZE + REST_4430
  /\ MaxFaults \in [FaultKind -> Nat]
  \* noise alone does not look like a whole ID
  /\ MaxFaults["noise"] < ASIC_ID_SIZE + REST_OTHER

VARIABLES
  \* pserial
  pc,          \* where main and send_file stand
  exit,        \* the exit status: "running", "ok" (0) or "failed"
  buff0,       \* buff[0] in the wait for the marker: "unset" or "other"
  read_size,   \* how many bytes follow the ID proper
  size,        \* the size f_size announced, -1 before it did
  tot_read,    \* how much of the file was read
  fileLen,     \* the length of the file on the disk, now
  \* the line
  line,        \* bytes on their way to pserial
  hung,        \* the port is gone
  faults,      \* how often each kind of fault has struck
  \* the board
  rom,         \* what it waits for: "power", "command", "size" or "data"
  announced,   \* the size it was told, -1 before
  got          \* the bytes of the file it has stored

mainVars == <<pc, exit, buff0, read_size>>
fileVars == <<size, tot_read, fileLen>>
lineVars == <<line, hung, faults>>
romVars == <<rom, announced, got>>
vars == <<mainVars, fileVars, lineVars, romVars>>

-----------------------------------------------------------------------------
Token(i, c) == [at |-> i, chip |-> c]
Stray == Token(-1, "unknown")
Is04(t) == t.at = 0 \/ t.at \in Markers

Rest(c) == IF c = "4430" THEN REST_4430 ELSE REST_OTHER

\* What the board sends after a reset.
AsicId == [i \in 1 .. 1 + ASIC_ID_SIZE + Rest(Chip) |-> Token(i - 1, Chip)]

Lesser(a, b) == IF a < b THEN a ELSE b

Strikes(k) ==
  /\ faults[k] < MaxFaults[k]
  /\ faults' = [faults EXCEPT ![k] = @ + 1]

Init ==
  /\ pc = "open" /\ exit = "running" /\ buff0 = "unset" /\ read_size = 0
  /\ size = -1 /\ tot_read = 0 /\ fileLen = Len(File)
  /\ \E n \in 0 .. MaxFaults["noise"] :
       /\ line \in [1 .. n -> {Stray, Token(0, "unknown")}]
       /\ faults = [k \in FaultKind |-> IF k = "noise" THEN n ELSE 0]
  /\ hung = FALSE
  /\ rom = "power" /\ announced = -1 /\ got = <<>>

-----------------------------------------------------------------------------
(* main, up to the download command.                                       *)

Return(status) == pc' = "exited" /\ exit' = status

\* s_open and s_configure, which discards what has arrived.
OpenPort ==
  /\ pc = "open" /\ ~hung
  /\ \E n \in 0 .. Len(line) : line' = SubSeq(line, n + 1, Len(line))
  /\ pc' = "marker"
  /\ UNCHANGED <<exit, buff0, read_size, fileVars, hung, faults, romVars>>

OpenPortFails ==
  /\ pc = "open"
  /\ \/ Strikes("port")
     \/ hung /\ UNCHANGED faults
  /\ Return("failed")
  /\ UNCHANGED <<buff0, read_size, fileVars, line, hung, romVars>>

\* One byte; the wait ends when it is 0x04.
ReadMarker ==
  /\ pc = "marker"
  /\ line # <<>>
  /\ line' = Tail(line)
  /\ IF Is04(Head(line))
       THEN pc' = "id" /\ UNCHANGED buff0
       ELSE buff0' = "other" /\ UNCHANGED pc
  /\ UNCHANGED <<exit, read_size, fileVars, hung, faults, romVars>>

\* The read fails. The byte looked at is the one before, and in the first
\* iteration whatever the stack held: by chance the marker. A read of 0 bytes
\* (hung) changes nothing.
ReadMarkerFails ==
  /\ pc = "marker"
  /\ Strikes("port")
  /\ \/ buff0 = "unset" /\ pc' = "id"
     \/ UNCHANGED pc
  /\ UNCHANGED <<exit, buff0, read_size, fileVars, line, hung, romVars>>

(* s_read of want bytes blocks for the first byte and returns n, when it   *)
(* has all of them or the line falls silent for VTIME.                     *)
Arrives(n, want) ==
  \/ n = want /\ n <= Len(line) /\ UNCHANGED faults
  \/ n \in 1 .. want - 1 /\ n = Len(line) /\ UNCHANGED faults
  \/ n \in 1 .. want - 1 /\ n < Len(line) /\ Strikes("gap")
  \/ n = 0 /\ hung /\ UNCHANGED faults

Read(n, want) ==
  /\ Arrives(n, want)
  /\ line' = SubSeq(line, n + 1, Len(line))

\* Mutant of Detected: the bytes are looked up one position early.
DetectedEarly(buff) ==
  IF buff[3].at = 4 /\ buff[4].at = 5 THEN buff[3].chip ELSE "unknown"

\* buff[3] and buff[4] of the ID proper.
Detected(buff) ==
  IF buff[4].at = 4 /\ buff[5].at = 5 THEN buff[4].chip ELSE "unknown"

ReadId ==
  /\ pc = "id"
  /\ Read(ASIC_ID_SIZE, ASIC_ID_SIZE)
  /\ read_size' = Rest(Detected(SubSeq(line, 1, ASIC_ID_SIZE)))
  /\ pc' = "rest"
  /\ UNCHANGED <<exit, buff0, fileVars, hung, romVars>>

ReadRest ==
  /\ pc = "rest"
  /\ Read(read_size, read_size)
  /\ pc' = "command"
  /\ UNCHANGED <<exit, buff0, read_size, fileVars, hung, romVars>>

Wanted == IF pc = "id" THEN ASIC_ID_SIZE ELSE read_size

\* Too few bytes: main returns how many there were, and 0 is success.
ReadShort ==
  /\ pc \in {"id", "rest"}
  /\ \E n \in 0 .. Wanted - 1 :
       /\ Read(n, Wanted)
       /\ Return(IF n = 0 THEN "ok" ELSE "failed")
  /\ UNCHANGED <<buff0, read_size, fileVars, hung, romVars>>

ReadFails ==
  /\ pc \in {"id", "rest"}
  /\ Strikes("port")
  /\ Return("failed")
  /\ UNCHANGED <<buff0, read_size, fileVars, line, hung, romVars>>

-----------------------------------------------------------------------------
(* The board's ROM (external): a command, a size, then so many bytes, and  *)
(* nothing else is listened to.                                            *)

RomTakesCommand ==
  /\ rom' = IF rom = "command" THEN "size" ELSE rom
  /\ UNCHANGED <<announced, got>>

RomTakesSize(n) ==
  IF rom = "size"
    THEN rom' = "data" /\ announced' = n /\ got' = <<>>
    ELSE UNCHANGED romVars

RomTakesData(bytes) ==
  /\ got' = IF rom = "data"
              THEN got \o SubSeq(bytes, 1, Lesser(Len(bytes), announced - Len(got)))
              ELSE got
  /\ UNCHANGED <<rom, announced>>

-----------------------------------------------------------------------------
(* main from the command on, and send_file.                                *)

SendCommand ==
  /\ pc = "command" /\ ~hung
  /\ RomTakesCommand
  /\ pc' = "file"
  /\ UNCHANGED <<exit, buff0, read_size, fileVars, lineVars>>

\* s_write also fails when all was written and tcdrain does not say so: the
\* board may have got it or not.
SendCommandFails ==
  /\ pc = "command"
  /\ \/ ~hung /\ Strikes("write") /\ (RomTakesCommand \/ UNCHANGED romVars)
     \/ hung /\ UNCHANGED <<faults, romVars>>
  /\ Return("failed")
  /\ UNCHANGED <<buff0, read_size, fileVars, line, hung>>

\* f_size and f_open.
OpenFile ==
  /\ pc = "file"
  /\ size' = fileLen
  /\ pc' = "announce"
  /\ UNCHANGED <<exit, buff0, read_size, tot_read, fileLen, lineVars, romVars>>

\* send_file returns an error, which main prints and forgets.
OpenFileFails ==
  /\ pc = "file"
  /\ Strikes("file")
  /\ \/ UNCHANGED size
     \/ size' = fileLen
  /\ pc' = "close"
  /\ UNCHANGED <<exit, buff0, read_size, tot_read, fileLen, line, hung, romVars>>

\* Mutant of SendSize: the length of the file is looked up once more.
SendSizeAgain ==
  /\ pc = "announce" /\ ~hung
  /\ RomTakesSize(fileLen)
  /\ pc' = "while"
  /\ UNCHANGED <<exit, buff0, read_size, fileVars, lineVars>>

SendSize ==
  /\ pc = "announce" /\ ~hung
  /\ RomTakesSize(size)
  /\ pc' = "while"
  /\ UNCHANGED <<exit, buff0, read_size, fileVars, lineVars>>

SendSizeFails ==
  /\ pc = "announce"
  /\ \/ ~hung /\ Strikes("write") /\ (RomTakesSize(size) \/ UNCHANGED romVars)
     \/ hung /\ UNCHANGED <<faults, romVars>>
  /\ pc' = "close"
  /\ UNCHANGED <<exit, buff0, read_size, fileVars, line, hung>>

\* Mutant of Chunk: every read starts at the beginning of the file.
ChunkFromStart(to_read) == SubSeq(File, 1, Lesser(to_read, fileLen))

\* What f_read yields: less than asked for when the file has become shorter.
Chunk(to_read) ==
  SubSeq(File, tot_read + 1, tot_read + Lesser(to_read, IF tot_read < fileLen THEN fileLen - tot_read ELSE 0))

\* Mutants of SendChunk: a full buffer is counted every time, or nothing.
SendChunkCountsBuffer ==
  /\ pc = "while" /\ tot_read < size
  /\ LET data == Chunk(Lesser(size - tot_read, TOT_SIZE))
     IN  /\ tot_read' = tot_read + TOT_SIZE
         /\ \/ ~hung /\ RomTakesData(data) /\ UNCHANGED faults
            \/ ~hung /\ Strikes("write") /\ \E n \in 0 .. Len(data) : RomTakesData(SubSeq(data, 1, n))
            \/ hung /\ UNCHANGED <<faults, romVars>>
  /\ UNCHANGED <<mainVars, size, fileLen, line, hung>>
SendChunkUncounted ==
  /\ pc = "while" /\ tot_read < size
  /\ LET data == Chunk(Lesser(size - tot_read, TOT_SIZE))
     IN  \/ ~hung /\ RomTakesData(data) /\ UNCHANGED faults
         \/ ~hung /\ Strikes("write") /\ \E n \in 0 .. Len(data) : RomTakesData(SubSeq(data, 1, n))
         \/ hung /\ UNCHANGED <<faults, romVars>>
  /\ UNCHANGED <<mainVars, fileVars, line, hung>>

(* One iteration: f_read, s_write. A failed write is printed, and counted  *)
(* as if it had not failed.                                                *)
SendChunk ==
  /\ pc = "while" /\ tot_read < size
  /\ LET data == Chunk(Lesser(size - tot_read, TOT_SIZE))
     IN  /\ tot_read' = tot_read + Len(data)
         /\ \/ ~hung /\ RomTakesData(data) /\ UNCHANGED faults
            \/ ~hung /\ Strikes("write") /\ \E n \in 0 .. Len(data) : RomTakesData(SubSeq(data, 1, n))
            \/ hung /\ UNCHANGED <<faults, romVars>>
  /\ UNCHANGED <<mainVars, size, fileLen, line, hung>>

\* f_close; its failure is printed only.
EndOfFile ==
  /\ pc = "while" /\ tot_read >= size
  /\ pc' = "close"
  /\ UNCHANGED <<exit, buff0, read_size, fileVars, lineVars, romVars>>

\* s_close; only now is the result of main settled.
ClosePort ==
  /\ pc = "close" /\ ~hung
  /\ Return("ok")
  /\ UNCHANGED <<buff0, read_size, fileVars, lineVars, romVars>>

ClosePortFails ==
  /\ pc = "close"
  /\ \/ Strikes("port")
     \/ hung /\ UNCHANGED faults
  /\ Return("failed")
  /\ UNCHANGED <<buff0, read_size, fileVars, line, hung, romVars>>

ToolStep ==
  \/ OpenPort \/ ReadMarker \/ ReadId \/ ReadRest \/ ReadShort
  \/ SendCommand \/ OpenFile \/ SendSize \/ SendChunk \/ EndOfFile \/ ClosePort

ToolFails ==
  \/ OpenPortFails \/ ReadMarkerFails \/ ReadFails \/ SendCommandFails
  \/ OpenFileFails \/ SendSizeFails \/ ClosePortFails

-----------------------------------------------------------------------------
(* The board's power, the cable and the file's other users.                *)

\* The first reset, and later ones.
Reset ==
  /\ \/ rom = "power" /\ UNCHANGED faults
     \/ rom # "power" /\ Strikes("reset")
  /\ rom' = "command" /\ announced' = -1 /\ got' = <<>>
  /\ line' = IF hung THEN line ELSE line \o AsicId
  /\ UNCHANGED <<mainVars, fileVars, hung>>

HangUp ==
  /\ ~hung
  /\ Strikes("hangup")
  /\ hung' = TRUE /\ line' = <<>>
  /\ UNCHANGED <<mainVars, fileVars, romVars>>

Resize ==
  /\ Strikes("resize")
  /\ fileLen' \in 0 .. Len(File)
  /\ UNCHANGED <<mainVars, size, tot_read, line, hung, romVars>>

\* The program is over.
Over == pc = "exited" /\ UNCHANGED vars

Next == ToolStep \/ ToolFails \/ Reset \/ HangUp \/ Resize \/ Over

Spec == Init /\ [][Next]_vars

(* The tool is a running process.                                         *)
FairSpec == Spec /\ WF_vars(ToolStep)

-----------------------------------------------------------------------------
(* The types of the variables.                                             *)
TypeOK ==
  /\ pc \in {"open", "marker", "id", "rest", "command", "file", "announce",
             "while", "close", "exited"}
  /\ exit \in {"running", "ok", "failed"}
  /\ buff0 \in {"unset", "other"}
  /\ read_size \in {0, REST_4430, REST_OTHER}
  /\ size \in -1 .. Len(File)
  /\ tot_read \in 0 .. Len(File)
  /\ fileLen \in 0 .. Len(File)
  /\ line \in Seq([at : Int, chip : {"4430", "3430", "3630", "unknown"}])
  /\ hung \in BOOLEAN
  /\ faults \in [FaultKind -> Nat]
  /\ rom \in {"power", "command", "size", "data"}
  /\ announced \in -1 .. Len(File)
  /\ got \in Seq(Nat)

Prefix(n) == SubSeq(File, 1, n)

\* The board holds as much of the file as pserial announced.
Whole == rom = "data" /\ announced = size /\ got = Prefix(size)

(* What "fail/success" and "File download completed" promise               *)
(* (pserial.c:62, 165, 304). The code does not keep it.                    *)
SuccessMeansWhole == exit = "ok" => Whole

(* A false success takes a write that failed, a file that could not be     *)
(* read, a port that went away while the ID came in, or a second reset:    *)
(* no delay, no noise, no short or early read of the ID and no change of   *)
(* the file's length is enough (pserial.c:230-306).                        *)
FalseSuccessNeedsFault ==
  exit = "ok" /\ ~Whole => \E k \in {"write", "file", "hangup", "reset"} : faults[k] > 0

(* The size goes out before the data and binds it: whatever happens to the *)
(* file or to the board, the ROM is never told a size pserial does not     *)
(* keep to, and never offered more than that (pserial.c:84-105).           *)
SizeHonoured ==
  /\ announced # -1 => announced = size
  /\ Len(got) <= tot_read
  /\ size # -1 => tot_read <= size

(* What is stored is a prefix of the file, unless a write failed: then the *)
(* bytes it was to send are missing in the middle (pserial.c:99-105).      *)
NoHoles == faults["write"] = 0 => got = Prefix(Len(got))

(* The ID is read to its end, whatever the chip: with nothing ahead of it  *)
(* and no interruption, bytes of it are still to come when the command     *)
(* goes out only if opening the port discarded its beginning. Then those   *)
(* bytes and the ones read do not make up an ID (pserial.c:250-278).       *)
Quiet == \A k \in {"noise", "reset", "port"} : faults[k] = 0
IdDrained ==
  pc \in {"command", "file", "announce", "while", "close"} /\ Quiet
  => line = <<>> \/ 1 + ASIC_ID_SIZE + read_size + Len(line) < Len(AsicId)

(* An ID gets pserial to its end, unless the port goes away or the file    *)
(* becomes shorter while it is being sent (pserial.c:230-306).             *)
IdComing ==
  /\ pc = "marker"
  /\ \E i \in 0 .. Len(line) - Len(AsicId) : SubSeq(line, i + 1, i + Len(AsicId)) = AsicId
IdEndsWait == IdComing ~> (pc = "exited" \/ hung \/ faults["resize"] > 0)

-----------------------------------------------------------------------------
(* The inductive invariant behind FalseSuccessNeedsFault, SizeHonoured and *)
(* NoHoles (proved in PSerialProofs).                                      *)

\* Before the first reset there is only noise, too little for an ID.
PowerInv ==
  /\ rom = "power" =>
       /\ pc \in {"open", "marker", "id", "rest", "exited"}
       /\ Len(line) + (IF pc = "rest" THEN ASIC_ID_SIZE ELSE 0) <= MaxFaults["noise"]
  /\ pc = "rest" => read_size >= REST_OTHER

\* Where pserial stands in the file.
FileInv ==
  /\ pc \in {"open", "marker", "id", "rest", "command", "file"} => size = -1
  /\ size = -1 => tot_read = 0
  /\ size # -1 => tot_read <= size
  /\ pc \in {"announce", "while"} => size # -1
  /\ pc = "announce" => tot_read = 0

\* What the board knows.
BoardInv ==
  /\ rom # "data" => announced = -1 /\ got = <<>>
  /\ rom = "data" => announced = size /\ size # -1 /\ pc \in {"while", "close", "exited"}
  /\ Len(got) <= tot_read
  /\ faults["write"] = 0 => got = Prefix(Len(got))
  /\ faults["write"] = 0 /\ ~hung /\ rom = "data" => got = Prefix(tot_read)

\* pserial and the board in step.
Clean == \A k \in {"write", "file", "hangup", "reset"} : faults[k] = 0
StepInv ==
  /\ hung => faults["hangup"] > 0
  /\ exit = "running" <=> pc # "exited"
  /\ pc \in {"open", "marker", "id", "rest", "command"} => rom \in {"power", "command"}
  /\ Clean =>
       /\ pc \in {"file", "announce"} => rom = "size"
       /\ pc = "while" => rom = "data"
       /\ pc = "close" \/ exit = "ok" => Whole

IInv == TypeOK /\ PowerInv /\ FileInv /\ BoardInv /\ StepInv

\* The invariant behind IdDrained: what is on the line is the end of one ID,
\* and the chip is recognised when all of the ID proper was there to be read.
EndOfId ==
  /\ Len(line) <= Len(AsicId)
  /\ \A k \in 1 .. Len(line) : line[k] = AsicId[Len(AsicId) - Len(line) + k]

DrainInv ==
  Quiet =>
    /\ rom = "power" => line = <<>> /\ pc \in {"open", "marker", "exited"}
    /\ pc \in {"open", "marker", "id"} => EndOfId
    /\ pc = "id" => Len(line) < Len(AsicId)
    /\ pc = "rest" =>
         /\ Len(line) <= Rest(Chip)
         /\ Len(line) = Rest(Chip) => read_size = Rest(Chip)
    /\ IdDrained

(* While pserial and the board stay in step it implements the promise of   *)
(* FileTransfer, without a single acknowledgement (pserial.c:72-110).      *)
Transfer == INSTANCE FileTransfer WITH promised <- size, outcome <- exit
ImplementsTransfer == []Clean => Transfer!Spec
=============================================================================
