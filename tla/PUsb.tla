-------------------------------- MODULE PUsb --------------------------------
(***************************************************************************)
(* pusb (src/src/pusb.c): downloads a file to a board's boot ROM over USB, *)
(* in response to the ROM's ASIC ID. Every bulk transfer is given up after *)
(* ASIC_ID_TIMEOUT, whether the ROM is late, busy or gone: any of them may *)
(* fail at any time.                                                       *)
(*                                                                         *)
(* The ROM and libusb are not in this repository; they are modelled by     *)
(* what pusb expects of them. The ROM offers its ID, takes a message at a  *)
(* time, then a size, then so many bytes, and runs them. What it has not   *)
(* taken yet waits in the endpoint, which holds one short packet.          *)
(***************************************************************************)
EXTENDS Integers, Sequences

CONSTANTS
  File,             \* the file's bytes, at its longest
  READ_BUFFER_SIZE, \* bytes per read of the file (4096 in the code)
  MAX_SIZE,         \* the largest file accepted (64 * 1024)
  WORD              \* the number of values of an unsigned int (2^32)

ASSUME PUsbAssumption ==
  /\ File \in Seq(Nat)
  /\ READ_BUFFER_SIZE \in Nat \ {0}
  /\ MAX_SIZE \in Nat
  /\ WORD \in Nat /\ Len(File) < WORD

VARIABLES
  \* pusb
  pc,          \* where main and send_file stand
  exit,        \* what main returned: "running", "ok" (0) or "failed"
  fail,        \* send_file's variable of that name is not 0
  size,        \* the size send_file set out to send, -1 before it did
  filesize,    \* what it counts down, an unsigned int
  pos,         \* the read position in the file
  fileLen,     \* the length of the file on the disk, now
  resized,     \* it has changed since send_file looked it up
  \* the board
  bus,         \* "absent", "present", or "gone" for good
  rom,         \* what it does: "boot", "id", "message", "size", "data", "run"
  out,         \* what waits in its OUT endpoint, at most one packet
  announced,   \* the size it was told, -1 before
  got          \* the bytes of the file it has stored

mainVars == <<pc, exit, fail>>
countVars == <<size, filesize, pos>>
diskVars == <<fileLen, resized>>
romVars == <<bus, rom, out, announced, got>>
vars == <<mainVars, countVars, diskVars, romVars>>

-----------------------------------------------------------------------------
Lesser(a, b) == IF a < b THEN a ELSE b
Prefix(n) == SubSeq(File, 1, n)

Message(t) == [type |-> t, n |-> 0]
Size(k) == [type |-> "size", n |-> k]

Return(status) == pc' = "exited" /\ exit' = status

Init ==
  /\ pc = "check" /\ exit = "running" /\ fail = FALSE
  /\ size = -1 /\ filesize = 0 /\ pos = 0
  /\ fileLen \in 0 .. Len(File) /\ resized = FALSE
  /\ bus = "absent" /\ rom = "boot" /\ out = <<>> /\ announced = -1 /\ got = <<>>

-----------------------------------------------------------------------------
(* main, and send_file up to the ID.                                       *)

CheckFile ==
  /\ pc = "check"
  /\ pc' = "wait"
  /\ UNCHANGED <<exit, fail, countVars, diskVars, romVars>>

\* The loop that looks for the device ends when there is one.
OpenDevice ==
  /\ pc = "wait" /\ bus = "present"
  /\ pc' = "configure"
  /\ UNCHANGED <<exit, fail, countVars, diskVars, romVars>>

configure_device ==
  /\ pc = "configure" /\ bus = "present"
  /\ pc' = "size"
  /\ UNCHANGED <<exit, fail, countVars, diskVars, romVars>>

\* Mutant of OpenFile: the size is not compared with MAX_SIZE.
OpenFileOfAnySize ==
  /\ pc = "size"
  /\ size' = fileLen /\ filesize' = fileLen /\ resized' = FALSE
  /\ pc' = "claim"
  /\ UNCHANGED <<exit, fail, pos, fileLen, romVars>>

\* f_size and f_open. The -1 of a failing f_size is a size beyond MAX_SIZE.
OpenFile ==
  /\ pc = "size"
  /\ fileLen <= MAX_SIZE
  /\ size' = fileLen /\ filesize' = fileLen /\ resized' = FALSE
  /\ pc' = "claim"
  /\ UNCHANGED <<exit, fail, pos, fileLen, romVars>>

ClaimInterface ==
  /\ pc = "claim" /\ bus = "present"
  /\ pc' = "id"
  /\ UNCHANGED <<exit, fail, countVars, diskVars, romVars>>

\* Each of these calls may fail, and then main returns.
FailsEarly ==
  /\ pc \in {"check", "configure", "size", "claim"}
  /\ Return("failed")
  /\ UNCHANGED <<fail, countVars, diskVars, romVars>>

-----------------------------------------------------------------------------
(* The ID: read, and if it does not come in time, requested and read       *)
(* again.                                                                  *)

IdTaken ==
  /\ bus = "present" /\ rom = "id"
  /\ rom' = "message"
  /\ UNCHANGED <<bus, out, announced, got>>

ReadId ==
  /\ pc \in {"id", "again"}
  /\ IdTaken
  /\ pc' = "command"
  /\ UNCHANGED <<exit, fail, countVars, diskVars>>

\* Late, not to come, or of another length than the one asked for.
ReadIdFails ==
  /\ pc \in {"id", "again"}
  /\ IdTaken \/ UNCHANGED romVars
  /\ IF pc = "id"
       THEN pc' = "request" /\ UNCHANGED fail
       ELSE pc' = "closeup" /\ fail' = TRUE
  /\ UNCHANGED <<exit, countVars, diskVars>>

-----------------------------------------------------------------------------
(* Short transfers to the board: send_command and the size.                *)

\* The endpoint takes a short packet when it is empty.
Put(m) ==
  /\ bus = "present" /\ out = <<>>
  /\ out' = <<m>>
  /\ UNCHANGED <<bus, rom, announced, got>>

Send(here, m, next) ==
  /\ pc = here
  /\ Put(m)
  /\ pc' = next
  /\ UNCHANGED <<exit, fail, countVars, diskVars>>

\* Not taken in time; or taken, and the answer of the controller is late.
SendFails(here, m) ==
  /\ pc = here
  /\ Put(m) \/ UNCHANGED romVars
  /\ fail' = TRUE /\ pc' = "closeup"
  /\ UNCHANGED <<exit, countVars, diskVars>>

RequestId == Send("request", Message("get"), "again")
RequestIdFails == SendFails("request", Message("get"))

SendCommand == Send("command", Message("download"), "filesize")
SendCommandFails == SendFails("command", Message("download"))

\* Mutant of SendSize: the length of the file is looked up once more.
SendSizeAgain == Send("filesize", Size(fileLen), "while")

SendSize == Send("filesize", Size(filesize), "while")
SendSizeFails == SendFails("filesize", Size(filesize))

-----------------------------------------------------------------------------
(* The data.                                                               *)

\* What f_read yields: a full buffer, or what is left of the file.
Chunk ==
  SubSeq(File, pos + 1, pos + Lesser(READ_BUFFER_SIZE, IF pos < fileLen THEN fileLen - pos ELSE 0))

Stored(data) ==
  /\ got' = got \o SubSeq(data, 1, Lesser(Len(data), announced - Len(got)))
  /\ rom' = IF Len(got') = announced THEN "run" ELSE "data"
  /\ UNCHANGED <<bus, announced>>

\* The ROM stores what it was told to expect. More than that is left in the
\* endpoint, if it is short.
Transfer(data) ==
  /\ bus = "present" /\ out = <<>>
  /\ \/ rom = "data" /\ Stored(data)
     \/ rom = "run" /\ UNCHANGED <<bus, rom, announced, got>>
  /\ out' = IF rom = "data" /\ Len(data) <= announced - Len(got) THEN <<>> ELSE <<Message("surplus")>>

\* Some of it may have been stored.
TransferFails(data) ==
  \/ /\ bus = "present" /\ out = <<>> /\ rom = "data"
     /\ \E n \in 0 .. Len(data) : Stored(SubSeq(data, 1, n))
     /\ UNCHANGED out
  \/ UNCHANGED romVars

\* Mutants of SendChunk: the countdown stops at 0, is forgotten, or is signed.
SendChunkSaturating ==
  /\ pc = "while" /\ filesize # 0 /\ Chunk # <<>>
  /\ Transfer(Chunk)
  /\ pos' = pos + Len(Chunk)
  /\ filesize' = IF filesize < READ_BUFFER_SIZE THEN 0 ELSE filesize - READ_BUFFER_SIZE
  /\ UNCHANGED <<mainVars, size, diskVars>>
SendChunkUncounted ==
  /\ pc = "while" /\ filesize # 0 /\ Chunk # <<>>
  /\ Transfer(Chunk)
  /\ pos' = pos + Len(Chunk)
  /\ UNCHANGED <<mainVars, size, filesize, diskVars>>

SendChunkSigned ==
  /\ pc = "while" /\ filesize # 0 /\ Chunk # <<>>
  /\ Transfer(Chunk)
  /\ pos' = pos + Len(Chunk)
  /\ filesize' = filesize - Len(Chunk)
  /\ UNCHANGED <<mainVars, size, diskVars>>

(* One iteration: f_read and the transfer of what it yielded.              *)
SendChunk ==
  /\ pc = "while" /\ filesize # 0 /\ Chunk # <<>>
  /\ Transfer(Chunk)
  /\ pos' = pos + Len(Chunk)
  /\ filesize' = (filesize - Len(Chunk)) % WORD
  /\ UNCHANGED <<mainVars, size, diskVars>>

\* Mutant of SendChunkFails: the error is printed and the loop goes on.
SendChunkFailsGoesOn ==
  /\ pc = "while" /\ filesize # 0 /\ Chunk # <<>>
  /\ TransferFails(Chunk)
  /\ pos' = pos + Len(Chunk)
  /\ filesize' = (filesize - Len(Chunk)) % WORD
  /\ UNCHANGED <<mainVars, size, diskVars>>

SendChunkFails ==
  /\ pc = "while" /\ filesize # 0 /\ Chunk # <<>>
  /\ TransferFails(Chunk)
  /\ pos' = pos + Len(Chunk)
  /\ fail' = TRUE /\ pc' = "closeup"
  /\ UNCHANGED <<exit, size, filesize, diskVars>>

\* Behind the end of the file 0 bytes are read and transferred, which changes
\* nothing. It cannot fail: a failure is recorded as 0 bytes transferred.
SendNothing ==
  /\ pc = "while" /\ filesize # 0 /\ Chunk = <<>>
  /\ UNCHANGED vars

AllSent ==
  /\ pc = "while" /\ filesize = 0
  /\ pc' = "closeup"
  /\ UNCHANGED <<exit, fail, countVars, diskVars, romVars>>

-----------------------------------------------------------------------------
(* closeup: the interface is released, the device and the file are closed, *)
(* and a failure of that is a failure of the download.                     *)

\* Mutant of CloseUp: the result is the one of closing up.
CloseUpForgets ==
  /\ pc = "closeup" /\ bus = "present"
  /\ Return("ok")
  /\ UNCHANGED <<fail, countVars, diskVars, romVars>>

CloseUp ==
  /\ pc = "closeup" /\ bus = "present"
  /\ Return(IF fail THEN "failed" ELSE "ok")
  /\ UNCHANGED <<fail, countVars, diskVars, romVars>>

CloseUpFails ==
  /\ pc = "closeup"
  /\ fail' = TRUE
  /\ Return("failed")
  /\ UNCHANGED <<countVars, diskVars, romVars>>

ToolStep ==
  \/ CheckFile \/ OpenDevice \/ configure_device \/ OpenFile \/ ClaimInterface
  \/ ReadId \/ RequestId \/ SendCommand \/ SendSize
  \/ SendChunk \/ SendNothing \/ AllSent \/ CloseUp

ToolFails ==
  \/ FailsEarly \/ ReadIdFails \/ RequestIdFails \/ SendCommandFails
  \/ SendSizeFails \/ SendChunkFails \/ CloseUpFails

-----------------------------------------------------------------------------
(* The board (external) and the file's other users.                        *)

Connect ==
  /\ bus = "absent"
  /\ bus' = "present"
  /\ UNCHANGED <<mainVars, countVars, diskVars, rom, out, announced, got>>

Disconnect ==
  /\ bus = "present"
  /\ bus' = "gone"
  /\ UNCHANGED <<mainVars, countVars, diskVars, rom, out, announced, got>>

RomBoots ==
  /\ bus = "present" /\ rom = "boot"
  /\ rom' = "id"
  /\ UNCHANGED <<mainVars, countVars, diskVars, bus, out, announced, got>>

RomTakesMessage ==
  /\ bus = "present" /\ rom = "message" /\ out # <<>>
  /\ rom' = IF out[1].type = "get" THEN "id" ELSE "size"
  /\ out' = <<>>
  /\ UNCHANGED <<mainVars, countVars, diskVars, bus, announced, got>>

RomTakesSize ==
  /\ bus = "present" /\ rom = "size" /\ out # <<>>
  /\ announced' = out[1].n
  /\ rom' = IF out[1].n = 0 THEN "run" ELSE "data"
  /\ out' = <<>>
  /\ UNCHANGED <<mainVars, countVars, diskVars, bus, got>>

Resize ==
  /\ fileLen' \in (0 .. Len(File)) \ {fileLen}
  /\ resized' = TRUE
  /\ UNCHANGED <<mainVars, countVars, romVars>>

Environment ==
  Connect \/ Disconnect \/ RomBoots \/ RomTakesMessage \/ RomTakesSize \/ Resize

\* The program is over.
Over == pc = "exited" /\ UNCHANGED vars

Next == ToolStep \/ ToolFails \/ Environment \/ Over

Spec == Init /\ [][Next]_vars

(* The tool is a running process and every transfer returns, in time or    *)
(* not. Nothing is assumed of the board.                                   *)
FairSpec == Spec /\ WF_vars(ToolStep \/ ToolFails)

-----------------------------------------------------------------------------
(* Properties.                                                             *)

(* The types of the variables; the endpoint never holds two packets.       *)
Packet == [type : {"get", "download", "size", "surplus"}, n : 0 .. Len(File)]
TypeOK ==
  /\ pc \in {"check", "wait", "configure", "size", "claim", "id", "request",
             "again", "command", "filesize", "while", "closeup", "exited"}
  /\ exit \in {"running", "ok", "failed"}
  /\ fail \in BOOLEAN
  /\ size \in -1 .. Len(File)
  /\ filesize \in 0 .. WORD - 1
  /\ pos \in 0 .. Len(File)
  /\ fileLen \in 0 .. Len(File)
  /\ resized \in BOOLEAN
  /\ bus \in {"absent", "present", "gone"}
  /\ rom \in {"boot", "id", "message", "size", "data", "run"}
  /\ out \in {<<>>} \cup {<<m>> : m \in Packet}
  /\ announced \in -1 .. Len(File)
  /\ got \in Seq(Nat)

(* "downloaded successfully to target" is true: whatever times out, comes  *)
(* late or changes its length, pusb returns 0 only when the board holds    *)
(* the file, of the size it was told, and runs it. Nothing is promised of  *)
(* an empty file, whose size may still be in the endpoint                  *)
(* (pusb.c:209-263, 362-367).                                              *)
SuccessMeansWhole ==
  exit = "ok" =>
    /\ got = Prefix(size)
    /\ size > 0 => announced = size /\ rom = "run"

(* MAX_SIZE binds the board, not just the test: the ROM is never told of,  *)
(* and never stores, more than that, although the file may grow after it   *)
(* was looked at, and full buffers are read whatever is left               *)
(* (pusb.c:144-149, 209-240).                                              *)
NeverTooMuch == announced <= MAX_SIZE /\ Len(got) <= MAX_SIZE

(* pusb implements the promise of FileTransfer.                            *)
Download == INSTANCE FileTransfer WITH
              promised <- size, got <- got, outcome <- exit
ImplementsTransfer == Download!Spec

(* Once it found a board pusb ends, whatever the board does, unless the    *)
(* file changes its length: every wait has a timeout (pusb.c:167-263).     *)
Ends == pc = "configure" ~> (pc = "exited" \/ resized)

-----------------------------------------------------------------------------
(* The inductive invariant behind these (proved in PUsbProofs).            *)

\* Where pusb stands in the file.
FileInv ==
  /\ size <= MAX_SIZE
  /\ size = -1 => pos = 0
  /\ pc \in {"check", "wait", "configure", "size"} => size = -1
  /\ pc \in {"claim", "id", "request", "again", "command", "filesize", "while", "closeup"} => size # -1
  /\ pc \in {"claim", "id", "request", "again", "command", "filesize"} => pos = 0
  /\ pc \in {"claim", "id", "request", "again", "command", "filesize", "while"} =>
       filesize = IF pos <= size THEN size - pos ELSE size - pos + WORD
  /\ exit = "running" <=> pc # "exited"
  /\ fail => pc \in {"closeup", "exited"} /\ exit # "ok"

\* What the board knows.
BoardInv ==
  /\ announced # -1 <=> rom \in {"data", "run"}
  /\ announced # -1 => announced = size
  /\ got = Prefix(Len(got))
  /\ announced = -1 => got = <<>>
  /\ rom = "data" => out = <<>> /\ Len(got) < announced
  /\ rom = "run" => Len(got) = announced
  /\ rom = "size" /\ out # <<>> => out[1] = Size(size) /\ size # -1
  /\ rom \in {"boot", "id", "message"} /\ out # <<>> => out[1].type \in {"get", "download"}

\* Both in step.
Early == {"boot", "id", "message"}
StepInv ==
  /\ pc \in {"check", "wait", "configure", "size", "claim", "id", "request"} =>
       rom \in Early /\ out = <<>>
  /\ pc \in {"again", "command"} => rom \in Early /\ (out = <<>> \/ out[1].type = "get")
  /\ pc = "filesize" =>
       \/ rom \in Early /\ out # <<>> /\ out[1].type = "download"
       \/ rom = "size" /\ out = <<>>
  /\ pc = "while" =>
       \/ rom = "size" /\ out = <<Size(size)>> /\ pos = 0
       \/ rom = "data" /\ Len(got) = pos
       \/ rom = "run" /\ pos >= size
  /\ (pc = "closeup" /\ ~fail) \/ exit = "ok" => pos = size /\ size # -1 /\ (size > 0 => rom = "run")

IInv == TypeOK /\ FileInv /\ BoardInv /\ StepInv
=============================================================================
