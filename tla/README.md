# omap-u-boot-utils: a verification project in TLA+

The repository holds small host tools that bring an OMAP board to life: they
download files to the boot ROM (`pserial`, `pusb`) or to U-Boot (`ukermit`),
talk to U-Boot's console (`ucmd`), poke a hung kernel (`sysrq`), and prepare
boot images (`gpsign`, `tagger`). This directory keeps a model of the code
beside it: TLA+ modules, TLC configurations that check them on small instances,
and proofs for TLAPS. `PROJECT.json` maps every definition to its lines.

Paths below are relative to the repository root.

## 1. The system

### Parts

| part | state it keeps | operations | talks to |
|---|---|---|---|
| `src/ukermit.c`, transfer | size left, sequence number, retry count, current chunk | `main`, `k_send_data`, `k_send_data_packet_small`, `kermit_ack_type`, `s1_getpacket` | serial library, file library, U-Boot's `loadb` |
| `src/ukermit.c`, encoding | packet buffer, running checksum | `should_escape`, `k_escape`, `ktrans`, checksum | - |
| `src/ucmd.c` | index into the expected string | `main`, `send_cmd`, `get_response` | serial library, U-Boot's console |
| `src/pserial.c` | bytes of the ASIC ID, bytes of the file sent | `main`, `send_file` | serial library, file library, boot ROM |
| `src/pusb.c` | device handle, ID, bytes left | `main`, `configure_device`, `send_command`, `send_file` | libusb, file library, boot ROM |
| `src/sysrq.c` | none | `main`, `send_sysrq` | serial library |
| `lib/serial_posix.c` | one descriptor, saved terminal settings | open, configure, read, getc, write, flush, close, break | the operating system; other users of the port |
| `lib/file_posix.c` | one `FILE *` | size, open, read, write, seek, close | the operating system; other users of the file |
| `src/gpsign.c` | the settings by their keys, configuration header, place in the file copied | `main`, `fillup_ch` | lcfg, `compare.h`, stdio |
| `src/tagger.c` | `struct board`, place in the list of tags, place in the files copied | `main`, `generate_tag` with one `setup_*_tag` per tag | lcfg, `compare.h`, stdio |
| `include/compare.h` | - | `compare_eventhandler`: a value into the variable of its key | called back by lcfg |
| `lib/lcfg/` | scanner buffer and state, parser stack, path, values | `lcfg_parse`, `lcfg_accept` | the file, its caller's handler |
| `lib/f_status.c` | none the tools read | progress line | terminal |
| `lib/*_win32.c` | as the POSIX files | the same interface over another system | - |
| `src/asm/sty-omap3.S` | registers and memory of the target | start-up, `start_linux` | the image tagger makes; the kernel |

Every tool is one sequential process. The concurrency is around it: the serial
line that delays, damages and loses bytes; the target at the other end, which
runs by itself and may be reset; other processes that use the same port or
change the file while it is being sent; and a cable that can be unplugged. The
tools keep one file and one port at a time in static variables of the two
libraries, and call them synchronously; there are no callbacks but lcfg's. The
port itself keeps its settings and its break condition from one process to the next.

### What is hard in it

- **Reads that are not aligned with messages.** A read sets VMIN to
  the bytes it wants and VTIME to a pause: it blocks for the first byte, and
  from then on ends early as soon as the line is silent for that long. `ukermit` takes whatever it gets for a reply, leaves the
  rest for the next read, and stays shifted from there on.
- **No timeout and no flush.** `ukermit` waits for a reply for as long as it
  takes; `pserial` and `ucmd` wait for a marker or for a string in the same way.
  Whether they end is a question about what is on the line.
- **Retries and roll-over.** A packet that was stored may be sent again, and its
  number comes back 128 packets later, with replies still on the line.
- **Files that change.** The size is looked up first and the bytes read later.
- **Failures in the middle.** Several results are printed and dropped; a
  program that gives up leaves the port in some state to the next.
- **Arithmetic of layouts.** Sizes of header sections, tags and pages are
  computed in one place and relied on in another, or on the target.
- **A parser by hand.** The path of a value is one string that is extended and
  cut at every token, over a buffer that ends anywhere in a token.

The list of hazards, each at its line and with the properties that cover it,
is in `PROJECT.json`. The properties that make each part correct:

- *ukermit, transfer*: nothing is ticked off that the target has not stored;
  success means the whole file; no number is live twice; a waiting sender always
  has an answer coming; the sender ends; damage alone is repaired.
- *ukermit, encoding*: encoding can be undone, damage is noticed, no control
  character is sent, buffers suffice; the bytes of replies are judged the way
  the transfer relies on.
- *ucmd*: a reported match is real; a prompt at the start of a line is found.
- *pserial, pusb*: the board is told one size, which is kept to; what it stores
  is a prefix of the file; success means the whole file unless one of a short
  list of faults happened; an ID leads to an end.
- *serial library, sysrq*: of the programs on a port at most one came in by a
  test that was still true; a port that nobody has is set as the user left it; a
  break ends.
- *lcfg, compare.h*: the values found are those of the file, under their keys,
  wherever the buffer ends; a file that lost a character is refused; each
  variable gets the last value of its key.
- *gpsign*: the table of the header describes its sections; the ROM reads all of
  the file and none of the padding.
- *tagger, start_linux*: a walk over the tags meets every fact about the board;
  the start-up code copies all of the tags and enters the kernel at its first word.

## 2. Modules

| module | models | extends |
|---|---|---|
| `FileTransfer` | what a download tool promises (abstract); `Kermit`, `PUsb` and, without certain faults, `PSerial` implement it | |
| `KermitReply` | a reply as a stream of tokens, and how `kermit_ack_type` judges them | |
| `Kermit` | `ukermit`'s `main` and `k_send_data`, the line, the receiver | `KermitReply`, instantiates `FileTransfer` |
| `KermitBytes` | the character conversions and the checksum | |
| `KermitAck` | `kermit_ack_type` and `s1_getpacket` byte by byte | `KermitBytes`, `KermitReply` |
| `KermitPacket` | the escaping, header and checksum of a data packet | `KermitBytes` |
| `UCmd` | `ucmd` and the console | |
| `PSerial` | `pserial`, the line and the boot ROM | instantiates `FileTransfer` |
| `PUsb` | `pusb`, the bus, the boot ROM and the file's other users | instantiates `FileTransfer` |
| `SerialPort` | the system calls of the serial library on a port that processes share | |
| `PortTools` | `sysrq`, and the frame of the other tools, on that port | `SerialPort` |
| `LcfgScanner` | lcfg's buffered reader and its automaton for tokens | |
| `Lcfg` | lcfg's push-down automaton with the path of a value | `LcfgScanner` |
| `ConfigText` | what a configuration file means (reference definition, recursive) | |
| `ConfigGrammar` | what a text for lcfg says: lexemes side by side and what each adds to the document (reference for the proofs, not recursive) | `Lcfg` |
| `ConfigReading` | the reading by `ConfigGrammar` of a text without fault, for TLC | `ConfigGrammar` |
| `ConfigMap` | `compare_eventhandler` of `include/compare.h` | |
| `GPSign` | `gpsign` from the first character of its configuration to its image | `Lcfg`, `ConfigMap` |
| `Tagger` | `tagger` from the values of its configuration to its image | `ConfigMap` |
| `StartLinux` | `start_linux` of the start-up code, on that image | `Tagger` |
| `KermitProofs`, `KermitPacketProofs`, `UCmdProofs`, `PSerialProofs`, `PUsbProofs`, `PortToolsProofs`, `GPSignProofs`, `StartLinuxProofs` | theorems | the module of the same name, TLAPS; `KermitPacketProofs` also `KermitAck` |
| `MC*` | values of the constants for TLC | the module of the same name |

### Kermit

`pc` stands for the place in `main` and `k_send_data`; `size`, `sequence`,
`retry`, `buffer` are the variables of that name (`buffer` the file's bytes,
`sequence` from 0 to `SEQ_MAX`). One action is one step between two system
calls: `StartFile` (`f_size`, `f_open`), `ReadChunk` (the head of the loop and
`f_read`), `SendPacket` (`k_send_data_packet_small`), then one of `Acked`,
`Retry`, `Unexpected`, which are the three ways out of the switch after
`kermit_ack_type`; `SendEtx` and `ClosePort` end the program. Failing system calls are
actions of their own (`...Fails`). `Arrives(n)` says when a read of a reply
returns `n` bytes: all six, fewer when the line is silent behind them, none
when the port is gone.

Packets travel to the target as one record; replies travel back as single
bytes, since it is their misalignment that matters. A byte is a token that says
which reply it comes from. `AckType` judges tokens; that `kermit_ack_type`
judges the real bytes in the same way is what `KermitAck` is for. The two
modules share `KermitReply`, so what `KermitAck` checks is exactly what `Kermit`
uses.

The receiver is U-Boot's, outside the repository. The sender's comment on the
protocol (src/ukermit.c:47-53) and its code rely on this much: an intact packet
is stored and acknowledged with its number; one that repeats the number of its
predecessor replaces it; a damaged one is answered by a NAK and changes
nothing; `ETX_CHAR` ends the session.

`FileTransfer` is the promise: a size is announced once; the target gains bytes
of a prefix of the file, never anything else; success is reported only when it
holds as much as was announced, and nothing arrives afterwards.
`ImplementsTransfer` maps `promised` to `ori_size`, `got` to what the target
stored, and `outcome` to what `main` reports.

### KermitAck, KermitPacket

`KermitAck` puts two replies on a line, loses a byte or flips a bit, and reads
up to six bytes at a time, from wherever the last read left off. Each byte
carries its token, so that the verdict on bytes and that on tokens can be
compared. `KermitPacket` builds a packet byte by byte, as the loop of
`k_send_data_packet_small` does, lets the line flip a bit, and takes it apart.
A `char` is a number from 0 to 255, and `Signed` says where the code adds it
with its sign.

### UCmd

`match_idx` is the variable of that name, `seen` a window on the characters
examined last, kept so that properties can say what was on the line. A read on
a dead port hands out `NUL` for ever. `Fails` is any of `main`'s early exits.

### PSerial

`main` waits for 0x04 (`ReadMarker`, `ReadMarkerFails`), reads the rest of the
ID in two parts (`ReadId`, `ReadRest`), sends the command, and `send_file`
sends the size and the file. A byte of the ID is a token with its place and the
chip. `s_write` ends with `tcdrain`, so a write is one step with the board's
reaction. When it fails, the bytes may be out all the same, or some of them: it is
left open what the ROM has of them (`SendCommandFails`, `SendSizeFails`, `SendChunk`). `buff0` records that the code looks at `buff[0]` even after a failed
read, and before anything was ever stored there. `ReadShort` is where `main`
returns the number of bytes it got, 0 of which is success.

`ImplementsTransfer` maps `promised` to `size`, `got` to what the board stored and
`outcome` to what `main` returns. It is claimed of the behaviours in which none
of the faults happens that a success of `pserial` may hide (`Clean`); which they
are is what `FalseSuccessNeedsFault` says.

### PUsb

`size` is what `f_size` yielded, `filesize` the `unsigned int` that is counted
down from it, modulo `WORD`; `pos` is where `f_read` stands. Every bulk transfer
has an action for the case that it got through in time, and one for the case
that it did not (`...Fails`), in which the board may nevertheless have taken it,
or a part of it. The board may leave the bus at any time and never comes back.
A file of `WORD` bytes or more, of which `pusb` would see the remainder, is
excluded by `PUsbAssumption`.

The ROM and libusb are outside the repository. `pusb` relies on this much: the
ROM offers its ID once after reset and again on `GET_ASICID_COMMAND`; then it
takes `DOWNLOAD_COMMAND`, four bytes of size, and as many bytes of data, which
it runs. A short packet that is not taken yet waits in the endpoint, and the
next transfer waits for it. So the request for an ID may still be there when the
ID that was late is read and the command is to be sent.

`ImplementsTransfer` maps `promised` to `size`, `got` to what the ROM stored,
and `outcome` to what `main` returns.

### SerialPort, PortTools

A process has its own copies of the statics `fd`, `oldtio` and `newtio`;
`settings` and `breaking` belong to the port. Of the settings the model keeps
those in which the tools differ. `SerialPort` has one operator per system call,
`PortTools` puts them in the order in which `s_open`, `s_configure`, `s_close`
and the `main` functions make them, each with its failure beside it: `FindFree`
and `OpenPort` are two steps, as the code runs `lsof` first and opens the port
afterwards; `SaveSettings`, `ReadSettings` and `ApplySettings` are the three
calls of `s_configure`; `RestoreSettings` and `ClosePort` those of `s_close`
that matter, of which the second is also what the system does for a process that
ends. It does so without the first where `pserial` returns because its command was
not written (`CommandFails`). `sysrq` is modelled with all of its steps; of the others the session is
any number of reads, each of which sets `newtio` again, and what they transfer is
in their own modules. `s_break` has no `return` behind its last line, so what
`BreakOff` leads to is left open. A program may be killed anywhere.
`stale`, `slipped` and `overlapped` are read by properties only.

### LcfgScanner, Lcfg, ConfigMap

A file is a sequence of characters. `FillBuffer` is one `read`, `ScanChar` one
round of the loop of `lcfg_scanner_token_read`, `EndOfFile` its end. The buffer
holds what was read last, so `fpos`, `offset` and `size` are all of it. What
`read` returns depends on what the file is: all there is up to the buffer's size
for a regular file, any part of that for a pipe, an error for a directory.
`Lcfg` has one action per token that a state of the parser accepts, and one for all
others. `path` is kept as characters, since the code cuts it at the last dot it
finds. `Handle` of `ConfigMap` is one call of `compare_eventhandler`: a key
nobody asked for and a value that is no number are ignored, a value too large
for its variable is stored cut to its width and ends the traversal. `ScanResult`
and `Scanned` are the library's `sscanf` with "%x", which skips blanks and takes a
sign; of a value that is blank it returns `EOF`, which the code does not look for,
so that 0 is stored. `WORD` and `LONG` are the widths of what it stores and of what
it reads. A string is stored up to its first NUL.

### GPSign

`conf` holds the variables by their keys; of the hundred settings one of every
width and section is kept. Behind the parser `Visit` handles one value,
`CommandLine` is the precedence of `-l`, `WriteHeader` writes what `fillup_ch`
made, `CopyByte` is a round of the copy loop with the padding. The header is kept
by words, at the real places and sizes of its sections; `ch_buffer` fills it as
`fillup_ch` does, from the zeros of `memset` over one section after the other
(`AddIfValid`), each behind those that are valid (`Listed`). `CutInput` and `DiskFull`
are what others do. `-4` is claimed for images without a header only: the
header's 512 bytes come in front of the first page, and no document says what
the ROM does then.

### Tagger, StartLinux

All is counted in words. `tagger`'s configuration is taken as read, as a
sequence of keys and values, by `Lcfg` above. Each of the `setup_*_tag` functions
is the tag it makes of the board, if any, with the size its header says and the
words it writes, which may be fewer; `Setup` writes it where `params` is and moves
`params` by that size, and `generate_tag` does so in the order of the code. When
the last tag is not within the buffer, or a string does not fit `struct board`,
something has been written out of bounds; the model ends there. `CopySty` patches
the two magic numbers. `StartLinux` runs the end of the start-up code on an image
that is whole: `CopyWord` is one round of its loop, `Jump` what it passes to the
kernel. That the place the image is loaded to does not overlap the one the tags
are copied to is assumed. `Walk` is the reader's side: it goes from tag to tag by
the sizes in the headers alone and takes from each what a kernel would, in eight
steps, which is one more than there are tags with something to say.

### Bounds in the models

Every fault of `Kermit`, `PSerial` and `SerialPort` has a budget,
`MaxFaults[kind]`, which `Strikes` spends; those of `PUsb` have none, and may
happen at any time. `MAX_OUT` bounds what the target of `ucmd` prints, `MaxRuns` how often a program is
started. `KermitPacket` bounds a chunk by `MAX_CHUNK`, as the code does. The disk
of `GPSign` and `Tagger` fills up once; `GPSign`'s input is cut once. There are no
other bounds in the guards.

## 3. Runs

| run | instance | states | shows |
|---|---|---|---|
| `kermit_faults` | 5 bytes, 2 per packet, numbers 0-1, 3 tries, each fault once | 1.1 million | the safety of the transfer under any fault, and that it implements `FileTransfer` |
| `kermit_live` | 4 bytes, 1 per packet, numbers 0-2, 2 tries, 5 gaps and 2 damages | 38 thousand | nothing lost: the sender ends, tolerates fewer damages than tries, and no number is live twice |
| `kermit_ack` | 14 numbers, 12 pairs of replies, one byte lost or bit flipped | 655 thousand | verdicts on bytes are those on tokens |
| `kermit_packet` | 17 bytes, 4 numbers, 2 bytes per packet | 123 thousand | packets survive encoding, damaged ones are refused |
| `ucmd` | "aab" expected, 7 characters from a 3-letter alphabet | 62 thousand | a match is real, a prompt is found |
| `ucmd_missed` | as above, 5 characters | | **violation**, see Findings |
| `pserial` | 3 bytes, 2 per read, ID of 11 bytes with a 0x04 inside, each fault once, two of noise and resize | 164 thousand | what the board stores, and when a success is false |
| `pserial_success` | as above, only the file is missing | | **violation**, see Findings |
| `pusb` | a file of 0 to 5 bytes, at most 4 accepted, 2 per read, a counter of 3 bits | 5 thousand | a success is one, the limit binds the board, `pusb` ends and implements `FileTransfer` |
| `serial_port` | `sysrq`, `pserial` twice, `ukermit`, on one port, each of 6 faults once, a port with a longer name may be in use | 5.3 million | who may share the port, what is left behind |
| `gpsign` | 62 files, a buffer of 4 characters, 1 byte in front, pages of 6 bytes, 0 to 6 bytes of input | 1.7 million | the parser against what the file means, the header, the layout |
| `tagger` | 260 configurations, numbers of 4 bits, 31 words of buffer, strings of 9 characters, kernels of 0 and 2 words | 630 thousand | the tags say what the board is and reach the kernel |

Why the bounds are enough. A Kermit packet interacts with its predecessor and
its successor only, through its number and the bytes left on the line. Three
packets over two numbers (`kermit_faults`) or four over three (`kermit_live`)
make the last packet reuse the first one's number while its replies may still
be around; the real roll-over at 128 is far milder. Two or three tries give
"failed once", "failed and repaired" and "gave up". One fault of each kind in
one behaviour covers the pairs and triples of different faults; `kermit_live`
repeats gaps and damage, the two kinds that add up. In `kermit_ack` a read of
six bytes spans two replies at most; the numbers are those whose characters
coincide with a start, a length or a type character, and those around the sign
and the roll-over. In `kermit_packet` the bytes lie on both sides of every
comparison of the code in both halves of the code page, and two of them are
enough for an escape to stand ahead of any byte. In `ucmd` the string overlaps
itself, which is the interesting case, and seven characters leave room for a
false start before a whole match. In `pserial` an ID of eleven bytes has the
structure of the real one: marker, two bytes looked at, a rest of two possible
lengths, and a rest that is long enough for a lost beginning to leave bytes of it
behind unnoticed, the case `IdDrained` excepts. In `pusb` four accepted bytes are two full reads, three a full and a
short one, five are one more than is accepted, or what a file grows to later;
a counter of three bits is the smallest that holds them all and wraps around.
In `serial_port` three programs are the most that can meet: one that holds the
port, one that was misled by a gap and one that was misled by `lsof`; the second
run of `pserial`, the one that changes the most settings, is the one that finds
what the others left. A buffer of four characters (`gpsign`) ends anywhere in a
token and makes files of an exact multiple of it; the files hold all kinds of
nodes in each other, gaps of blanks and comments of both kinds, values too
large, blank, signed or no numbers, lists beyond ten elements, and two files each without
each one of the characters that hold them together. A page of six bytes is
small enough for a file to fill one, end with one, and go beyond it; that the
layout holds for the real sizes is a theorem. `WORD` is 2^20 there, beyond the
16 bits of the middle width, and 16 in `tagger`, where the halves of a serial number
are to add up to it; `LONG` is beyond `WORD`, as on a host of 64 bits. In `tagger` every optional tag is
present or absent, the serial number wraps to 0 or not, and the command line has
all lengths modulo a word, blanks at its beginning, and one character too many.

Runs that set `CHECK_DEADLOCK FALSE` do so because the modelled system really
stops: `ukermit` waits for ever once a reply is lost, `ucmd` without a match,
`pserial` without an ID; a single packet or stream of replies is read once; in
`serial_port` every program has been run as often as it may.
`kermit_live`, where nothing is lost, `pusb`, where everything has a timeout,
and `gpsign` and `tagger`, which always come to their end, check for deadlock.

### Fairness

`FairSpec` asks for weak fairness of the tool's steps (`SenderStep`,
`ToolStep`): the tool is a running process, and a blocking read returns when
there is something to read. `Kermit` adds weak fairness of the receiver, which
polls its port. In `PUsb` it is weak fairness of `ToolStep \/ ToolFails`: a
transfer returns, in time or not, and which of the two is left open, so that
nothing is assumed of the board. Nothing is assumed of the faults, of the target's output in
`UCmd`, or of the reset in `PSerial`; the failing steps of the other tools
are not fair either. The modules that are not named here have no liveness
properties, and no fairness. The liveness properties name what the code cannot
cope with:
`Terminates` and `SuccessEndsSession` are checked with nothing lost and the
file left alone, `PromptEndsWait` and `IdEndsWait` except a port that goes
away, `IdEndsWait` and `Ends` also a file that changes its length.

### Findings

- `ucmd` misses a match that begins inside a partial match: after a mismatch
  `get_response` goes on with the next character, so "aaab" does not match
  "aab" (src/ucmd.c:97-100), though the usage text says "on match the
  application returns" (133). `FoundAfterSeparator` says when it is found: when
  a character that does not occur in the string precedes it, as the end of line
  precedes the prompt "U-Boot>" of the usage's example.
- `pserial` reports "File download completed" and returns 0 when `send_file`
  failed, for example because the file does not exist (src/pserial.c:295-306).
  `FalseSuccessNeedsFault` says which faults it takes.

What else the models show of the code: a file that becomes shorter while it is
sent makes `ukermit` send empty packets, `pserial` read nothing and `pusb`
transfer nothing, all for ever; `pusb` does so even after the board is gone,
because a failed transfer is recorded as one of 0 bytes. Bytes that a short
read left behind are never discarded, and use up `ukermit`'s tries.

- Two tools on one port are only kept apart by `lsof`, which is run before the
  port is opened, and by nothing at all where it is not installed. A tool whose
  `tcgetattr` failed "restores" zeros, one whose restoring `tcsetattr` failed
  leaves the settings as they are, which the user then has. `pserial`, when it cannot
  write its command, returns without `s_close` (src/pserial.c:288-294), where all
  other exits of the tools call it: the port stays in raw mode with even parity.
  `SettingsRestored` excepts these three failures by name.
- `s_break` (lib/serial_posix.c:416-435) returns nothing on success; `sysrq`
  may take that for a failure, keep the key to itself, and still return 0.
- lcfg takes a short read of a pipe for the end of the file and accepts what it
  has; it refuses a comment to the end of the line, or a name, at the very end of a
  file. A wrong digit in a `\x` escape sets the state "invalid" and the next line
  overwrites it (lib/lcfg/lcfg_static.c:738-741). The eleventh element of a list
  overwrites the dot of its path, and with it the keys of what follows (334).
- A value too large for its variable is stored cut, everything behind it is
  dropped, and `gpsign` makes the image and returns 0 (src/gpsign.c:577).
- A blank value is stored as 0, without the message for a value that is no number:
  `sscanf` returns `EOF` then, and the code looks for 0 (include/compare.h:54-59).
  The comment says "error if it did not match our dictionary" (27); a key that is
  not in it is skipped with `lcfg_status_ok` (45-48), and so is a value that is no number.
- The usage of `gpsign` and its documentation write the load address
  `load_addr` (docs/c3_s6_app_gpsign.dox:46), the code knows `loadaddr` (228): the
  line of the example is ignored.
- The last section of the header is copied with the size of another, which
  is larger (src/gpsign.c:366): the words behind it, which no table entry covers,
  are whatever follows the structure.
- `tagger` takes a serial number of which the halves add up to 2^32 for none,
  while include/tagger.h:169 says "both 0 means does not exist".
  `ChainDescribesBoard` excepts just these boards, and has them lose no other fact.
  Of a command line the buffer for all tags has room for about as many characters as
  a string alone may hold.
- `gpsign` and `tagger` return 0 when the output cannot be opened, and look at no result of `fwrite`.

## 4. Proofs

All theorems hold for every value of the constants that satisfies the module's
named assumption: positive packet sizes, tries and number ranges, budgets in
`Nat`, and in `PSerial` an ID of at least five bytes and less noise than an ID
has bytes (what looks like an ID cannot be told from one), in `PUsb` a file
whose length fits the counter, in `GPSign` half a page of more than twice the
bytes in front, in `ConfigMap` an unsigned long that is a multiple of an unsigned
int, in `Tagger` that the characters of a configuration are not the end of a string.
(`NumbersFit`, that a number stored is within a word, is stated so that the prover
need not add up digits.) TLC evaluates the
assumptions in every run.

**Kermit.** `IInv` is inductive (`Invariance`); like the `IInv` of the other modules it
is proved and no run lists it. `AckedIsStored` alone is not:
that an ACK is never credited to the wrong packet depends on what is on the
line. `TargetInv` says what the target holds by the number it saw last: equal
to `sequence`, the current packet; otherwise its predecessor. `DownInv` and
`UpInv` say that whatever travels carries the current number or the previous
one, the previous ones ahead, and that an ACK with the current number exists
only if the target stored the current packet. The order is what makes the step
`Acked` safe: once an ACK of the current number is read, everything behind it
has that number too, and becomes "previous" in one step. From `IInv` follow
`TypeCorrect`, `AckedStored`, `SuccessWhole`, `OnlyTwoNumbers` and the
refinement `KermitImplementsTransfer`. A line that loses, damages or cuts
replies only thins the stream, which the lemmas `ReadThins`, `DropThins` and
`CorruptThins` turn into one argument. `BalanceInv` counts bytes: each packet
on the line is worth six of them, and no read takes more, hence `NeverStarved`.
`FewCorruptionsTolerated` needs an invariant of its own, `RepairInv`, for the time
in which nothing but damage happened. `InStep`: sender and receiver alternate, so
that there is either one packet on its way or one reply, whole, and nothing else.
`Charged`: every failure the sender has counted, or is about to count when it
judges what is on the line, is paid for by a damage; since no counter is reset
without progress, `RETRY_MAX` of them take as many (`DamageIsRepaired`).

**KermitPacket.** Facts of arithmetic (`EscapeUndone`, `ChecksumSeesBits`: a
flipped bit changes the sum by a power of two below 256, and so the check
character), and `LoopInv` over the escape loop for buffer and content. `DataInv`
says what the escaped bytes are good for: they add up to the sender's `sum` but for
a multiple of 256, which its signed chars are off by and the check character does
not show (`ChecksumPeriodic`), and they decode to the chunk, since `Undo` takes
back what a turn of the loop did. `LineInv`: on the line is the packet as it was sent,
or with one bit changed. Hence `PacketSurvives` and `FlipRefused`, for every
content. Sum and decoding are recursive functions over the bytes; that any function
with the same recursion agrees with them follows from the least number at which
two would differ (`SumsAgree`, `UndoesAgree`), so that the proof can name the
partial sums it needs (`BothAddUp`, `ChangeAddsUp`).

**KermitAck.** Proved in `KermitPacketProofs` as well. `AckInv` says that the bytes still on the line come from tokens
in the order of the replies, each with the current number or the one before, but for
one place where a byte is missing or damaged (`Holds`); each read takes a piece of such
a line and leaves one (`PartHolds`). What is left are four bytes, since
`kermit_ack_type` looks at no more. They are the length, number, type and checksum of
one reply, or fall out of step in one of a few ways (`Layouts`), and then the checksum
fails, the number is another, or a NAK is seen: `Misread1234` to `Misread4562`, one
lemma for each way, named for the places of the four bytes in their replies. With one
of the four damaged it is never an ACK, whatever the damaged byte became
(`Replaced1234` to `Replaced6123`), except when they are in step, where the checksum
notices a flipped bit (`WholeReplaced`). So `RepliesJudged` and `NoAckFromDamage` hold for
every number and for replies of any kinds in any order; the run tries the numbers
that share a character with something else, and two replies.

**UCmd.** `IInv` says that what is matched is what was read last
(`PartialMatch`) and that a separator resets the match exactly (`Fresh`).

**PSerial.** `IInv` keeps pserial and the ROM in step: without noise enough for
an ID, a board that has no power gets no command; the announced size is `size`;
without a failed write what is stored is a prefix, up to `tot_read` while the
port lives. `FalseSuccess` is its last conjunct. `DrainInv` is behind `IdDrained`:
without noise and interruptions what is on the line is the end of one ID
(`EndOfId`: this is a statement about a quiet line only), and while the rest is read no more than a rest is there, and as much
only if the chip was recognised; so what is left behind is what `open` discarded
the beginning of (`IdReadToItsEnd`). In `PSerialImplementsTransfer` the condition is
on the whole behaviour: a step between two clean states is a step of `FileTransfer`
or none, and temporal logic does the rest.

**PUsb.** `IInv` says what the counter is: `size - pos`, plus `WORD` once the
reads went past `size` (`FileInv`); what each state of the ROM says about what
it was told and has (`BoardInv`); and which states of the two go together
(`StepInv`): while data is sent the ROM either waits for the size, or holds
exactly the first `pos` bytes, or has all and `pos` is at least `size`. Hence
the counter is 0 only when `pos = size`, which is why a wrapped counter does no
harm. The step of `SendChunk` needs `PartStored`, that a part of what is read
continues the prefix the ROM holds and stops at the announced size. From `IInv`
follow `SuccessWhole`, `LimitKept` and `PUsbImplementsTransfer`, for every
width of the counter that holds the file's length.

**PortTools.** `PlaceInv`: a program has the port exactly between its `s_open` and
the end of its `s_close`, or of itself. `DoorInv`: whoever knows that nobody has the port is
right, and unless two overlapped only one has it. `SavedInv`: as long as nothing
happened that `SettingsRestored` excepts (two on the port, a kill, or a failure of
one of its three calls), each holder has the user's settings
saved, and they are set before it changed them and after it restored them. For
`BreakEnds` no more is needed than who alone can leave the state it speaks of.
For any number of programs, runs and failures: `OneThrough`, `Restored`,
`BreakEnded`.

**GPSign.** `ImageLayout` for every size of the page, of what stands in front, and
of the file, with `IInv` about the loop: the bytes so far are where the ROM
reads them (`Laid`). The rest is arithmetic of quotients: a byte whose number is a
multiple of half a page begins a new page (`AcrossPadding`), any other
stays in its half (`NoMultiple`, `WithinHalf`). `GuardNotNeeded` shows that the
`i > 8` of the code (src/gpsign.c:630) excludes only what could not be, given that
half a page is more than twice the eight bytes. `TocDescribesHeader` is a statement
about the value of `ch_buffer`, for any values of the configuration: the proof
fills the header section by section (at most four), keeping that the entries so
far lead to the sections so far, that these lie behind the table and beside each
other, and that all else is zero or beyond the last section. `HeaderInv` says that
the header written is the one of variables that do not change any more
(`TocLeadsToSections`).

Of `ImageHoldsConfig` the part behind the parser is proved: `ConfInv` says that
each variable holds the last value of its key among those handled so far, of
which none but the last was too wide, and that behind the options only `-l`'s address
can stand in for one (`ConfigurationReached`). What a value amounts to is said by
the property in terms of its own, by the characters at its places (`Counts`,
`Amount`), and that `ConfigMap` comes to the same is a lemma for any text
(`NothingSeen`, `CountsAndAmount`), so that a blank value is 0 on both sides because
both say so of the blanks. What the parser yields is a premise of
`ConfigurationWhole`: as long as `AcceptedAsWritten` holds, so does
`ImageHoldsConfig`.

Of the parser itself three things are proved, for any files and any size of the
buffer. `BufferInv` says that the buffer holds a piece of the file, and less than a buffer
full only where a regular file ends. So no border of the buffer, wherever it falls, loses
or doubles a character (`EveryCharacterInOrder`, an action property over the scanner's
place in the file). `DirectoryInv` follows the first
failed `read`: the automaton meets a NUL and ends in an error, before any token
(`DirectoryRefused`). The second is about
keys. `TokenInv` says that a name is made of characters of an identifier, of which the
dot is none, so that a path cut at its last dot is what it was before its last name
(`PopUndoesPush`); hence each frame of the stack has a path that leads to the next
one by one name or number (`Leads`), and the current path is that of the frame on top
(`KeysFollowNesting`). This holds as long as no list has more than ten elements: for
the eleventh the code writes over the dot (the hazard at lcfg_static.c:334), and the
path is the wrong one. The third is about values. `Spells` says that a piece of the
file can be cut so that each part is one character of a string or the escape for it;
`ValuesInv` follows the string that is being collected (`Collecting`), the token read
last, the token that waits while the next one is read, and the values, which lie in
that order in the file (`ValuesStandInFile`). The premise of all
these on the constants is that the text of a file is a sequence of strings
(`ScannerAssumption`).

These three say that what the parser finds is there, not that it misses nothing and
accepts what it should. For that `ConfigGrammar` says what a text says, apart from how it
is read: a reading is a sequence of lexemes that covers the text and a sequence of
documents, each the one before it with what the lexeme adds; there is no buffer, no
automaton, no token read ahead, and a path for every level instead of one that is cut.
Between a document and the parser's stack, path and values stand `Shape` and `Keyed`,
and `DealStep` says for every kind of token that the parser does to the one what the lexeme
does to the other, or takes the token for an error just where the grammar has none.
Both directions are proved, from one invariant each.

- *Nothing is missed* (`SaidIsRead`). `ReadingInv`, for any reading of the text without a
  list of more than ten elements: the scanner stands between two of its lexemes or within
  one (`Inside`; `Through` takes it across each character), the parser has the document
  after the lexemes dealt with, and one token may wait (`Pending`). So no such file is
  refused, all of its values are found, and of a pipe the first ones (`ValuesGrow`).
- *Nothing else is accepted* (`AcceptedIsReadable`). `SoundInv`: what has been read is
  covered by lexemes that the grammar allows, and what is behind them is the beginning of
  one (`Begun`; `Reads` is the step over a character). When the parser ends in success
  that is a reading of the whole file. It holds for lists of any length.

`AcceptedAsWritten` speaks of the labels `means` and `wrong` of the files, so
`WrittenIsAccepted` has a premise, `Labelled`: a file without fault says by
`ConfigGrammar` what it means, and one that is damaged or unended has no reading. Of the
files of the run TLC evaluates the first half (`FilesSayTheirMeaning` in `MCGPSign`:
`ConfigReading` makes the reading, and `ConfigGrammar` judges it), which also compares
the two references, `ConfigText` and `ConfigGrammar`. The second half follows for them
from the run and `SaidIsRead`: none of these files has a long list, and each is refused.
With `ConfigurationWhole` the premise gives `ImageHoldsConfig` as well
(`ImageAsWritten`), from the characters of the file to the words of the image's header.

**Tagger, StartLinux.** `ChainDescribesBoard` rests on two facts about each setup
function (`Tells`, `TagOK`): what it writes is no longer than the size in its header,
which is not `ATAG_NONE`'s and at least 3, and whatever lies behind its words, a
kernel takes from it the fact it is to tell; for the command line this is
`TextFound`, that packing a string into words, its end included, can be undone
(`PackedFacts`), and that its size is just right. `SetupFacts` says that a function
leaves what is in front of it alone, so the buffer at the end holds every tag where
it was written (`AllKept`), and `StageWalked` takes the walk over one function
at a time. `ChainInv` says that the buffer is that of the board (`TagsTellBoard`).
`KernelFindsTags` needs `OutInv`: as long as the disk is not full and no file was
cut, the output is the start-up code with its two words patched, the tags, and
the kernel, up to the word that is being copied; and `BootInv`: `r0` and `r1` say
how far the copy is, which ends when `r1` is 8 because it began with the bytes of
the tags and 8 more (`KernelStartsWithTags`).

Only model-checked: everything under fairness (`Terminates`,
`SuccessEndsSession`, `PromptEndsWait`, `IdEndsWait`, `Ends`), which is beyond the
prover; and that the labels of the run's files are right (`Labelled`).

## 5. What is left out

Option parsing, messages, the progress line (`f_status`), the printing of the
ASIC ID, and the debug builds are left out: no property is about them.
`k_send_data_packet_large` is compiled out by default. A failing `fread` is the
same as a short one, as `f_read` does not tell them apart.

Of lcfg, line and column numbers and the growing of strings and arrays are left
out, and `lcfg_value_get` and the tree of `lcfgx_tree_new`, which no tool uses; a
`read` that fails on a file after its first part came in is left out too. The letters
of the model are lower case: `isalpha` and `isxdigit` treat the others alike. What the C library makes of a number is read from the way GNU's does it: a
"0x" without digits is 0, and a number beyond an unsigned long is the greatest one;
the blanks `\v` and `\f` are left out. Of the
libraries, `f_seek`, `s_putc` and `s_read_remaining` have no caller. The register
writes at the beginning of `sty-omap3.S` (watchdog, caches, UART) have no state
worth exploring. The Windows files offer the same interface over another system
and are not modelled. In `SerialPort` baud rate, data and stop bits are the same
for all programs and valid, and a port that goes away is in the tools' modules.

## 6. Plan

In this order, the most important first; all is done, the proofs as far as
section 4 says.

1. `Kermit` with `FileTransfer`, `KermitReply`: transfer, refinement, liveness.
2. `KermitBytes`, `KermitAck`, `KermitPacket`: the abstraction of 1 justified.
3. `UCmd`.
4. `PSerial` with its refinement to `FileTransfer` when nothing fails unnoticed.
5. `PUsb` with its refinement to `FileTransfer`.
6. `SerialPort`, `PortTools` (run `serial_port`).
7. `LcfgScanner`, `Lcfg`, `ConfigMap`, `GPSign` (run `gpsign`), against the
   reference `ConfigText`.
8. `Tagger`, `StartLinux` (run `tagger`).
9. Proofs of every safety property, with `ConfigGrammar` as the reference for the
   parser (section 4).
