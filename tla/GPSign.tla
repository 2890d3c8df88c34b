------------------------------- MODULE GPSign -------------------------------
(***************************************************************************)
(* gpsign (src/src/gpsign.c): reads a configuration file, by Lcfg and      *)
(* ConfigMap, and makes of a file an image for the boot ROM: an optional   *)
(* configuration header of 512 bytes, the length and the load address, and *)
(* the file, with -4 spread over pages of 4 KiB of which the ROM reads the *)
(* first half.                                                             *)
(*                                                                         *)
(* Of the hundred settings each section keeps one of every width; a        *)
(* section has a name of one letter: s(ettings), r(am), f(lash), m(mcsd).  *)
(* The header is kept by words of four bytes.                              *)
(***************************************************************************)
EXTENDS Lcfg, ConfigMap

CONSTANTS
  LoadAddresses,   \* what -l may be given
  InputLengths,    \* lengths of the input file
  INFO,            \* bytes of the length and the address (8 in the code)
  PAGE_PAD_SIZE    \* half a page (2048 in the code)

NotGiven == -1     \* 0xFFFFFFFF in the code

ASSUME GPSignAssumption ==
  /\ LoadAddresses \subseteq Nat /\ InputLengths \subseteq Nat
  /\ \A f \in Files : \A n \in DOMAIN f.means : f.means[n].value \in Seq(STRING)
  /\ INFO \in Nat \ {0}
  /\ PAGE_PAD_SIZE \in Nat /\ PAGE_PAD_SIZE > 2 * INFO

VARIABLES
  pc,            \* where main stands
  exit,          \* the exit status: "running", "ok" (0) or "failed"
  conf,          \* loadaddr and the variables of the sections
  visited,       \* how many of the values have been handled
  page_size_4k,  \* -4 was given
  inLen,         \* the length of the input file, now
  len,           \* and when it was looked up
  header,        \* the configuration header in the image, <<>> if none
  body,          \* the rest of the image
  i,             \* the copy loop
  ch,            \* the last byte read
  full           \* the disk is full

imageVars == <<page_size_4k, inLen, len, header, body, i, ch, full>>
vars == <<lcfgVars, pc, exit, conf, visited, imageVars>>

-----------------------------------------------------------------------------
(* The variables and their keys.                                           *)

Sections == <<"s", "r", "f", "m">>
LoadAddr == <<"l">>
Key(section, field) == <<section, Dot, field>>

\* variable_map: v is valid, k section_key, h a setting of 16 bits, of which
\* the first section has none, w one of 32. The 16 bits of the flags of the
\* ram section, g, are entered as 32: a larger value runs on into the 16
\* bits behind them, so that they are one variable here.
variable_map ==
  [key \in {LoadAddr, Key("r", "g")}
             \union {Key(s, f) : s \in Range(Sections), f \in {"v", "k", "w"}}
             \union {Key(s, "h") : s \in Range(Tail(Sections))} |->
     IF key = LoadAddr THEN "TYPE_U32"
     ELSE CASE key[3] = "v" -> "TYPE_U8"
            [] key[3] = "h" -> "TYPE_U16"
            [] OTHER -> "TYPE_U32"]

DefaultAddr == 4
Defaults == [key \in DOMAIN variable_map |-> IF key = LoadAddr THEN DefaultAddr ELSE 0]

-----------------------------------------------------------------------------
(* The configuration header: a table of contents with entries of eight     *)
(* words and the sections at fixed places.                                 *)

HeaderWords == 128
TocWords == 8
Start == [s |-> 40, r |-> 60, f |-> 83, m |-> 98]
Words == [s |-> 20, r |-> 23, f |-> 15, m |-> 4]

\* What fillup_ch copies of each section: of the last one as much as of the
\* one before it, which is more than there is.
Copied == [Words EXCEPT !.m = Words.f]

Word(src, at, val) == [src |-> src, at |-> at, val |-> val]
Zeroed == Word("zero", 0, 0)
TocEnd == Word("end", 0, 0)

\* memcpy of words, a function from 0, to the place at.
Put(buffer, at, words) ==
  [w \in DOMAIN buffer |-> IF w - at \in DOMAIN words THEN words[w - at] ELSE buffer[w]]

\* A mutant: the entry says how much was copied.
TocEntryCopied(s) ==
  [w \in 0 .. TocWords - 1 |->
     Word("toc", w, CASE w = 0 -> Start[s] [] w = 1 -> Copied[s] [] OTHER -> 0)]

TocEntry(s) ==
  [w \in 0 .. TocWords - 1 |->
     Word("toc", w, CASE w = 0 -> Start[s] [] w = 1 -> Words[s] [] OTHER -> 0)]

SectionWord(s, w) == IF w < Words[s] THEN Word(s, w, 0) ELSE Word("beyond", w, 0)

AddSection(buffer, toc_idx, s) ==
  Put(Put(buffer, toc_idx, TocEntry(s)),
      Start[s], [w \in 0 .. Copied[s] - 1 |-> SectionWord(s, w)])

Valid(s) == conf[Key(s, "v")] # 0

\* The sections that are valid, in the order of fillup_ch.
Listed(s) == IF Valid(s) THEN <<s>> ELSE <<>>
Present == Listed("s") \o Listed("r") \o Listed("f") \o Listed("m")

\* The buffer and the place of the next entry.
AddIfValid(ch_so_far, s) ==
  IF Valid(s)
  THEN [buffer |-> AddSection(ch_so_far.buffer, ch_so_far.toc_idx, s),
        toc_idx |-> ch_so_far.toc_idx + TocWords]
  ELSE ch_so_far

Cleared == [buffer |-> [w \in 0 .. HeaderWords - 1 |-> Zeroed], toc_idx |-> 0]

\* fillup_ch, if the first section is valid: the sections one after the
\* other, and an entry of ones behind the last one's.
ch_buffer ==
  LET filled == AddIfValid(AddIfValid(AddIfValid(AddIfValid(Cleared, "s"), "r"), "f"), "m")
  IN Put(filled.buffer, filled.toc_idx, [w \in 0 .. TocWords - 1 |-> TocEnd])

-----------------------------------------------------------------------------
Init ==
  /\ LcfgInit
  /\ pc = "config" /\ exit = "running"
  /\ conf = Defaults /\ visited = 0
  /\ page_size_4k = FALSE /\ inLen = 0 /\ len = 0
  /\ header = <<>> /\ body = <<>> /\ i = 0 /\ ch = 0 /\ full = FALSE

Return(code) == pc' = "exited" /\ exit' = code

Parse ==
  /\ pc = "config" /\ phase # "done"
  /\ LcfgNext
  /\ UNCHANGED <<pc, exit, conf, visited, imageVars>>

ParseOk ==
  /\ pc = "config" /\ phase = "done" /\ status = "ok"
  /\ pc' = "visit"
  /\ UNCHANGED <<lcfgVars, exit, conf, visited, imageVars>>

ParseFails ==
  /\ pc = "config" /\ phase = "done" /\ status = "error"
  /\ Return("failed")
  /\ UNCHANGED <<lcfgVars, conf, visited, imageVars>>

\* lcfg_parser_accept calls compare_eventhandler until that says no. What
\* lcfg_accept returns is not looked at.
Visit ==
  /\ pc = "visit" /\ visited < Len(values)
  /\ LET entry == values[visited + 1]
     IN /\ conf' = Handle(variable_map, conf, entry)
        /\ pc' = IF Refused(variable_map, entry) THEN "options" ELSE "visit"
  /\ visited' = visited + 1
  /\ UNCHANGED <<lcfgVars, exit, imageVars>>

\* All values were handled, or there is no configuration file at all.
NoMoreValues ==
  /\ \/ pc = "visit" /\ visited = Len(values)
     \/ pc = "config" /\ phase = "open"
  /\ pc' = "options"
  /\ UNCHANGED <<lcfgVars, exit, conf, visited, imageVars>>

\* -l goes before the configuration.
CommandLine ==
  /\ pc = "options"
  /\ \E address \in LoadAddresses \union {NotGiven} :
       conf' = IF address # NotGiven THEN [conf EXCEPT ![LoadAddr] = address] ELSE conf
  /\ page_size_4k' \in BOOLEAN
  /\ pc' = "open"
  /\ UNCHANGED <<lcfgVars, exit, visited, inLen, len, header, body, i, ch, full>>

OpenFiles ==
  /\ pc = "open"
  /\ inLen' \in InputLengths /\ len' = inLen'
  /\ pc' = "header"
  /\ UNCHANGED <<lcfgVars, exit, conf, visited, page_size_4k, header, body, i, ch, full>>

\* When the output cannot be opened the status is 0.
OpenFilesFails ==
  /\ pc = "open"
  /\ Return("failed") \/ Return("ok")
  /\ UNCHANGED <<lcfgVars, conf, visited, imageVars>>

\* The bytes of the image: those of the length and the address, those of the
\* padding, and the ones of the file, by their number.
Info == 0
Padding == -1
Unread == -2

\* fwrite, of which the result is never looked at.
Writes(bytes) == body' = IF full THEN body ELSE body \o bytes

WriteHeader ==
  /\ pc = "header"
  /\ header' = IF Valid("s") /\ ~full THEN ch_buffer ELSE <<>>
  /\ Writes([n \in 1 .. INFO |-> Info])
  /\ ch' = Unread /\ i' = 0
  /\ pc' = "copy"
  /\ UNCHANGED <<lcfgVars, exit, conf, visited, page_size_4k, inLen, len, full>>

\* A mutant: the length and the address in front are not counted.
PadNowShort == page_size_4k /\ i > INFO /\ i % PAGE_PAD_SIZE = 0

PadNow == page_size_4k /\ i > INFO /\ (i + INFO) % PAGE_PAD_SIZE = 0

\* Where the file has become shorter the byte before is written once more.
CopyByte ==
  /\ pc = "copy" /\ i < len
  /\ ch' = IF i < inLen THEN i + 1 ELSE ch
  /\ Writes((IF PadNow THEN [n \in 1 .. PAGE_PAD_SIZE |-> Padding] ELSE <<>>) \o <<ch'>>)
  /\ i' = i + 1
  /\ UNCHANGED <<lcfgVars, pc, exit, conf, visited, page_size_4k, inLen, len, header, full>>

Close ==
  /\ pc = "copy" /\ i = len
  /\ Return("ok")
  /\ UNCHANGED <<lcfgVars, conf, visited, imageVars>>

\* What others do: the input file is cut, the disk fills up.
CutInput ==
  /\ pc = "copy" /\ inLen = len
  /\ inLen' \in 0 .. len - 1
  /\ UNCHANGED <<lcfgVars, pc, exit, conf, visited, page_size_4k, len, header, body, i, ch,
                 full>>

DiskFull ==
  /\ pc \in {"header", "copy"} /\ ~full
  /\ full' = TRUE
  /\ UNCHANGED <<lcfgVars, pc, exit, conf, visited, page_size_4k, inLen, len, header, body,
                 i, ch>>

Terminated == pc = "exited" /\ UNCHANGED vars

Next ==
  \/ Parse \/ ParseOk \/ ParseFails \/ Visit \/ NoMoreValues
  \/ CommandLine \/ OpenFiles \/ OpenFilesFails
  \/ WriteHeader \/ CopyByte \/ Close
  \/ CutInput \/ DiskFull \/ Terminated

Spec == Init /\ [][Next]_vars
-----------------------------------------------------------------------------
(* What must hold. A file also says what it means, a sequence              *)
(* of keys and values, and what is wrong with it (see ConfigText).         *)

Means == file.means
Wrong == file.wrong
Opened == eof \/ size # 0

\* The scanner's buffer, its automaton, the parser's stack and the path that
\* is cut and extended at every token yield exactly the values of the file
\* with exactly their keys, wherever the borders of the buffer fall; a file
\* that lost a character is refused, one without fault is not. Of a pipe
\* that delivered less than was asked for the first values may be all, but
\* none of them is wrong. (lcfg_static.c:483-1140)
AcceptedAsWritten ==
  /\ status = "ok" => source # "directory"
  /\ status = "ok" /\ source = "regular" =>
       /\ Wrong \notin {"damaged", "unended"}
       /\ Wrong = "nothing" => values = Means
  /\ status = "ok" /\ source = "stream" /\ Wrong = "nothing" => IsPrefix(values, Means)
  /\ status = "error" /\ source = "regular" /\ Opened => Wrong # "nothing"

\* What the n-th value of the file is to its variable: a number, zero if there
\* is nothing to be seen of it, or else nothing at all.
Unseen(value) ==
  \A k \in DOMAIN value : value[k] \in Space \/ \E j \in 1 .. k : value[j] = EndOfString
Counts(n) == Unseen(Means[n].value) \/ ScanResult(Means[n].value) = 1
Amount(n) == IF Unseen(Means[n].value) THEN 0 ELSE Scanned(Means[n].value)

\* The place of the first value that its variable cannot hold, at which the
\* configuration is abandoned though gpsign goes on.
TooWide ==
  {n \in DOMAIN Means :
     /\ Means[n].key \in DOMAIN variable_map /\ Counts(n)
     /\ Overflows(variable_map[Means[n].key], Amount(n))}
Reached == IF TooWide = {} THEN DOMAIN Means ELSE 1 .. Min(TooWide)

Assigned(key) == {n \in Reached : Means[n].key = key /\ Counts(n)}

\* What a key is worth at the end: its last value that counts.
Configured(key) ==
  IF Assigned(key) = {} THEN Defaults[key]
  ELSE Cut(variable_map[key], Amount(Max(Assigned(key))))

\* gpsign makes no image with half a configuration: whatever it writes, each
\* variable has the value that the file gives it last, up to the first value
\* that is too wide, or the one of the command line; after an error of the
\* parser it writes nothing. What is no number leaves the variable alone, but
\* a value that is empty or blank makes it zero, since compare.h:57 takes only
\* 0 of sscanf for a failure and not EOF. (gpsign.c:567-601, compare.h:30-91)
ImageHoldsConfig ==
  /\ pc \in {"open", "header", "copy"} /\ Opened => status = "ok"
  /\ pc \in {"open", "header", "copy"} /\ Opened /\ source = "regular" /\ Wrong = "nothing" =>
       \A key \in DOMAIN conf :
         \/ conf[key] = Configured(key)
         \/ key = LoadAddr /\ conf[key] \in LoadAddresses

\* The table of contents as the boot ROM walks it, up to the entry of ones.
Entry(n) == header[n * TocWords]
Walked == CHOOSE n \in 0 .. Len(Sections) :
            /\ Entry(n) = TocEnd
            /\ \A m \in 0 .. n - 1 : Entry(m) # TocEnd
Region(n) == Entry(n).val .. Entry(n).val + header[n * TocWords + 1].val - 1

\* The walk meets just the sections that are valid, and finds behind each
\* entry that section whole: neither the table nor another section lies over
\* it, and no two regions meet. Only the bytes read beyond the last section
\* are not zero. (fillup_ch, gpsign.c:322-374)
TocDescribesHeader ==
  header # <<>> =>
    /\ Valid("s")
    /\ \E n \in 0 .. Len(Sections) : Entry(n) = TocEnd
    /\ Walked = Len(Present)
    /\ \A n \in 0 .. Walked - 1 :
         /\ Region(n) # {} /\ Region(n) \subseteq (Walked + 1) * TocWords .. HeaderWords - 1
         /\ \A w \in Region(n) : header[w] = Word(Present[n + 1], w - Entry(n).val, 0)
         /\ \A m \in 0 .. n - 1 : Region(m) \intersect Region(n) = {}
    /\ \A w \in (Walked + 1) * TocWords .. HeaderWords - 1 :
         w \notin UNION {Region(n) : n \in 0 .. Walked - 1} => header[w].src \in {"zero", "beyond"}

Plain == [n \in 1 .. INFO |-> Info] \o [n \in 1 .. len |-> n]

\* What the boot ROM reads of an image of gpsign: the length, the address and
\* the file, byte by byte; with -4 it reads of each page the first half, and
\* the other is padding, also when the file ends with a half. With a header
\* in front all pages are 512 bytes off, so that -4 is claimed without one
\* only. (gpsign.c:622-637)
ImageLayout ==
  pc = "exited" /\ body # <<>> /\ ~full /\ inLen = len =>
    IF page_size_4k
    THEN header = <<>> =>
           /\ Len(body) = Len(Plain) + PAGE_PAD_SIZE * ((Len(Plain) - 1) \div PAGE_PAD_SIZE)
           /\ \A n \in DOMAIN body :
                LET page == (n - 1) \div (2 * PAGE_PAD_SIZE)
                    at == (n - 1) % (2 * PAGE_PAD_SIZE)
                IN body[n] = IF at < PAGE_PAD_SIZE
                             THEN Plain[page * PAGE_PAD_SIZE + at + 1] ELSE Padding
    ELSE body = Plain
=============================================================================
