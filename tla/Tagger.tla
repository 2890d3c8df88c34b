------------------------------- MODULE Tagger -------------------------------
(***************************************************************************)
(* tagger (src/src/tagger.c): puts in front of a kernel image the start-up *)
(* code of sty-omap3.S and a list of tags that describes the board to the  *)
(* kernel, from a configuration file. The file is taken as read, by the    *)
(* pairs that lcfg_parse finds in it (see Lcfg); ConfigMap puts them into  *)
(* the variables of struct board.                                          *)
(*                                                                         *)
(* All is counted in words of four bytes, the kernel image too. A word     *)
(* holds a number, or up to four characters of the command line.           *)
(***************************************************************************)
EXTENDS ConfigMap, Integers, Sequences

CONSTANTS
  Characters,    \* of a configuration file
  Configs,       \* what a configuration file may hold: sequences of pairs
  Code,          \* the words of the start-up code up to its data
  ImageLengths,  \* lengths of the kernel image
  BUFFER,        \* words of the buffer for the tags (256 in the code)
  STRING_SIZE    \* characters of a string of struct board (1024 in the code)

NUL == EndOfString

ASSUME TaggerAssumption ==
  /\ Configs \subseteq Seq([key : STRING, value : Seq(Characters)])
  /\ NUL \notin Characters
  /\ Code \in Seq([num : Int, chars : Seq(Characters)])
  /\ ImageLengths \subseteq Nat
  /\ BUFFER \in Nat \ {0} /\ STRING_SIZE \in Nat \ {0}

VARIABLES
  pc,       \* where main stands; "undefined" behind a write out of bounds
  exit,     \* the exit status: "running", "ok" (0) or "failed"
  config,   \* what the configuration file holds
  visited,  \* how many of the pairs have been handled
  myboard,  \* struct board, by the keys of its variables
  buffer,   \* the tags
  tlen,     \* words of the buffer in use
  styHas, imageHas,   \* how many words the two input files have now
  len,      \* the length of the one being copied when it was looked up
  i,        \* the copy loops
  ch,       \* the last word read of the kernel image
  out,      \* the output file
  full      \* the disk is full

taggerVars == <<pc, exit, config, visited, myboard, buffer, tlen, styHas, imageHas,
                len, i, ch, out, full>>

-----------------------------------------------------------------------------
(* Words.                                                                  *)

Num(n) == [num |-> n, chars |-> <<>>]
Chars(s) == [num |-> 0, chars |-> s]

\* What the buffer, which nobody clears, holds at first.
Garbage == Num(-1)

\* The magic numbers tagger looks for in the start-up code, and the words of
\* the kernel image by their number: none of them is a number of a board.
MAGIC_MACHID == Num(-2)
MAGIC_INTERIMSIZE == Num(-3)
Kernel(n) == Num(-10 - n)
Unread == Num(-4)

\* The start-up code ends with the words mach_id, interim_data_size, sty_end.
Sty == Code \o <<MAGIC_MACHID, MAGIC_INTERIMSIZE, Num(0)>>

variable_map ==
  [key \in {"mach_id", "board_rev", "ram0.start", "ram0.size", "ram1.start", "ram1.size",
            "fb.base", "fb.size", "serial.high", "serial.low", "bootargs", "sty_file"} |->
     IF key \in {"bootargs", "sty_file"} THEN "TYPE_S" ELSE "TYPE_U32"]

\* What sscanf stores is an unsigned int, whatever the file says (see
\* Converted).
ASSUME NumbersFit ==
  \A c \in Configs : \A n \in DOMAIN c :
    \/ Ignored(variable_map, c[n]) \/ variable_map[c[n].key] = "TYPE_S"
    \/ Stored(variable_map, c[n]) \in 0 .. WORD - 1

NoBoard == [key \in DOMAIN variable_map |-> IF variable_map[key] = "TYPE_S" THEN <<>> ELSE 0]

-----------------------------------------------------------------------------
(* The tags: by how many words params moves, which is the size in the      *)
(* header of all but the last, and the words that are written, which are   *)
(* less for some. A tag that the board does not need is left out.          *)

ATAG_NONE == 0
ATAG_CORE == 1
ATAG_MEM == 2
ATAG_SERIAL == 6
ATAG_REVISION == 7
ATAG_VIDEOLFB == 8
ATAG_CMDLINE == 9

Tag(tag, size, content) == [size |-> size, words |-> <<Num(size), Num(tag)>> \o content]

StartTag == <<Tag(ATAG_CORE, 5, <<Num(0), Num(0), Num(0)>>)>>

SerialTag(b) ==
  IF (b["serial.high"] + b["serial.low"]) % WORD = 0 THEN <<>>
  ELSE <<Tag(ATAG_SERIAL, 4, <<Num(b["serial.low"]), Num(b["serial.high"])>>)>>

RevisionTag(b) ==
  IF b["board_rev"] = 0 THEN <<>> ELSE <<Tag(ATAG_REVISION, 3, <<Num(b["board_rev"])>>)>>

MemoryTag(start, size) ==
  IF size = 0 THEN <<>> ELSE <<Tag(ATAG_MEM, 4, <<Num(size), Num(start)>>)>>

IsBlank(c) == c = " "

\* The command line without the blanks at its beginning.
Eaten(s) ==
  LET blanks == {n \in 0 .. Len(s) : \A m \in 1 .. n : IsBlank(s[m])}
  IN SubSeq(s, 1 + CHOOSE n \in blanks : \A m \in blanks : m <= n, Len(s))

\* The words strcpy writes.
Packed(s) ==
  LET bytes == Append(s, NUL)
  IN [k \in 1 .. (Len(bytes) + 3) \div 4 |->
        Chars(SubSeq(bytes, 4 * k - 3, IF 4 * k < Len(bytes) THEN 4 * k ELSE Len(bytes)))]

\* A mutant: no room for the end of the string.
CmdlineSizeShort(n) == (8 + n) \div 4

CmdlineSize(n) == (8 + n + 4) \div 4

CommandlineTag(b) ==
  LET p == Eaten(b["bootargs"])
  IN IF p = <<>> THEN <<>> ELSE <<Tag(ATAG_CMDLINE, CmdlineSize(Len(p)), Packed(p))>>

\* Of the frame buffer only its place is said; the fields before and behind
\* stay as they are.
VideolfbTag(b) ==
  IF b["fb.size"] = 0 THEN <<>>
  ELSE <<Tag(ATAG_VIDEOLFB, 8, <<Garbage, Garbage, Num(b["fb.base"]), Num(b["fb.size"])>>)>>

EndTag == <<[size |-> 2, words |-> <<Num(0), Num(ATAG_NONE)>>]>>

WriteAt(buf, at, words) ==
  [w \in DOMAIN buf |-> IF w \in at + 1 .. at + Len(words) THEN words[w - at] ELSE buf[w]]

\* A setup function writes its tag at params and moves params behind it
\* (tag_next).
Setup(params, tag) ==
  IF tag = <<>> THEN params
  ELSE [buffer |-> WriteAt(params.buffer, params.at, tag[1].words),
        at |-> params.at + tag[1].size]

Uncleared == [buffer |-> [w \in 1 .. BUFFER |-> Garbage], at |-> 0]

\* The setup functions in the order of the code.
generate_tag(b) ==
  LET core == Setup(Uncleared, StartTag)
      serial == Setup(core, SerialTag(b))
      revision == Setup(serial, RevisionTag(b))
      ram0 == Setup(revision, MemoryTag(b["ram0.start"], b["ram0.size"]))
      ram1 == Setup(ram0, MemoryTag(b["ram1.start"], b["ram1.size"]))
      cmdline == Setup(ram1, CommandlineTag(b))
      videolfb == Setup(cmdline, VideolfbTag(b))
  IN Setup(videolfb, EndTag)

-----------------------------------------------------------------------------
TaggerInit ==
  /\ pc = "config" /\ exit = "running"
  /\ config \in Configs /\ visited = 0 /\ myboard = NoBoard
  /\ buffer = <<>> /\ tlen = 0
  /\ styHas = Len(Sty) /\ imageHas \in ImageLengths
  /\ len = 0 /\ i = 0 /\ ch = Unread /\ out = <<>> /\ full = FALSE

outputVars == <<buffer, tlen, len, i, ch, out>>
fileVars == <<styHas, imageHas, full>>

Return(code) == pc' = "exited" /\ exit' = code

\* lcfg_new or lcfg_parse fails, or there is an option that nobody knows.
ParseFails ==
  /\ pc = "config"
  /\ Return("failed")
  /\ UNCHANGED <<config, visited, myboard, outputVars, fileVars>>

\* lcfg_accept: the pairs one after the other. Both kinds of variables are
\* wide enough for every number. strcpy does not look for the room a string
\* has.
Visit ==
  /\ pc = "config" /\ visited < Len(config)
  /\ LET entry == config[visited + 1]
     IN /\ myboard' = Handle(variable_map, myboard, entry)
        /\ pc' = IF /\ ~Ignored(variable_map, entry)
                    /\ variable_map[entry.key] = "TYPE_S"
                    /\ Len(CString(entry.value)) >= STRING_SIZE
                 THEN "undefined" ELSE pc
  /\ visited' = visited + 1
  /\ UNCHANGED <<exit, config, outputVars, fileVars>>

\* Without -c the board is left as it is, and the start-up code has no name.
NoMorePairs ==
  /\ pc = "config" /\ visited \in {0, Len(config)}
  /\ pc' = "open"
  /\ UNCHANGED <<exit, config, visited, myboard, outputVars, fileVars>>

\* When the output cannot be opened the status is 0.
OpenFilesFails ==
  /\ pc = "open"
  /\ Return("failed") \/ (myboard["sty_file"] # <<>> /\ Return("ok"))
  /\ UNCHANGED <<config, visited, myboard, outputVars, fileVars>>

\* The files are opened, the tags made, the start-up code looked up. No tag
\* is longer than the place it takes, so that all of them are within the
\* buffer if the last one is.
Generate ==
  /\ pc = "open" /\ myboard["sty_file"] # <<>>
  /\ LET params == generate_tag(myboard)
     IN IF params.at <= BUFFER
        THEN pc' = "sty" /\ buffer' = params.buffer /\ tlen' = params.at
        ELSE pc' = "undefined" /\ UNCHANGED <<buffer, tlen>>
  /\ len' = styHas /\ i' = 0
  /\ UNCHANGED <<exit, config, visited, myboard, ch, out, fileVars>>

\* fwrite, of which the result is never looked at.
Writes(words) == out' = IF full THEN out ELSE out \o words

Patched(word) ==
  CASE word = MAGIC_MACHID -> Num(myboard["mach_id"])
    [] word = MAGIC_INTERIMSIZE -> Num(4 * tlen)
    [] OTHER -> word

\* Where the file has become shorter a zero is written.
CopySty ==
  /\ pc = "sty" /\ i < len
  /\ Writes(<<Patched(IF i < styHas THEN Sty[i + 1] ELSE Num(0))>>)
  /\ i' = i + 1
  /\ UNCHANGED <<pc, exit, config, visited, myboard, buffer, tlen, len, ch, fileVars>>

WriteTags ==
  /\ pc = "sty" /\ i = len
  /\ Writes(SubSeq(buffer, 1, tlen))
  /\ len' = imageHas /\ i' = 0
  /\ pc' = "image"
  /\ UNCHANGED <<exit, config, visited, myboard, buffer, tlen, ch, fileVars>>

\* Where the file has become shorter the byte before is written once more.
CopyImage ==
  /\ pc = "image" /\ i < len
  /\ ch' = IF i < imageHas THEN Kernel(i + 1) ELSE ch
  /\ Writes(<<ch'>>)
  /\ i' = i + 1
  /\ UNCHANGED <<pc, exit, config, visited, myboard, buffer, tlen, len, fileVars>>

Close ==
  /\ pc = "image" /\ i = len
  /\ Return("ok")
  /\ UNCHANGED <<config, visited, myboard, outputVars, fileVars>>

\* What others do: an input file is cut, the disk fills up.
CutFile ==
  /\ pc \in {"sty", "image"}
  /\ \/ styHas' \in 0 .. styHas - 1 /\ UNCHANGED imageHas
     \/ imageHas' \in 0 .. imageHas - 1 /\ UNCHANGED styHas
  /\ UNCHANGED <<pc, exit, config, visited, myboard, outputVars, full>>

DiskFull ==
  /\ pc \in {"sty", "image"} /\ ~full
  /\ full' = TRUE
  /\ UNCHANGED <<pc, exit, config, visited, myboard, outputVars, styHas, imageHas>>

TaggerNext ==
  \/ ParseFails \/ Visit \/ NoMorePairs \/ OpenFilesFails
  \/ Generate \/ CopySty \/ WriteTags \/ CopyImage \/ Close
  \/ CutFile \/ DiskFull
=============================================================================
