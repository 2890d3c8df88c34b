----------------------------- MODULE StartLinux -----------------------------
(***************************************************************************)
(* What becomes of an image of tagger on the board: the end of the         *)
(* start-up code (start_linux in src/src/asm/sty-omap3.S) copies the tags  *)
(* to the beginning of the memory and jumps to the kernel behind them. The *)
(* image is loaded somewhere else, so that the copy does not lie over it.  *)
(* Addresses count words: of the image from 0, of the tags' place from 0.  *)
(***************************************************************************)
EXTENDS Tagger

VARIABLES
  step,        \* of the start-up code: "off", "copy", "jump" or "kernel"
  ram,         \* the words at INTERIM_DATA_ADDRESS and behind
  r0, r1, r3   \* the registers

linuxVars == <<step, ram, r0, r1, r3>>
vars == <<taggerVars, linuxVars>>

Init ==
  /\ TaggerInit
  /\ step = "off" /\ ram = <<>> /\ r0 = 0 /\ r1 = 0 /\ r3 = 0

\* The last words of the start-up code, where the image has them.
mach_id == Len(Code)
interim_data_size == Len(Code) + 1
sty_end == Len(Code) + 2
Load(address) == out[address + 1]

RunTagger == TaggerNext /\ UNCHANGED linuxVars

\* Someone loads the image and jumps to it, if it is whole and the start-up
\* code in it too.
Boot ==
  /\ step = "off" /\ pc = "exited" /\ out # <<>> /\ ~full /\ styHas = Len(Sty)
  /\ step' = "copy"
  /\ r0' = sty_end + 1 /\ r1' = Load(interim_data_size).num + 8 /\ r3' = 0
  /\ UNCHANGED <<taggerVars, ram>>

\* A mutant: the word that is being copied is not counted.
CopiedEarly == r1' <= 12

Copied == r1' <= 8

\* One round of copy_loop, and behind the last one the arguments of the
\* kernel: r1 the machine, r3 where the kernel is.
CopyWord ==
  /\ step = "copy"
  /\ r1' = r1 - 4
  /\ ram' = Append(ram, Load(r0))
  /\ r0' = r0 + 1 /\ r3' = r3 + 1
  /\ step' = IF Copied THEN "jump" ELSE "copy"
  /\ UNCHANGED taggerVars

Jump ==
  /\ step = "jump"
  /\ step' = "kernel"
  /\ r0' = 0 /\ r1' = Load(mach_id).num
  /\ r3' = sty_end + (Load(interim_data_size).num \div 4) + 1
  /\ UNCHANGED <<taggerVars, ram>>

Terminated ==
  /\ pc \in {"exited", "undefined"}
  /\ UNCHANGED vars

Next == RunTagger \/ Boot \/ CopyWord \/ Jump \/ Terminated

Spec == Init /\ [][Next]_vars
-----------------------------------------------------------------------------
(* What must hold: a kernel that walks the list of tags learns what the    *)
(* board is.                                                               *)

\* What the kernel takes from a tag: numbers, or the command line up to its
\* end. A tag that is none is "broken".
Fact(tag, numbers, text) == [tag |-> tag, numbers |-> numbers, text |-> text]
Broken == Fact(-1, <<>>, <<>>)

\* The n-th character of words, and where the command line ends.
CharAt(words, n) ==
  LET word == words[((n - 1) \div 4) + 1]
      at == ((n - 1) % 4) + 1
  IN IF at <= Len(word.chars) THEN word.chars[at] ELSE "none"

Ends(words) == {n \in 1 .. 4 * Len(words) : CharAt(words, n) = NUL}

Text(words) ==
  [n \in 1 .. (CHOOSE e \in Ends(words) : \A m \in Ends(words) : e <= m) - 1 |-> CharAt(words, n)]

Taken(tag, content) ==
  CASE tag = ATAG_CORE -> Fact(tag, <<>>, <<>>)
    [] tag = ATAG_CMDLINE ->
         IF Ends(content) = {} THEN Broken ELSE Fact(tag, <<>>, Text(content))
    [] tag = ATAG_VIDEOLFB -> Fact(tag, <<content[3].num, content[4].num>>, <<>>)
    [] OTHER -> Fact(tag, [n \in DOMAIN content |-> content[n].num], <<>>)

\* One step of the walk over a list of words: size and kind of a tag, its
\* content, and the next tag behind it, up to ATAG_NONE; at 0 it is over.
SizeAt(words, at) == words[at].num
TagAt(words, at) == words[at + 1].num
ContentAt(words, at) == SubSeq(words, at + 2, (at + SizeAt(words, at)) - 1)
EndsBeyond(words, at) ==
  SizeAt(words, at) < 3 \/ at + SizeAt(words, at) > Len(words) + 1

AtFirst == [at |-> 1, facts |-> <<>>]
Over(facts) == [at |-> 0, facts |-> facts]

Look(words, walk) ==
  IF walk.at = 0 THEN walk
  ELSE IF walk.at >= Len(words) THEN Over(walk.facts \o <<Broken>>)
  ELSE IF TagAt(words, walk.at) = ATAG_NONE THEN Over(walk.facts)
  ELSE IF EndsBeyond(words, walk.at) THEN Over(walk.facts \o <<Broken>>)
  ELSE [at |-> walk.at + SizeAt(words, walk.at),
        facts |-> walk.facts \o <<Taken(TagAt(words, walk.at), ContentAt(words, walk.at))>>]

\* There are no more tags than eight, with the one at the end.
Walk1(words) == Look(words, AtFirst)
Walk2(words) == Look(words, Walk1(words))
Walk3(words) == Look(words, Walk2(words))
Walk4(words) == Look(words, Walk3(words))
Walk5(words) == Look(words, Walk4(words))
Walk6(words) == Look(words, Walk5(words))
Walk7(words) == Look(words, Walk6(words))
Walk8(words) == Look(words, Walk7(words))
Walk(words) ==
  LET last == Walk8(words)
  IN IF last.at = 0 THEN last.facts ELSE last.facts \o <<Broken>>

Nums(b, tag, keys) == Fact(tag, [n \in DOMAIN keys |-> b[keys[n]]], <<>>)

\* The serial number of the board b, of which "both 0 means does not exist"
\* (src/include/tagger.h:169).
SerialFacts(b) ==
  IF b["serial.low"] = 0 /\ b["serial.high"] = 0 THEN <<>>
  ELSE <<Nums(b, ATAG_SERIAL, <<"serial.low", "serial.high">>)>>

\* What there is to say of it, with or without that.
FactsWith(b, serial) ==
  LET Said(condition, fact) == IF condition THEN <<fact>> ELSE <<>>
  IN <<Fact(ATAG_CORE, <<>>, <<>>)>>
     \o serial
     \o Said(b["board_rev"] # 0, Nums(b, ATAG_REVISION, <<"board_rev">>))
     \o Said(b["ram0.size"] # 0, Nums(b, ATAG_MEM, <<"ram0.size", "ram0.start">>))
     \o Said(b["ram1.size"] # 0, Nums(b, ATAG_MEM, <<"ram1.size", "ram1.start">>))
     \o Said(\E n \in DOMAIN b["bootargs"] : ~IsBlank(b["bootargs"][n]),
             Fact(ATAG_CMDLINE, <<>>, Eaten(b["bootargs"])))
     \o Said(b["fb.size"] # 0, Nums(b, ATAG_VIDEOLFB, <<"fb.base", "fb.size">>))

Facts(b) == FactsWith(b, SerialFacts(b))

\* The halves of the serial number add up to 2^32.
SerialWraps(b) == b["serial.high"] + b["serial.low"] = WORD

\* The walk over the buffer, each step of which relies on the size in a
\* header that another function computed, meets every fact about the board,
\* in order and whole, the command line with its last character, and ends
\* within what will be written. (tagger.c:50-192) With one exception: a
\* serial number of which the halves add up to 2^32 is taken for none, since
\* the code looks at their sum (tagger.c:106), and the rest is still told.
ChainDescribesBoard ==
  tlen # 0 =>
    Walk(SubSeq(buffer, 1, tlen)) =
      IF SerialWraps(myboard) THEN FactsWith(myboard, <<>>) ELSE Facts(myboard)

\* When the start-up code has jumped, the two places that tagger patched and
\* the order in which it wrote the parts agree with the arithmetic of the
\* code: the tags have been copied whole, and not a word more, the kernel
\* begins where it was jumped to, and the machine is the board's.
\* (sty-omap3.S:295-359, tagger.c:375-409)
KernelFindsTags ==
  step = "kernel" =>
    /\ ram = SubSeq(buffer, 1, tlen)
    /\ r0 = 0 /\ r1 = myboard["mach_id"]
    /\ imageHas = len => SubSeq(out, r3 + 1, Len(out)) = [n \in 1 .. len |-> Kernel(n)]
=============================================================================
