---------------------------- MODULE MCStartLinux ----------------------------
(***************************************************************************)
(* tagger and the start-up code with many boards: with and without each    *)
(* part, serial numbers that wrap, command lines of all lengths modulo     *)
(* four, empty, blank and too long.                                        *)
(***************************************************************************)
EXTENDS StartLinux

Pair(key, value) == [key |-> key, value |-> value]
Figures == {<<"0">>, <<"8">>}
Args(n) == [k \in 1 .. n |-> IF k = 3 THEN " " ELSE "a"]

BootArgs ==
  {<<>>, <<" ", " ">>, <<" ", "a">>} \union {Args(n) : n \in {2, 3, 4, 9, 10}}

Boards ==
  {<<Pair("board_rev", rev), Pair("bootargs", args), Pair("mach_id", <<"0", "x", "5">>),
     Pair("ram0.size", size), Pair("ram0.start", <<"2">>), Pair("ram1.size", <<"3">>),
     Pair("serial.high", high), Pair("serial.low", low), Pair("fb.size", fb),
     Pair("fb.base", <<"4">>), Pair("sty_file", <<"z">>)>> :
     rev \in Figures, args \in BootArgs, size \in Figures, high \in Figures,
     low \in Figures, fb \in Figures}

\* A key twice, one that nobody knows, one without a number; blanks for one,
\* signs and a number beyond an unsigned long; no file name.
Odd ==
  {<<Pair("mach_id", <<"1">>), Pair("mach_id", <<"g">>), Pair("mach_id", <<"2">>),
     Pair("fb", <<"3">>), Pair("ram1.size", <<"g">>), Pair("sty_file", <<"z">>)>>,
   <<Pair("mach_id", <<"1">>), Pair("mach_id", <<" ">>), Pair("ram0.size", <<"2">>),
     Pair("ram0.start", <<" ", "+", "3">>), Pair("ram1.size", <<"-", "1">>),
     Pair("serial.low", <<"1", "0", "2">>), Pair("sty_file", <<"z">>)>>,
   <<Pair("mach_id", <<"1">>)>>, <<>>}

MCCharacters == {"0", "1", "2", "3", "4", "5", "8", "a", "g", "x", "z", " ", "+", "-"}
MCConfigs == Boards \union Odd
MCCode == <<Num(-5)>>
MCImageLengths == {0, 2}
=============================================================================
