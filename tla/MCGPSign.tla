------------------------------ MODULE MCGPSign ------------------------------
(***************************************************************************)
(* gpsign with a few configuration files: all kinds of nodes, gaps of      *)
(* blanks and comments, values of all sorts, and files with a fault.       *)
(***************************************************************************)
EXTENDS GPSign, ConfigText, ConfigReading

Num(a) == Str(<<a>>)
Setting(field, chars) == Named(<<field>>, Str(chars))

\* The load address, and a section with one value too many for a key that
\* nobody reads, one given twice and one that is no number.
Address ==
  Map(<<Named(LoadAddr, Str(<<"0", "x", "8", "1">>)),
        Named(<<"s">>, Map(<<Setting("v", <<"1">>), Setting("u", <<"2">>),
                             Setting("w", <<"3">>), Setting("w", <<"g">>)>>))>>)

\* All sections, so that the table of contents is full.
Full ==
  Map([n \in 1 .. 4 |->
         Named(<<Sections[n]>>, Map(<<Setting("v", <<"1">>)>>))])

\* The ram and the card's section, and a flag beyond 16 bits.
Some ==
  Map(<<Named(<<"s">>, Map(<<Setting("v", <<"1", "g">>)>>)),
        Named(<<"r">>, Map(<<Setting("g", <<"1", "2", "3", "4", "5">>), Setting("v", <<>>)>>)),
        Named(<<"m">>, Map(<<Setting("v", <<"f", "f">>)>>))>>)

\* A value of 9 bits for one of 8, behind which a setting is lost.
TooMuch ==
  Map(<<Named(<<"s">>, Map(<<Setting("v", <<"1", "0", "1">>), Setting("w", <<"7">>)>>))>>)

\* Values without a number in all the ways there are, and signs.
Blanks ==
  Map(<<Named(LoadAddr, Str(<<"\n">>)), Named(LoadAddr, Str(<<"-">>)),
        Named(<<"s">>, Map(<<Setting("v", <<" ", "+", "1">>), Setting("w", <<"7">>),
                             Setting("w", <<>>), Setting("k", <<"-", "1">>)>>)),
        Named(<<"r">>, Map(<<Setting("w", <<"3">>), Setting("w", <<"0", "x">>),
                             Setting("g", <<"2">>), Setting("g", <<" ">>),
                             Setting("h", <<"1", "0", "0", "0", "0", "0">>)>>)),
        Named(<<"m">>, Map(<<Setting("h", <<"-", "1">>), Setting("w", <<"1">>)>>))>>)

\* Lists and maps in each other. What is in them nobody reads.
Nest ==
  Map(<<Named(<<"q", "-">>,
          List(<<Num("1"), List(<<Num("2"), Num("3")>>), List(<<>>),
                 Map(<<Setting("a", <<"4">>), Named(<<"b">>, Map(<<>>))>>), Num("5")>>)),
        Named(<<"l">>, Num("6"))>>)

\* Just beyond the tenth element a list ruins the path, also the later keys.
Long == Map(<<Named(<<"q">>, List([n \in 1 .. 12 |-> Num("1")])), Named(LoadAddr, Num("2"))>>)

Chars(n) == [k \in 1 .. n |-> " "]
Comment == <<"/", "*", "*", "=", "*", "/">>
ToEnd == <<"/", "/", "\"", "\n">>

Good ==
  <<Written(Map(<<>>), <<>>, <<>>, <<>>),
    Written(Address, <<>>, <<",">>, <<"\n">>),
    Written(Address, <<"\n">>, <<",">>, ToEnd),
    Written(Full, <<>>, <<>>, <<>>),
    Written(Some, <<" ">>, <<",">>, Comment),
    Written(TooMuch, Comment, <<>>, <<>>),
    Written(Blanks, <<>>, <<>>, <<>>),
    Written(Nest, <<>>, <<",">>, <<>>),
    Written(Nest, <<"\t">>, <<",", " ">>, <<"\r", "\n">>),
    Written(Nest, ToEnd, <<>>, <<>>),
    Written(Long, <<>>, <<",">>, <<>>)>>

Escaped(c) == <<"l", "=", "\"", "\\">> \o c \o <<"\"">>

Faulty ==
  <<Spoilt(Escaped(<<"x", "3", "1">>), <<[key |-> LoadAddr, value |-> <<"1">>]>>, "nothing"),
    Spoilt(Escaped(<<"n">>) \o Chars(2), <<[key |-> LoadAddr, value |-> <<"\n">>]>>, "nothing"),
    Spoilt(Escaped(<<"x", "3", "g">>), <<>>, "digit"),
    Spoilt(Escaped(<<"x", "+", "5">>), <<>>, "digit"),
    Spoilt(Escaped(<<"y">>), <<>>, "damaged"),
    Spoilt(<<"/", "l">>, <<>>, "damaged"),
    Spoilt(Escaped(<<"n">>) \o <<"/", "/">>, <<>>, "unended"),
    Spoilt(Escaped(<<"n">>) \o <<"/", "*", "*">>, <<>>, "damaged")>>

MCFiles == Range(Good \o Faulty
           \o Damaged(Good[2].text) \o Damaged(Good[8].text))

\* What ConfigText takes for the meaning of a file without fault is what its
\* text says by ConfigGrammar, which the theorems in GPSignProofs assume.
ASSUME FilesSayTheirMeaning ==
  \A f \in MCFiles : f.wrong = "nothing" => ReadsAs(f.text, f.means)

\* What sscanf makes of strings of all sorts, read by hand: what it returns
\* and the unsigned int it stores.
ASSUME ScansAsWritten ==
  /\ \A str \in {<<>>, <<" ">>, <<"\n", "\t", "\r">>, <<EndOfString, "1">>, <<" ", EndOfString, "1">>} :
       ScanResult(str) = EOF
  /\ \A str \in {<<"g">>, <<"-">>, <<" ", "+">>, <<"x", "1">>, <<"+", "-", "1">>, <<"-", " ", "1">>} :
       ScanResult(str) = 0
  /\ \A read \in {<<<<"0">>, 0>>, <<<<"0", "x">>, 0>>, <<<<"0", "x", "g">>, 0>>, <<<<"0", "g">>, 0>>,
                   <<<<"0", "x", "1", "f">>, 31>>, <<<<" ", "\t", "a", " ", "1">>, 10>>,
                   <<<<"1", "0", EndOfString, "2">>, 16>>, <<<<"+", "0", "0", "x">>, 0>>,
                   <<<<"-", "2">>, WORD - 2>>, <<<<"-", "0", "x", "1">>, WORD - 1>>,
                   <<<<"f", "f", "f", "f", "f">>, WORD - 1>>, <<<<"1", "0", "0", "0", "0", "3">>, 3>>,
                   <<<<"-", "1", "0", "0", "0", "0", "3">>, WORD - 3>>,
                   <<<<"f", "f", "f", "f", "f", "e">>, WORD - 2>>,
                   <<<<"1", "0", "0", "0", "0", "0", "5">>, WORD - 1>>,
                   <<<<"-", "1", "0", "0", "0", "0", "0", "5">>, WORD - 1>>} :
       ScanResult(read[1]) = 1 /\ Scanned(read[1]) = read[2]

MCLoadAddresses == {9}
MCInputLengths == {0, 2, 5, 6}
=============================================================================
