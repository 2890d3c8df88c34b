---------------------------- MODULE LcfgScanner -----------------------------
(***************************************************************************)
(* The scanner of the configuration parser (src/lib/lcfg/lcfg_static.c,    *)
(* the part that was lcfg_scanner.c): a buffer of BUFFER_SIZE characters   *)
(* over the file, and the automaton that makes tokens of them. A character *)
(* is a string of length one. Line and column, which only messages show,   *)
(* are left out, and of a message is kept that there was one.              *)
(*                                                                         *)
(* The buffer always holds the last characters read from the file, so its  *)
(* contents are given by the file and the position in it.                  *)
(***************************************************************************)
EXTENDS Naturals, Integers, Sequences

CONSTANTS
  Files,         \* the configuration files: records with the characters
                 \* of each one as "text", and more that only properties use
  BUFFER_SIZE    \* characters per read (255 in the code)

ASSUME ScannerAssumption ==
  /\ BUFFER_SIZE \in Nat \ {0}
  /\ \A f \in Files : f.text \in Seq(STRING)

VARIABLES
  file,     \* the one of them that is read
  source,   \* what it is: "regular", "stream" or "directory"
  fpos,     \* how much of it has been read into the buffer
  offset,   \* the scanner's place in the buffer
  size,     \* what the last read returned
  eof,      \* whether the scanner takes the file for read
  state,    \* the state of the automaton
  hex,      \* the first digit of a \x escape
  token,    \* prepared_token
  scan,     \* lcfg_scanner_token_read is "busy", or returned "ok" or "error"
  error     \* an error message was set

bufferVars == <<file, source, fpos, offset, size, eof>>
scannerVars == <<bufferVars, state, hex, token, scan, error>>

Text == file.text

NoToken == "null_token"

ScannerInit ==
  /\ file \in Files /\ source \in {"regular", "stream", "directory"}
  /\ fpos = 0 /\ offset = 0 /\ size = 0 /\ eof = FALSE
  /\ state = "start" /\ hex = "0" /\ scan = "ok" /\ error = FALSE
  /\ token = [type |-> NoToken, string |-> <<>>]

-----------------------------------------------------------------------------
(* lcfg_scanner_buffer_fill and lcfg_scanner_char_eof: the buffer is       *)
(* filled when it is used up; a buffer that came back not full and is used *)
(* up is the end of the file, whatever a further read would bring.         *)

UsedUp == size = 0 \/ offset = BUFFER_SIZE

AtEnd == eof \/ (size < BUFFER_SIZE /\ offset = size /\ ~UsedUp)

\* What read may return. A stream, which is a pipe or a terminal, returns
\* what is there.
ReadResults ==
  LET left == Len(Text) - fpos
      full == IF left < BUFFER_SIZE THEN left ELSE BUFFER_SIZE
  IN CASE source = "regular"   -> {full}
       [] source = "stream"    -> IF left = 0 THEN {0} ELSE 1 .. full
       [] source = "directory" -> {-1}

FillBuffer ==
  /\ scan = "busy" /\ ~eof /\ UsedUp
  /\ \E n \in ReadResults :
       /\ size' = n
       /\ eof' = (n = 0)
       /\ offset' = IF n > 0 THEN 0 ELSE offset
       /\ fpos' = IF n > 0 THEN fpos + n ELSE fpos
       /\ error' = (error \/ n < 0)
  /\ UNCHANGED <<file, source, state, hex, token, scan>>

\* After a read that failed the first character is what the buffer was
\* cleared to.
NUL == "\\0"
Char == IF size < 0 THEN NUL ELSE Text[fpos - size + offset + 1]

-----------------------------------------------------------------------------
(* The automaton of lcfg_scanner_token_read.                               *)

Blank == {" ", "\t", "\r", "\n"}
Punctuation == {"=", "[", "]", "{", "}", ","}
Hexadecimal == {"0", "1", "2", "3", "4", "5", "6", "7", "8", "9",
                "a", "b", "c", "d", "e", "f"}
Alpha == {"a", "b", "c", "d", "e", "f", "g", "h", "i", "j", "k", "l", "m",
          "n", "o", "p", "q", "r", "s", "t", "u", "v", "w", "x", "y", "z"}
InIdentifier == Alpha \union Hexadecimal \union {"-", "_"}
Quote == "\""

Escapes == [c \in {Quote, "n", "t", "r", "0"} |->
  CASE c = Quote -> Quote [] c = "n" -> "\n" [] c = "t" -> "\t"
    [] c = "r" -> "\r" [] c = "0" -> NUL]

OneOf(c, table, otherwise) == IF c \in DOMAIN table THEN table[c] ELSE otherwise

\* The character with a code of two digits: those that a number may be made
\* of by their name, all others by their code.
Ascii(code) ==
  LET names == {<<"00", NUL>>, <<"09", "\t">>, <<"0a", "\n">>, <<"0d", "\r">>, <<"20", " ">>,
                <<"2b", "+">>, <<"2d", "-">>, <<"30", "0">>, <<"31", "1">>, <<"32", "2">>,
                <<"33", "3">>, <<"34", "4">>, <<"35", "5">>, <<"36", "6">>, <<"37", "7">>,
                <<"38", "8">>, <<"39", "9">>, <<"61", "a">>, <<"62", "b">>, <<"63", "c">>,
                <<"64", "d">>, <<"65", "e">>, <<"66", "f">>, <<"78", "x">>}
      known == {x \in names : x[1] = code}
  IN IF known = {} THEN "x" \o code ELSE (CHOOSE x \in known : TRUE)[2]

\* strtoul over two characters that should be hexadecimal: it skips a blank,
\* takes a sign, and reads the digits up to the first that is none.
HexChar(c, d) ==
  LET figures == <<"1", "2", "3", "4", "5", "6", "7", "8", "9", "a", "b", "c", "d", "e", "f">>
  IN CASE c \in Hexadecimal /\ d \in Hexadecimal -> Ascii(c \o d)
       [] c \in Hexadecimal /\ d \notin Hexadecimal -> Ascii("0" \o c)
       [] c \in Blank \union {"+"} /\ d \in Hexadecimal -> Ascii("0" \o d)
       [] c = "-" /\ \E n \in 1 .. 15 : figures[n] = d ->
            Ascii("f" \o figures[16 - CHOOSE n \in 1 .. 15 : figures[n] = d])
       [] OTHER -> NUL

\* The state after c. A wrong digit of a \x escape makes it "invalid" only
\* for a moment: the assignment behind the test is made in any case.
NextState(q, c) ==
  CASE q = "start" ->
         IF c \in Blank \union Punctuation THEN "start"
         ELSE IF c \in Alpha THEN "in_identifier"
         ELSE OneOf(c, [x \in {"/", Quote} |->
                IF x = Quote THEN "in_str" ELSE "comm_start"], "invalid")
    [] q = "comm_start" ->
         OneOf(c, [x \in {"/", "*"} |->
           IF x = "/" THEN "in_oneline" ELSE "in_multiline"], "invalid")
    [] q = "in_oneline" -> IF c = "\n" THEN "start" ELSE q
    [] q = "in_multiline" -> IF c = "*" THEN "multiline_end" ELSE q
    [] q = "multiline_end" ->
         OneOf(c, [x \in {"/", "*"} |-> IF x = "/" THEN "start" ELSE q], "in_multiline")
    [] q = "in_identifier" -> IF c \in InIdentifier THEN q ELSE "start"
    [] q = "in_str" ->
         OneOf(c, [x \in {Quote, "\\"} |-> IF x = Quote THEN "start" ELSE "in_esc"], q)
    [] q = "in_esc" ->
         IF c \in DOMAIN Escapes THEN "in_str"
         ELSE IF c = "x" THEN "esc_hex_exp_first" ELSE "invalid"
    [] q = "esc_hex_exp_first" -> "esc_hex_exp_second"
    [] q = "esc_hex_exp_second" -> "in_str"

\* The token that is complete with c, which is not part of an identifier.
TokenType(q, c) ==
  CASE q = "start" /\ c \in Punctuation -> c
    [] q = "in_identifier" /\ c \notin InIdentifier -> "identifier"
    [] q = "in_str" /\ c = Quote -> "string"
    [] OTHER -> NoToken

Consumed(q, c) == TokenType(q, c) # "identifier"

\* prepared_token.string after c.
TokenString(q, c, string) ==
  CASE q = "start" /\ c = Quote -> <<>>
    [] q = "start" /\ c \in Alpha -> <<c>>
    [] q = "in_identifier" /\ c \in InIdentifier -> Append(string, c)
    [] q = "in_str" /\ c \notin {Quote, "\\"} -> Append(string, c)
    [] q = "in_esc" /\ c \in DOMAIN Escapes -> Append(string, Escapes[c])
    [] q = "esc_hex_exp_second" -> Append(string, HexChar(hex, c))
    [] OTHER -> string

WrongDigit(q, c) ==
  q \in {"esc_hex_exp_first", "esc_hex_exp_second"} /\ c \notin Hexadecimal

\* What lcfg_scanner_init and lcfg_scanner_next_token call: it begins anew.
StartScan ==
  /\ scan' = "busy" /\ state' = "start"
  /\ token' = [token EXCEPT !.type = NoToken]
  /\ UNCHANGED <<bufferVars, hex, error>>

ScanChar ==
  /\ scan = "busy" /\ ~UsedUp /\ ~AtEnd
  /\ LET next == NextState(state, Char)
         type == TokenType(state, Char)
     IN /\ state' = next
        /\ token' = [type |-> type, string |-> TokenString(state, Char, token.string)]
        /\ hex' = IF state = "esc_hex_exp_first" THEN Char ELSE hex
        /\ offset' = IF Consumed(state, Char) THEN offset + 1 ELSE offset
        /\ error' = (error \/ next = "invalid" \/ WrongDigit(state, Char))
        /\ scan' = IF next = "invalid" THEN "error"
                   ELSE IF type # NoToken THEN "ok" ELSE "busy"
  /\ UNCHANGED <<file, source, fpos, size, eof>>

\* "premature end of file" in all states but one: also in an identifier and
\* in a comment up to the end of the line.
EndOfFile ==
  /\ scan = "busy" /\ AtEnd
  /\ eof' = TRUE
  /\ scan' = IF state = "start" THEN "ok" ELSE "error"
  /\ error' = (error \/ state # "start")
  /\ UNCHANGED <<file, source, fpos, offset, size, state, hex, token>>

Scan == FillBuffer \/ ScanChar \/ EndOfFile

=============================================================================
