----------------------------- MODULE ConfigMap ------------------------------
(***************************************************************************)
(* compare_eventhandler (src/include/compare.h): puts one pair of a key    *)
(* and a value of a configuration file into the variable the program has   *)
(* named for that key. A map is a function from the keys to the types of   *)
(* their variables; the variables are a function from the keys to numbers, *)
(* or sequences of characters for those of type TYPE_S.                    *)
(***************************************************************************)
EXTENDS Integers, Sequences

CONSTANTS
  WORD,    \* the first number beyond an unsigned int (2^32)
  LONG     \* the first one beyond an unsigned long (2^32 or 2^64)

ASSUME ConfigMapAssumption ==
  /\ WORD \in Nat \ {0} /\ LONG \in Nat
  /\ LONG >= WORD /\ LONG % WORD = 0

\* How many characters at the beginning of str are in kind, and what follows.
Span(str, kind) ==
  CHOOSE n \in 0 .. Len(str) :
    /\ \A k \in 1 .. n : str[k] \in kind
    /\ n = Len(str) \/ str[n + 1] \notin kind
Behind(str, kind) == SubSeq(str, Span(str, kind) + 1, Len(str))

\* A string ends at the first NUL, for strcpy as for sscanf.
EndOfString == "\\0"
CString(str) == SubSeq(str, 1, Span(str, {str[k] : k \in DOMAIN str} \ {EndOfString}))

-----------------------------------------------------------------------------
(* sscanf(str, "%x", &val) of the GNU C library (external): it skips       *)
(* blanks, then reads a sign, 0x and the digits, of which 0x alone is the  *)
(* number 0. It returns 1, 0 if there is no number, and EOF if there is    *)
(* nothing but blanks.                                                     *)

EOF == -1

Digit ==
  [c \in {"0", "1", "2", "3", "4", "5", "6", "7", "8", "9",
          "a", "b", "c", "d", "e", "f"} |->
    CASE c = "0" -> 0 [] c = "1" -> 1 [] c = "2" -> 2 [] c = "3" -> 3
      [] c = "4" -> 4 [] c = "5" -> 5 [] c = "6" -> 6 [] c = "7" -> 7
      [] c = "8" -> 8 [] c = "9" -> 9 [] c = "a" -> 10 [] c = "b" -> 11
      [] c = "c" -> 12 [] c = "d" -> 13 [] c = "e" -> 14 [] c = "f" -> 15]

Number(digits) ==
  LET upto[n \in 0 .. Len(digits)] ==
        IF n = 0 THEN 0 ELSE 16 * upto[n - 1] + Digit[digits[n]]
  IN upto[Len(digits)]

Space == {" ", "\t", "\n", "\r"}
Trimmed(str) == Behind(str, Space)
StartsWith(str, kind) == str # <<>> /\ str[1] \in kind

Magnitude(str) == IF StartsWith(Trimmed(str), {"+", "-"}) THEN Tail(Trimmed(str)) ELSE Trimmed(str)

Digits(str) ==
  LET m == Magnitude(str)
      from == IF Len(m) > 1 /\ m[1] = "0" /\ m[2] = "x" THEN SubSeq(m, 3, Len(m)) ELSE m
  IN SubSeq(from, 1, Span(from, DOMAIN Digit))

ScanResult(str) ==
  IF Trimmed(str) = <<>> \/ StartsWith(Trimmed(str), {EndOfString}) THEN EOF
  ELSE IF StartsWith(Magnitude(str), DOMAIN Digit) THEN 1 ELSE 0

\* What is read is an unsigned long, the greatest one if that is too small,
\* and stored in an unsigned int.
Converted(negative, n) ==
  IF n >= LONG THEN WORD - 1 ELSE (IF negative THEN LONG - n ELSE n) % WORD

Scanned(str) == Converted(StartsWith(Trimmed(str), {"-"}), Number(Digits(str)))

-----------------------------------------------------------------------------
\* The first value a variable cannot hold, if an unsigned int can.
TooLarge == [TYPE_U8 |-> 2^8, TYPE_U16 |-> 2^16]

\* The value is cut to the variable's width and stored before it is found
\* to be too large.
Cut(type, val) == IF type \in DOMAIN TooLarge THEN val % TooLarge[type] ELSE val
Overflows(type, val) == type \in DOMAIN TooLarge /\ val >= TooLarge[type]

\* Only 0 counts as a failure of sscanf. After EOF val is still 0.
Ignored(map, entry) ==
  \/ entry.key \notin DOMAIN map
  \/ map[entry.key] # "TYPE_S" /\ ScanResult(entry.value) = 0

Val(str) == IF ScanResult(str) = EOF THEN 0 ELSE Scanned(str)

Refused(map, entry) ==
  /\ ~Ignored(map, entry)
  /\ map[entry.key] # "TYPE_S"
  /\ Overflows(map[entry.key], Val(entry.value))

Stored(map, entry) ==
  IF map[entry.key] = "TYPE_S" THEN CString(entry.value)
  ELSE Cut(map[entry.key], Val(entry.value))

\* A mutant: what is no number counts as zero.
HandleAny(map, variables, entry) ==
  IF entry.key \notin DOMAIN map THEN variables
  ELSE [variables EXCEPT ![entry.key] = Stored(map, entry)]

\* The variables after compare_eventhandler was called with entry.
Handle(map, variables, entry) ==
  IF Ignored(map, entry) THEN variables
  ELSE [variables EXCEPT ![entry.key] = Stored(map, entry)]
=============================================================================
