---------------------------- MODULE KermitBytes ----------------------------
(***************************************************************************)
(* The byte-level conversions of ukermit (src/src/ukermit.c). A char is an *)
(* integer in 0 .. 255; where the code adds a signed char, Signed says so. *)
(***************************************************************************)
EXTENDS Integers

Char == 0 .. 255

START_CHAR == 1
END_CHAR == 13
SPACE == 32
K_ESCAPE == 35
DATA_TYPE == 68       \* 'D'
ACK_TYPE == 89        \* 'Y'
NACK_TYPE == 78       \* 'N'

tochar(x) == (x + SPACE) % 256
untochar(x) == (x - SPACE) % 256

\* x with bit k flipped.
Flip(x, k) == IF (x \div 2^k) % 2 = 1 THEN x - 2^k ELSE x + 2^k

escape_it(ch) == IF (ch \div 64) % 2 = 1 THEN ch - 64 ELSE ch + 64

\* A char of the sender's platform is signed.
Signed(ch) == IF ch < 128 THEN ch ELSE ch - 256

\* Mutant of Checksum: a plain sum of six bits, its upper bits not folded in.
ChecksumUnfolded(sum) == tochar(sum % 64)

\* The check character for a sum of bytes: >> of a negative int is a floor.
Checksum(sum) == tochar((sum + ((sum \div 64) % 4)) % 64)
=============================================================================
