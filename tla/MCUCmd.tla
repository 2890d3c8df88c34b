------------------------------- MODULE MCUCmd -------------------------------
(***************************************************************************)
(* An expected string that overlaps with itself, a separator, and room for *)
(* a false start before the real thing.                                    *)
(***************************************************************************)
EXTENDS UCmd

MCChars == {"a", "b", "eol"}
MCExpected == <<"a", "a", "b">>
=============================================================================
