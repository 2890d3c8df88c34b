--------------------------- MODULE MCKermitPacket ---------------------------
(***************************************************************************)
(* Bytes on both sides of every test of should_escape, k_escape and        *)
(* ktrans, in both halves of the code page, and those the escapes produce. *)
(***************************************************************************)
EXTENDS KermitPacket

MCBytes == {0, 3, 13, 31, 32, 35, 63, 64, 95, 126, 127, 128, 159, 163, 191, 195, 255}
MCSeqs == {0, 35, 96, 127}
=============================================================================
