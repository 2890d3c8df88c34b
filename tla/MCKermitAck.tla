---------------------------- MODULE MCKermitAck ----------------------------
(***************************************************************************)
(* Numbers around the roll-over, those whose character is the one of a     *)
(* packet type or a start marker, and both sides of the sign bit; two      *)
(* replies, with a repeated one for the previous packet ahead or not.      *)
(***************************************************************************)
EXTENDS KermitAck

MCSeqNums == {0, 1, 2, 3, 14, 36, 46, 57, 63, 64, 95, 96, 126, 127}

R(kind, lag) == [kind |-> kind, lag |-> lag]
MCScripts ==
  {<<R(k, l), R(j, 0)>> : k \in {"ACK", "NAK", "other"}, l \in {0, 1}, j \in {"ACK", "NAK"}}
=============================================================================
