------------------------------- MODULE MCPUsb -------------------------------
(***************************************************************************)
(* Files of up to five bytes, one more than is accepted, read two bytes    *)
(* at a time, and counted by an unsigned int that wraps around at eight.   *)
(***************************************************************************)
EXTENDS PUsb

MCFile == <<11, 12, 13, 14, 15>>
=============================================================================
