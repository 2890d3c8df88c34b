----------------------------- MODULE MCPSerial -----------------------------
(***************************************************************************)
(* A file of two reads, an ID of the longer kind with an 0x04 inside, and  *)
(* each fault once; the noise may hold two false markers, and the file     *)
(* may shrink and grow again.                                              *)
(***************************************************************************)
EXTENDS PSerial

MCFile == <<11, 12, 13>>
MCMarkers == {2}
MCFaults == [k \in FaultKind |-> IF k \in {"noise", "resize"} THEN 2 ELSE 1]
\* Nothing goes wrong but the file: it does not exist.
MCFileMissing == [k \in FaultKind |-> IF k = "file" THEN 1 ELSE 0]
=============================================================================
