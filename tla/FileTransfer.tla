---------------------------- MODULE FileTransfer ----------------------------
(***************************************************************************)
(* What a download tool of this repository promises to the user who starts *)
(* it: the target ends up with the file, whole and in order, whenever the  *)
(* tool reports success, and never holds anything but a prefix of it.      *)
(* Modules Kermit (ukermit) and PUsb (pusb) are shown to implement it, and *)
(* PSerial (pserial) as long as nothing it cannot notice goes wrong.       *)
(***************************************************************************)
EXTENDS Naturals, Integers, Sequences

CONSTANT File       \* the bytes of the file to be downloaded

VARIABLES
  promised,         \* the size the tool announced, -1 before it looked
  got,              \* what the target holds
  outcome           \* what the tool reported: "running", "ok" or "failed"

vars == <<promised, got, outcome>>

Unknown == -1

\* The first n bytes of the file.
Prefix(n) == SubSeq(File, 1, n)

Init ==
  /\ promised = Unknown
  /\ got = <<>>
  /\ outcome = "running"

\* The tool looks up the size of the file and is bound by it from then on.
Announce ==
  /\ outcome = "running"
  /\ promised = Unknown
  /\ promised' \in 0 .. Len(File)
  /\ UNCHANGED <<got, outcome>>

\* The target gains the next bytes. It may still do so after the tool gave
\* up, from what was already on the wire, but not after a success.
Deliver ==
  /\ outcome # "ok"
  /\ \E n \in Len(got) + 1 .. promised : got' = Prefix(n)
  /\ UNCHANGED <<promised, outcome>>

Succeed ==
  /\ outcome = "running"
  /\ promised # Unknown
  /\ got = Prefix(promised)
  /\ outcome' = "ok"
  /\ UNCHANGED <<promised, got>>

Fail ==
  /\ outcome = "running"
  /\ outcome' = "failed"
  /\ UNCHANGED <<promised, got>>

Next == Announce \/ Deliver \/ Succeed \/ Fail

Spec == Init /\ [][Next]_vars
=============================================================================
