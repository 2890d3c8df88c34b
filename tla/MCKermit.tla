------------------------------ MODULE MCKermit ------------------------------
(***************************************************************************)
(* Instances of Kermit for TLC. In both, the file takes more packets than  *)
(* there are numbers, so that the last packet reuses the first number.     *)
(***************************************************************************)
EXTENDS Kermit, TLC

MCFile5 == <<11, 12, 13, 14, 15>>
MCFile4 == <<11, 12, 13, 14>>

Budget(b) == [k \in FaultKind |-> IF k \in DOMAIN b THEN b[k] ELSE 0]

\* Everything that can go wrong, a little of each.
MCAnyFault ==
  Budget([noise |-> 1, gap |-> 1, corrupt |-> 1, drop |-> 1, hangup |-> 1,
          resize |-> 1, other |-> 1, system |-> 1])

\* Nothing is lost and the file keeps its size.
MCNothingLost == Budget([gap |-> 5, corrupt |-> 2])
=============================================================================
