---------------------------- MODULE MCPortTools -----------------------------
(***************************************************************************)
(* sysrq, pserial and ukermit, which stands for ucmd as well, on one port; *)
(* pserial is run twice, so that it may meet what itself and the others,   *)
(* killed or failed, have left behind.                                     *)
(***************************************************************************)
EXTENDS PortTools

MCUserMode == [input |-> "user", parity |-> "user", line |-> "cooked"]
MCRuns == [p \in Tools |-> IF p \in Even THEN 2 ELSE 1]
MCFaults == [k \in FaultKind |-> 1]
=============================================================================
