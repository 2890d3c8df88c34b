----------------------------- MODULE SerialPort -----------------------------
(***************************************************************************)
(* The serial port library (src/lib/serial_posix.c) and the port it works  *)
(* on, which several processes may use at once. Every process has its own  *)
(* copy of the library's statics (oldtio, newtio, fd); the settings of the *)
(* port and its break condition belong to the port. An operator below is   *)
(* one system call of the library, made by the process p; PortTools says   *)
(* in which order the programs make them.                                  *)
(*                                                                         *)
(* The settings keep what the programs differ in: how input is processed   *)
(* (c_iflag), the parity, and whether the line is edited and echoed        *)
(* (c_lflag, c_oflag). Baud rate, data and stop bits are the same for all  *)
(* programs, and valid.                                                    *)
(***************************************************************************)
EXTENDS Naturals, FiniteSets

CONSTANTS
  Tools,       \* the programs that use the port
  Even,        \* those that ask for even parity: pserial
  UserMode,    \* how the port was set before anyone used it
  LongerName,  \* a port whose name this one's is a part of may be in use
  MaxFaults    \* how often each kind of fault may strike

FaultKind ==
  {"lsof",     \* lsof is not installed, or fails
   "save",     \* s_configure cannot read the settings it is to save
   "restore",  \* s_close cannot set them again
   "call",     \* another system call on the port fails
   "command",  \* pserial cannot write its download command
   "kill"}     \* a program is killed

Modes == [input : {"user", "none"}, parity : {"user", "none", "even"},
          line : {"cooked", "raw"}]

\* A static that was never written: all bits are zero.
Zero == [input |-> "none", parity |-> "none", line |-> "zero"]

ASSUME SerialPortAssumption ==
  /\ IsFiniteSet(Tools) /\ Even \subseteq Tools
  /\ UserMode \in Modes
  /\ LongerName \in BOOLEAN
  /\ MaxFaults \in [FaultKind -> Nat]

VARIABLES
  settings,    \* the settings of the port
  breaking,    \* the port sends a break
  fd,          \* fd[p]: p has the port open
  oldtio,      \* oldtio[p], newtio[p]: the statics of p
  newtio,
  faults,      \* how often each kind of fault has struck
  \* read by properties only
  stale,       \* programs that know nothing of who has the port open now
  slipped,     \* programs that opened the port in that state, and have it
  overlapped   \* two programs have had the port open at once

portVars == <<settings, breaking, fd, oldtio, newtio, faults>>
history == <<stale, slipped, overlapped>>

-----------------------------------------------------------------------------
Strikes(k) ==
  /\ faults[k] < MaxFaults[k]
  /\ faults' = [faults EXCEPT ![k] = @ + 1]

Fails == Strikes("call")

Holders == {p \in Tools : fd[p]}

PortInit ==
  /\ settings = UserMode /\ breaking = FALSE
  /\ fd = [p \in Tools |-> FALSE]
  /\ oldtio = [p \in Tools |-> Zero] /\ newtio = [p \in Tools |-> Zero]
  /\ faults = [k \in FaultKind |-> 0]
  /\ stale = Tools /\ slipped = {} /\ overlapped = FALSE

-----------------------------------------------------------------------------
(* s_open: "lsof |grep <port>" finds every open file whose name contains   *)
(* the port's; then the port is opened, which nothing else prevents.       *)

MayLookUsed == Holders # {} \/ LongerName

\* stale is whoever did not look since the last Open: LookupFree ends it.
LookupUnread(p) == \* mutant: what lsof found is not looked at
  /\ stale' = stale \ {p}
  /\ UNCHANGED <<portVars, slipped, overlapped>>

LookupFree(p) ==
  /\ Holders = {}
  /\ stale' = stale \ {p}
  /\ UNCHANGED <<portVars, slipped, overlapped>>

\* Nothing is found because nothing was searched.
LookupFails(p) ==
  /\ Strikes("lsof")
  /\ stale' = stale \union {p}
  /\ UNCHANGED <<settings, breaking, fd, oldtio, newtio, slipped, overlapped>>

Open(p) ==
  /\ fd' = [fd EXCEPT ![p] = TRUE]
  /\ stale' = Tools
  /\ slipped' = slipped \union ({p} \intersect stale)
  /\ overlapped' = (overlapped \/ Holders # {})
  /\ UNCHANGED <<settings, breaking, oldtio, newtio, faults>>

-----------------------------------------------------------------------------
(* s_configure: it saves the settings for s_close, reads them once more,   *)
(* changes them and sets them. Only even parity resets c_iflag.            *)

SaveOld(p) ==
  /\ oldtio' = [oldtio EXCEPT ![p] = settings]
  /\ UNCHANGED <<settings, breaking, fd, newtio, faults, history>>

ConfiguredKeepsLine(p, mode) == \* mutant: c_lflag and c_oflag stay
  [input  |-> IF p \in Even THEN "none" ELSE mode.input,
   parity |-> IF p \in Even THEN "even" ELSE "none",
   line   |-> mode.line]

Configured(p, mode) ==
  [input  |-> IF p \in Even THEN "none" ELSE mode.input,
   parity |-> IF p \in Even THEN "even" ELSE "none",
   line   |-> "raw"]

GetNew(p) ==
  /\ newtio' = [newtio EXCEPT ![p] = Configured(p, settings)]
  /\ UNCHANGED <<settings, breaking, fd, oldtio, faults, history>>

\* tcsetattr(fd, TCSANOW, &newtio): in s_configure, and again in s_read.
SetNew(p) ==
  /\ settings' = newtio[p]
  /\ UNCHANGED <<breaking, fd, oldtio, newtio, faults, history>>

-----------------------------------------------------------------------------
(* s_break: TIOCSBRK, a second of sleep, TIOCCBRK.                         *)

SetBreak(on) ==
  /\ breaking' = on
  /\ UNCHANGED <<settings, fd, oldtio, newtio, faults, history>>

-----------------------------------------------------------------------------
(* s_close, and the end of a process: the last one to close the port ends  *)
(* a break; the settings stay as they are.                                 *)

RestoreSwapped(p) == \* mutant: newtio and oldtio are mixed up
  /\ settings' = newtio[p]
  /\ UNCHANGED <<breaking, fd, oldtio, newtio, faults, history>>

Restore(p) ==
  /\ settings' = oldtio[p]
  /\ UNCHANGED <<breaking, fd, oldtio, newtio, faults, history>>

\* p's descriptor is closed, and its statics are gone with it.
Release(p) ==
  /\ fd' = [fd EXCEPT ![p] = FALSE]
  /\ breaking' = (breaking /\ Holders \ {p} # {})
  /\ oldtio' = [oldtio EXCEPT ![p] = Zero]
  /\ newtio' = [newtio EXCEPT ![p] = Zero]
  /\ slipped' = slipped \ {p}
  /\ UNCHANGED <<settings, stale, overlapped>>

PortTypeOK ==
  /\ settings \in Modes \union {Zero} /\ breaking \in BOOLEAN
  /\ fd \in [Tools -> BOOLEAN]
  /\ oldtio \in [Tools -> Modes \union {Zero}]
  /\ newtio \in [Tools -> Modes \union {Zero}]
  /\ faults \in [FaultKind -> Nat]
  /\ stale \subseteq Tools /\ slipped \subseteq Tools /\ overlapped \in BOOLEAN
=============================================================================
