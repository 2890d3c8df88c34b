----------------------------- MODULE PortTools ------------------------------
(***************************************************************************)
(* The programs on a shared serial port: sysrq (src/src/sysrq.c) with all  *)
(* of its steps, and the others, pserial, ucmd and ukermit, with the way   *)
(* their main functions open, configure and close the port around any      *)
(* number of reads; what else they do with it is in PSerial, UCmd and      *)
(* Kermit. Each program may be run several times; each run is a process of *)
(* its own.                                                                *)
(***************************************************************************)
EXTENDS SerialPort

CONSTANTS
  Sysrq,     \* the programs that are sysrq
  MaxRuns    \* how often each program is run

ASSUME PortToolsAssumption == Sysrq \subseteq Tools /\ MaxRuns \in [Tools -> Nat]

VARIABLES
  pc,        \* pc[p]: where the main function of p stands
  runs       \* runs[p]: how often p has been started

vars == <<portVars, history, pc, runs>>

Init ==
  /\ PortInit
  /\ pc = [p \in Tools |-> "exited"] /\ runs = [p \in Tools |-> 0]

Goto(p, from, to) == pc[p] = from /\ pc' = [pc EXCEPT ![p] = to]

\* A failing system call that changes nothing but the course of the program.
Skip(fault) ==
  /\ Strikes(fault)
  /\ UNCHANGED <<settings, breaking, fd, oldtio, newtio, history>>

Start(p) ==
  /\ runs[p] < MaxRuns[p]
  /\ Goto(p, "exited", "lookup")
  /\ runs' = [runs EXCEPT ![p] = @ + 1]
  /\ UNCHANGED <<portVars, history>>

-----------------------------------------------------------------------------
(* s_open. If it fails main returns.                                       *)

FindFree(p) ==
  /\ Goto(p, "lookup", "open")
  /\ LookupFree(p) \/ LookupFails(p)
  /\ UNCHANGED runs

FindUsed(p) ==
  /\ MayLookUsed
  /\ Goto(p, "lookup", "exited")
  /\ UNCHANGED <<portVars, history, runs>>

OpenPort(p) ==
  /\ \/ Goto(p, "open", "save") /\ Open(p)
     \/ Goto(p, "open", "exited") /\ Skip("call")
  /\ UNCHANGED runs

-----------------------------------------------------------------------------
(* s_configure. If it fails main calls s_close.                            *)

SaveSettings(p) ==
  /\ \/ Goto(p, "save", "change") /\ SaveOld(p)
     \/ Goto(p, "save", "restore") /\ Skip("save")
  /\ UNCHANGED runs

ReadSettings(p) ==
  /\ \/ Goto(p, "change", "apply") /\ GetNew(p)
     \/ Goto(p, "change", "restore") /\ Skip("call")
  /\ UNCHANGED runs

Session(p) == IF p \in Sysrq THEN "break" ELSE "session"

ApplySettings(p) ==
  /\ \/ Goto(p, "apply", Session(p)) /\ SetNew(p)
     \/ Goto(p, "apply", "restore") /\ Skip("call")
  /\ UNCHANGED runs

-----------------------------------------------------------------------------
(* The session of the others. s_read sets newtio again, and does not care  *)
(* whether that works.                                                     *)

Read(p) ==
  /\ pc[p] = "session"
  /\ SetNew(p)
  /\ UNCHANGED <<pc, runs>>

EndSession(p) ==
  /\ Goto(p, "session", "restore")
  /\ UNCHANGED <<portVars, history, runs>>

\* The one way out of a session without s_close: pserial's main, when the
\* download command was not written.
CommandFails(p) ==
  /\ p \in Even
  /\ Goto(p, "session", "exited")
  /\ Strikes("command")
  /\ Release(p)
  /\ UNCHANGED runs

-----------------------------------------------------------------------------
(* send_sysrq. s_break has no return statement behind its last line: what  *)
(* it returns when all went well is undefined, and send_sysrq takes it for *)
(* a failure if it is negative. Whatever send_sysrq returns, main goes on. *)

BreakOn(p) ==
  /\ \/ Goto(p, "break", "release") /\ SetBreak(TRUE)
     \/ Goto(p, "break", "restore") /\ Skip("call")
  /\ UNCHANGED runs

BreakStays(p) == \* mutant: TIOCCBRK is forgotten
  /\ \/ \E to \in {"key", "restore"} : Goto(p, "release", to) /\ SetBreak(TRUE)
     \/ Goto(p, "release", "restore") /\ Skip("call")
  /\ UNCHANGED runs

BreakOff(p) ==
  /\ \/ /\ \E to \in {"key", "restore"} : Goto(p, "release", to)
        /\ SetBreak(FALSE)
     \/ Goto(p, "release", "restore") /\ Skip("call")
  /\ UNCHANGED runs

\* s_write of one byte; if it fails that is only printed.
SendKey(p) ==
  /\ Goto(p, "key", "restore")
  /\ UNCHANGED <<portVars, history, runs>>

-----------------------------------------------------------------------------
(* s_close, the end of main, and the end by force. The system closes what  *)
(* s_close leaves open when it cannot restore the settings.                *)

RestoreSettings(p) ==
  /\ Goto(p, "restore", "close")
  /\ Restore(p) \/ Skip("restore")
  /\ UNCHANGED runs

ClosePort(p) ==
  /\ Goto(p, "close", "exited")
  /\ Release(p)
  /\ UNCHANGED <<faults, runs>>

Kill(p) ==
  /\ pc[p] # "exited"
  /\ pc' = [pc EXCEPT ![p] = "exited"]
  /\ Strikes("kill")
  /\ Release(p)
  /\ UNCHANGED runs

Next ==
  \E p \in Tools :
    \/ Start(p) \/ FindFree(p) \/ FindUsed(p) \/ OpenPort(p)
    \/ SaveSettings(p) \/ ReadSettings(p) \/ ApplySettings(p)
    \/ Read(p) \/ EndSession(p) \/ CommandFails(p)
    \/ BreakOn(p) \/ BreakOff(p) \/ SendKey(p)
    \/ RestoreSettings(p) \/ ClosePort(p) \/ Kill(p)

Spec == Init /\ [][Next]_vars

-----------------------------------------------------------------------------
TypeOK ==
  /\ PortTypeOK
  /\ pc \in [Tools -> {"exited", "lookup", "open", "save", "change", "apply",
                       "session", "break", "release", "key", "restore", "close"}]
  /\ runs \in [Tools -> Nat]

\* Of the programs that have the port open at most one got it by a lookup
\* that was still true when it opened the port. Whoever else is in came
\* through the gap between lsof and open (src/lib/serial_posix.c:86-93), or
\* without lsof.
OneThroughTheDoor ==
  \A p, q \in Holders \ slipped : p = q

\* When nobody has the port open it is set as the user left it, although
\* programs ran, failed and gave up in between: unless two shared it, one
\* was killed, or one of three calls failed, the one that reads the settings
\* to be saved, the one that sets them again, and the write of pserial's
\* download command, after which main leaves without s_close
\* (src/src/pserial.c:288-294).
SettingsRestored ==
  Holders = {} =>
    \/ settings = UserMode
    \/ overlapped
    \/ \E k \in {"kill", "save", "restore", "command"} : faults[k] > 0

\* A break that goes on, during which the port sends nothing, is one that a
\* sysrq is about to end, or has failed to and is about to end by closing
\* the port. Only where the port is shared can it outlive its sender.
BreakEnds ==
  breaking =>
    \/ \E p \in Sysrq : pc[p] = "release"
    \/ \E p \in Sysrq : pc[p] \in {"restore", "close"} /\ faults["call"] > 0
    \/ overlapped
=============================================================================
