-------------------------- MODULE PortToolsProofs ---------------------------
(***************************************************************************)
(* What holds of any number of programs, each run any number of times, on  *)
(* one serial port, however often calls fail: proofs about PortTools.      *)
(***************************************************************************)
EXTENDS PortTools, TLAPS

-----------------------------------------------------------------------------
(* The inductive invariant.                                                *)

\* The places of main between s_open and the end of s_close.
Inside == {"save", "change", "apply", "session", "break", "release", "key", "restore", "close"}

\* A program has the port open just there, and a break to end if it is sysrq.
PlaceInv ==
  \A p \in Tools :
    /\ fd[p] <=> pc[p] \in Inside
    /\ pc[p] \in {"break", "release", "key"} => p \in Sysrq

\* Whoever knows anything knows that nobody has the port, and it is true.
DoorInv ==
  /\ stale = Tools \/ Holders = {}
  /\ overlapped \/ \A p, q \in Holders : p = q

\* As long as nothing has happened that SettingsRestored excepts, whoever has
\* the port holds the user's settings, and they are set at both ends.
Undisturbed == ~overlapped /\ \A k \in {"kill", "save", "restore", "command"} : faults[k] = 0

SavedInv ==
  Undisturbed =>
    \A p \in Tools :
      /\ pc[p] \in Inside \ {"save", "close"} => oldtio[p] = UserMode
      /\ pc[p] \in {"save", "close"} => settings = UserMode

IInv ==
  /\ TypeOK /\ PlaceInv /\ DoorInv /\ SavedInv
  /\ OneThroughTheDoor /\ SettingsRestored /\ BreakEnds

\* The steps of p, which Next is made of.
ToolSteps(p) ==
  \/ Start(p) \/ FindFree(p) \/ FindUsed(p) \/ OpenPort(p)
  \/ SaveSettings(p) \/ ReadSettings(p) \/ ApplySettings(p)
  \/ Read(p) \/ EndSession(p) \/ CommandFails(p)
  \/ BreakOn(p) \/ BreakOff(p) \/ SendKey(p)
  \/ RestoreSettings(p) \/ ClosePort(p) \/ Kill(p)

-----------------------------------------------------------------------------
(* Every step keeps each part of it.                                       *)

\* A fault that strikes is counted, and none is forgotten.
LEMMA StrikesCounts ==
  ASSUME TypeOK, NEW k \in FaultKind, Strikes(k)
  PROVE  /\ faults' \in [FaultKind -> Nat] /\ faults'[k] > 0
         /\ \A j \in FaultKind : faults'[j] = 0 => faults[j] = 0
         /\ \A j \in FaultKind : faults[j] > 0 => faults'[j] > 0
BY DEF TypeOK, PortTypeOK, Strikes

\* What is read and set again is a setting.
LEMMA TypeStep ==
  ASSUME TypeOK, Next
  PROVE  TypeOK'
<1> USE DEF TypeOK, PortTypeOK, FaultKind
<1>0. PICK p \in Tools : ToolSteps(p)
  BY DEF Next, ToolSteps
<1>1. CASE Start(p)
  BY <1>1 DEF Start, Goto, portVars, history
<1>2. CASE FindFree(p)
  BY <1>2, StrikesCounts DEF FindFree, Goto, LookupFree, LookupFails, portVars
<1>3. CASE FindUsed(p)
  BY <1>3 DEF FindUsed, Goto, portVars, history
<1>4. CASE OpenPort(p)
  <2>1. CASE Goto(p, "open", "exited") /\ Skip("call")
    BY <1>4, <2>1, StrikesCounts DEF OpenPort, Goto, Skip, history
  <2>2. CASE Goto(p, "open", "save") /\ Open(p)
    <3>1. fd' \in [Tools -> BOOLEAN] /\ overlapped' \in BOOLEAN
      BY <2>2, Zenon DEF Open
    <3>2. /\ pc' \in [Tools -> {"exited", "lookup", "open", "save", "change", "apply",
                                 "session", "break", "release", "key", "restore", "close"}]
          /\ stale' \subseteq Tools /\ slipped' \subseteq Tools
      BY <2>2 DEF Open, Goto
    <3> QED
      BY <1>4, <2>2, <3>1, <3>2 DEF OpenPort, Open
  <2> QED
    BY <1>4, <2>1, <2>2 DEF OpenPort
<1>5. CASE SaveSettings(p)
  BY <1>5, StrikesCounts DEF SaveSettings, Goto, SaveOld, Skip, history
<1>6. CASE ReadSettings(p)
  BY <1>6, StrikesCounts DEF ReadSettings, Goto, GetNew, Skip, history, Configured,
     Modes, Zero
<1>7. CASE ApplySettings(p)
  BY <1>7, StrikesCounts DEF ApplySettings, Goto, Session, SetNew, Skip, history
<1>8. CASE Read(p)
  BY <1>8 DEF Read, SetNew, history
<1>9. CASE EndSession(p)
  BY <1>9 DEF EndSession, Goto, portVars, history
<1>10. CASE BreakOn(p)
  <2>1. breaking' \in BOOLEAN
    BY <1>10, Zenon DEF BreakOn, SetBreak, Skip
  <2>2. faults' \in [FaultKind -> Nat]
    BY <1>10, StrikesCounts DEF BreakOn, SetBreak, Skip
  <2> QED
    BY <1>10, <2>1, <2>2 DEF BreakOn, Goto, SetBreak, Skip, history
<1>11. CASE BreakOff(p)
  <2>1. breaking' \in BOOLEAN
    BY <1>11, Zenon DEF BreakOff, SetBreak, Skip
  <2>2. faults' \in [FaultKind -> Nat]
    BY <1>11, StrikesCounts DEF BreakOff, SetBreak, Skip
  <2> QED
    BY <1>11, <2>1, <2>2 DEF BreakOff, Goto, SetBreak, Skip, history
<1>12. CASE SendKey(p)
  BY <1>12 DEF SendKey, Goto, portVars, history
<1>13. CASE RestoreSettings(p)
  BY <1>13, StrikesCounts DEF RestoreSettings, Goto, Restore, Skip, history
<1>14. CASE ClosePort(p)
  BY <1>14 DEF ClosePort, Goto, Release
<1>15. CASE Kill(p)
  BY <1>15, StrikesCounts DEF Kill, Release
<1>16. CASE CommandFails(p)
  BY <1>16, StrikesCounts DEF CommandFails, Goto, Release
<1> QED
  BY <1>0, <1>1, <1>2, <1>3, <1>4, <1>5, <1>6, <1>7, <1>8, <1>9, <1>10, <1>11, <1>12,
     <1>13, <1>14, <1>15, <1>16 DEF ToolSteps

\* The port is opened and closed where it should be.
LEMMA PlaceStep ==
  ASSUME TypeOK, PlaceInv, Next
  PROVE  PlaceInv'
<1> USE DEF TypeOK, PortTypeOK, FaultKind, PlaceInv, Inside
<1>0. PICK p \in Tools : ToolSteps(p)
  BY DEF Next, ToolSteps
<1>1. CASE Start(p)
  BY <1>1 DEF Start, Goto, portVars, history
<1>2. CASE FindFree(p)
  BY <1>2, StrikesCounts DEF FindFree, Goto, LookupFree, LookupFails, portVars
<1>3. CASE FindUsed(p)
  BY <1>3 DEF FindUsed, Goto, portVars, history
<1>4. CASE OpenPort(p)
  BY <1>4, StrikesCounts DEF OpenPort, Goto, Open, Skip, history
<1>5. CASE SaveSettings(p)
  BY <1>5, StrikesCounts DEF SaveSettings, Goto, SaveOld, Skip, history
<1>6. CASE ReadSettings(p)
  BY <1>6, StrikesCounts DEF ReadSettings, Goto, GetNew, Skip, history
<1>7. CASE ApplySettings(p)
  BY <1>7, StrikesCounts DEF ApplySettings, Goto, Session, SetNew, Skip, history
<1>8. CASE Read(p)
  BY <1>8 DEF Read, SetNew, history
<1>9. CASE EndSession(p)
  BY <1>9 DEF EndSession, Goto, portVars, history
<1>10. CASE BreakOn(p)
  BY <1>10, StrikesCounts DEF BreakOn, Goto, SetBreak, Skip, history
<1>11. CASE BreakOff(p)
  BY <1>11, StrikesCounts DEF BreakOff, Goto, SetBreak, Skip, history
<1>12. CASE SendKey(p)
  BY <1>12 DEF SendKey, Goto, portVars, history
<1>13. CASE RestoreSettings(p)
  BY <1>13, StrikesCounts DEF RestoreSettings, Goto, Restore, Skip, history
<1>14. CASE ClosePort(p)
  BY <1>14 DEF ClosePort, Goto, Release
<1>15. CASE Kill(p)
  BY <1>15, StrikesCounts DEF Kill, Release
<1>16. CASE CommandFails(p)
  BY <1>16, StrikesCounts DEF CommandFails, Goto, Release
<1> QED
  BY <1>0, <1>1, <1>2, <1>3, <1>4, <1>5, <1>6, <1>7, <1>8, <1>9, <1>10, <1>11, <1>12,
     <1>13, <1>14, <1>15, <1>16 DEF ToolSteps

\* Opening makes all lookups stale, and only one that found nobody is not.
LEMMA DoorStep ==
  ASSUME TypeOK, DoorInv, OneThroughTheDoor, Next
  PROVE  (DoorInv /\ OneThroughTheDoor)'
<1> USE DEF TypeOK, PortTypeOK, FaultKind, DoorInv, OneThroughTheDoor, Holders
<1>0. PICK p \in Tools : ToolSteps(p)
  BY DEF Next, ToolSteps
<1>1. CASE Start(p)
  BY <1>1 DEF Start, Goto, portVars, history
<1>2. CASE FindFree(p)
  BY <1>2, StrikesCounts DEF FindFree, Goto, LookupFree, LookupFails, portVars
<1>3. CASE FindUsed(p)
  BY <1>3 DEF FindUsed, Goto, portVars, history
<1>4. CASE OpenPort(p)
  BY <1>4, StrikesCounts DEF OpenPort, Goto, Open, Skip, history
<1>5. CASE SaveSettings(p)
  BY <1>5, StrikesCounts DEF SaveSettings, Goto, SaveOld, Skip, history
<1>6. CASE ReadSettings(p)
  BY <1>6, StrikesCounts DEF ReadSettings, Goto, GetNew, Skip, history
<1>7. CASE ApplySettings(p)
  BY <1>7, StrikesCounts DEF ApplySettings, Goto, Session, SetNew, Skip, history
<1>8. CASE Read(p)
  BY <1>8 DEF Read, SetNew, history
<1>9. CASE EndSession(p)
  BY <1>9 DEF EndSession, Goto, portVars, history
<1>10. CASE BreakOn(p)
  BY <1>10, StrikesCounts DEF BreakOn, Goto, SetBreak, Skip, history
<1>11. CASE BreakOff(p)
  BY <1>11, StrikesCounts DEF BreakOff, Goto, SetBreak, Skip, history
<1>12. CASE SendKey(p)
  BY <1>12 DEF SendKey, Goto, portVars, history
<1>13. CASE RestoreSettings(p)
  BY <1>13, StrikesCounts DEF RestoreSettings, Goto, Restore, Skip, history
<1>14. CASE ClosePort(p)
  BY <1>14 DEF ClosePort, Goto, Release
<1>15. CASE Kill(p)
  BY <1>15, StrikesCounts DEF Kill, Release
<1>16. CASE CommandFails(p)
  BY <1>16, StrikesCounts DEF CommandFails, Goto, Release
<1> QED
  BY <1>0, <1>1, <1>2, <1>3, <1>4, <1>5, <1>6, <1>7, <1>8, <1>9, <1>10, <1>11, <1>12,
     <1>13, <1>14, <1>15, <1>16 DEF ToolSteps

\* Who is alone with the port saves what the user left, and sets it again.
LEMMA SavedStep ==
  ASSUME TypeOK, PlaceInv, DoorInv, SavedInv, SettingsRestored, Next
  PROVE  (SavedInv /\ SettingsRestored)'
<1> USE DEF TypeOK, PortTypeOK, FaultKind, PlaceInv, DoorInv, SavedInv, SettingsRestored,
           Undisturbed, Inside, Holders
<1>0. PICK p \in Tools : ToolSteps(p)
  BY DEF Next, ToolSteps
<1>1. CASE Start(p)
  BY <1>1 DEF Start, Goto, portVars, history
<1>2. CASE FindFree(p)
  BY <1>2, StrikesCounts DEF FindFree, Goto, LookupFree, LookupFails, portVars
<1>3. CASE FindUsed(p)
  BY <1>3 DEF FindUsed, Goto, portVars, history
<1>4. CASE OpenPort(p)
  BY <1>4, StrikesCounts DEF OpenPort, Goto, Open, Skip, history
<1>5. CASE SaveSettings(p)
  BY <1>5, StrikesCounts DEF SaveSettings, Goto, SaveOld, Skip, history
<1>6. CASE ReadSettings(p)
  BY <1>6, StrikesCounts DEF ReadSettings, Goto, GetNew, Skip, history
<1>7. CASE ApplySettings(p)
  BY <1>7, StrikesCounts DEF ApplySettings, Goto, Session, SetNew, Skip, history
<1>8. CASE Read(p)
  BY <1>8 DEF Read, SetNew, history
<1>9. CASE EndSession(p)
  BY <1>9 DEF EndSession, Goto, portVars, history
<1>10. CASE BreakOn(p)
  BY <1>10, StrikesCounts DEF BreakOn, Goto, SetBreak, Skip, history
<1>11. CASE BreakOff(p)
  BY <1>11, StrikesCounts DEF BreakOff, Goto, SetBreak, Skip, history
<1>12. CASE SendKey(p)
  BY <1>12 DEF SendKey, Goto, portVars, history
<1>13. CASE RestoreSettings(p)
  BY <1>13, StrikesCounts DEF RestoreSettings, Goto, Restore, Skip, history
<1>14. CASE ClosePort(p)
  BY <1>14 DEF ClosePort, Goto, Release
<1>15. CASE Kill(p)
  BY <1>15, StrikesCounts DEF Kill, Release
<1>16. CASE CommandFails(p)
  BY <1>16, StrikesCounts DEF CommandFails, Goto, Release
<1> QED
  BY <1>0, <1>1, <1>2, <1>3, <1>4, <1>5, <1>6, <1>7, <1>8, <1>9, <1>10, <1>11, <1>12,
     <1>13, <1>14, <1>15, <1>16 DEF ToolSteps

\* A break stays accounted for as long as no sysrq that is to end it moves on.
LEMMA BreakKept ==
  ASSUME BreakEnds,
         breaking' => breaking, overlapped => overlapped',
         faults["call"] > 0 => faults'["call"] > 0,
         \A q \in Sysrq : pc[q] = "release" => pc'[q] = "release",
         \A q \in Sysrq : pc[q] \in {"restore", "close"} => pc'[q] \in {"restore", "close"}
  PROVE  BreakEnds'
BY DEF BreakEnds

\* Only the sysrq that sends a break can leave it, and not unless a call fails.
LEMMA BreakStep ==
  ASSUME TypeOK, PlaceInv, DoorInv, BreakEnds, Next
  PROVE  BreakEnds'
<1> USE DEF TypeOK, PortTypeOK, FaultKind, PlaceInv, Inside
<1>0. PICK p \in Tools : ToolSteps(p)
  BY DEF Next, ToolSteps
<1>1. CASE Start(p)
  BY <1>1, BreakKept DEF Start, Goto, portVars, history
<1>2. CASE FindFree(p)
  BY <1>2, BreakKept, StrikesCounts DEF FindFree, Goto, LookupFree, LookupFails, portVars
<1>3. CASE FindUsed(p)
  BY <1>3, BreakKept DEF FindUsed, Goto, portVars, history
<1>4. CASE OpenPort(p)
  <2>1. CASE Goto(p, "open", "save") /\ Open(p)
    BY <2>1, BreakKept DEF Goto, Open
  <2>2. CASE Goto(p, "open", "exited") /\ Skip("call")
    BY <2>2, BreakKept, StrikesCounts DEF Goto, Skip, history
  <2> QED
    BY <1>4, <2>1, <2>2 DEF OpenPort
<1>5. CASE SaveSettings(p)
  <2>1. CASE Goto(p, "save", "change") /\ SaveOld(p)
    BY <2>1, BreakKept DEF Goto, SaveOld, history
  <2>2. CASE Goto(p, "save", "restore") /\ Skip("save")
    BY <2>2, BreakKept, StrikesCounts DEF Goto, Skip, history
  <2> QED
    BY <1>5, <2>1, <2>2 DEF SaveSettings
<1>6. CASE ReadSettings(p)
  <2>1. CASE Goto(p, "change", "apply") /\ GetNew(p)
    BY <2>1, BreakKept DEF Goto, GetNew, history
  <2>2. CASE Goto(p, "change", "restore") /\ Skip("call")
    BY <2>2, BreakKept, StrikesCounts DEF Goto, Skip, history
  <2> QED
    BY <1>6, <2>1, <2>2 DEF ReadSettings
<1>7. CASE ApplySettings(p)
  <2>1. CASE Goto(p, "apply", Session(p)) /\ SetNew(p)
    BY <2>1, BreakKept DEF Goto, Session, SetNew, history
  <2>2. CASE Goto(p, "apply", "restore") /\ Skip("call")
    BY <2>2, BreakKept, StrikesCounts DEF Goto, Skip, history
  <2> QED
    BY <1>7, <2>1, <2>2 DEF ApplySettings
<1>8. CASE Read(p)
  BY <1>8, BreakKept DEF Read, SetNew, history
<1>9. CASE EndSession(p)
  BY <1>9, BreakKept DEF EndSession, Goto, portVars, history
<1>10. CASE BreakOn(p)
  <2>1. CASE Goto(p, "break", "release") /\ SetBreak(TRUE)
    <3>1. p \in Sysrq /\ pc'[p] = "release"
      BY <2>1 DEF Goto
    <3> QED
      BY <3>1 DEF BreakEnds
  <2>2. CASE Goto(p, "break", "restore") /\ Skip("call")
    BY <2>2, BreakKept, StrikesCounts DEF Goto, Skip, history
  <2> QED
    BY <1>10, <2>1, <2>2 DEF BreakOn
<1>11. CASE BreakOff(p)
  <2>1. CASE Goto(p, "release", "restore") /\ Skip("call")
    <3>1. p \in Sysrq /\ pc'[p] = "restore" /\ faults'["call"] > 0
      BY <2>1, StrikesCounts DEF Goto, Skip
    <3> QED
      BY <3>1 DEF BreakEnds
  <2>2. CASE ~breaking'
    BY <2>2 DEF BreakEnds
  <2> QED
    BY <1>11, <2>1, <2>2 DEF BreakOff, SetBreak
<1>12. CASE SendKey(p)
  BY <1>12, BreakKept DEF SendKey, Goto, portVars, history
<1>13. CASE RestoreSettings(p)
  BY <1>13, BreakKept, StrikesCounts DEF RestoreSettings, Goto, Restore, Skip, history
<1>14. CASE ClosePort(p)
  <2>1. CASE overlapped
    BY <1>14, <2>1 DEF ClosePort, Goto, Release, BreakEnds
  <2>2. CASE ~breaking'
    BY <2>2 DEF BreakEnds
  <2>3. CASE ~overlapped /\ breaking'
    <3>1. breaking /\ Holders \ {p} # {} /\ ~fd[p]
      BY <1>14, <2>3 DEF ClosePort, Goto, Release, DoorInv, Holders
    <3>2. pc[p] \notin Inside
      BY <3>1
    <3> QED
      BY <1>14, <3>1, <3>2, BreakKept DEF ClosePort, Goto, Release
  <2> QED
    BY <2>1, <2>2, <2>3
<1>15. CASE Kill(p)
  <2>1. CASE overlapped
    BY <1>15, <2>1 DEF Kill, Release, BreakEnds
  <2>2. CASE ~breaking'
    BY <2>2 DEF BreakEnds
  <2>3. CASE ~overlapped /\ breaking'
    <3>1. breaking /\ Holders \ {p} # {} /\ ~fd[p]
      BY <1>15, <2>3 DEF Kill, Release, DoorInv, Holders
    <3>2. pc[p] \notin Inside
      BY <3>1
    <3> QED
      BY <1>15, <3>1, <3>2, BreakKept, StrikesCounts DEF Kill, Release
  <2> QED
    BY <2>1, <2>2, <2>3
\* One that has the port alone ends the break with it.
<1>16. CASE CommandFails(p)
  <2>1. CASE overlapped
    BY <1>16, <2>1 DEF CommandFails, Release, BreakEnds
  <2>2. CASE ~breaking'
    BY <2>2 DEF BreakEnds
  <2>3. CASE ~overlapped /\ breaking'
    <3>1. breaking /\ Holders \ {p} # {} /\ ~fd[p]
      BY <1>16, <2>3 DEF CommandFails, Release, DoorInv, Holders
    <3> QED
      BY <1>16, <3>1 DEF CommandFails, Goto
  <2> QED
    BY <2>1, <2>2, <2>3
<1> QED
  BY <1>0, <1>1, <1>2, <1>3, <1>4, <1>5, <1>6, <1>7, <1>8, <1>9, <1>10, <1>11, <1>12,
     <1>13, <1>14, <1>15, <1>16 DEF ToolSteps
-----------------------------------------------------------------------------
LEMMA InitHolds == Init => IInv
<1> SUFFICES ASSUME Init PROVE IInv
  OBVIOUS
<1>1. Holders = {} /\ settings = UserMode /\ ~breaking /\ stale = Tools
  BY DEF Init, PortInit, Holders
<1>2. TypeOK
  BY SerialPortAssumption, PortToolsAssumption
  DEF Init, PortInit, TypeOK, PortTypeOK, Zero, Modes
<1>3. PlaceInv /\ SavedInv
  BY DEF Init, PortInit, PlaceInv, SavedInv, Inside
<1>4. DoorInv /\ OneThroughTheDoor /\ SettingsRestored /\ BreakEnds
  BY <1>1 DEF DoorInv, OneThroughTheDoor, SettingsRestored, BreakEnds
<1> QED
  BY <1>2, <1>3, <1>4 DEF IInv

LEMMA StutterHolds == IInv /\ UNCHANGED vars => IInv'
BY DEF vars, portVars, history, IInv, TypeOK, PortTypeOK, PlaceInv, DoorInv, SavedInv,
       Undisturbed, OneThroughTheDoor, SettingsRestored, BreakEnds, Holders

(* The inductive invariant holds in every state of every behaviour.        *)
THEOREM Invariance == Spec => []IInv
<1>1. IInv /\ [Next]_vars => IInv'
  BY StutterHolds, TypeStep, PlaceStep, DoorStep, SavedStep, BreakStep DEF IInv
<1> QED
  BY <1>1, InitHolds, PTL DEF Spec

(* Settings, descriptors and counters have their types, also after zeros   *)
(* were set that nobody had saved (serial_posix.c:114-294).                *)
THEOREM TypeCorrect == Spec => []TypeOK
BY Invariance, PTL DEF IInv

(* However many programs look for the port and open it, of those that have *)
(* it at most one looked in time: two on one port need the gap between     *)
(* lsof and open, or an lsof that failed (serial_posix.c:86-95).           *)
THEOREM OneThrough == Spec => []OneThroughTheDoor
BY Invariance, PTL DEF IInv

(* A port nobody has open is as the user left it, after any number of runs *)
(* and failed calls, unless two shared it, one was killed, a call that     *)
(* saves or restores failed, or pserial could not write its command        *)
(* (serial_posix.c:114-227, 259-294, pserial.c:288-306).                   *)
THEOREM Restored == Spec => []SettingsRestored
BY Invariance, PTL DEF IInv

(* A break ends with its sender, whatever fails in between, as long as the *)
(* port is not shared (serial_posix.c:416-435, sysrq.c:61-79).             *)
THEOREM BreakEnded == Spec => []BreakEnds
BY Invariance, PTL DEF IInv
=============================================================================
