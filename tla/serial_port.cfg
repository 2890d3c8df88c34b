SPECIFICATION Spec
CONSTANTS
  Tools = {sysrq, pserial, ukermit}
  sysrq = sysrq
  pserial = pserial
  ukermit = ukermit
  Even = {pserial}
  Sysrq = {sysrq}
  UserMode <- MCUserMode
  LongerName = TRUE
  MaxFaults <- MCFaults
  MaxRuns <- MCRuns
INVARIANTS
  TypeOK
  OneThroughTheDoor
  SettingsRestored
  BreakEnds
\* In the end every program has been run as often as it may.
CHECK_DEADLOCK FALSE
