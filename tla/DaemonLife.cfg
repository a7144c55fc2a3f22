CONSTANTS
  Session = {s1, s2}
  Verdict = {tempfail}
  TempFail = tempfail
  Null = null
  Arguments <- MCArguments
  Made = {"negotiate", "body", "close"}
  MaxStarts = 3
SPECIFICATION FairDaemonSpec
INVARIANTS
  DaemonTypeOK
  FunctionsReleased
  OnlyFailedStartKills
  NeverAllStranded
PROPERTIES
  RightFunction
  StopCompletes
  StrandedAreRescued
CHECK_DEADLOCK FALSE
