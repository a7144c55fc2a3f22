CONSTANTS
  Session = {s1, s2}
  Verdict = {tempfail}
  TempFail = tempfail
  Object = {o1, o2}
  Null = null
  Refusing = {"connect", "envfrom", "body", "eom", "abort", "close"}
  Late = FALSE
SPECIFICATION SessionSpec
SYMMETRY Symmetry
INVARIANTS
  SessionTypeOK
  EnvelopeOfSession
  HandleFromConnectToClose
  
PROPERTY HandlesReleased
