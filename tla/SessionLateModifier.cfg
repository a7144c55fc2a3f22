CONSTANTS
  Session = {s1, s2}
  Verdict = {tempfail}
  TempFail = tempfail
  Object = {o1, o2, o3}
  Null = null
  Refusing = {}
  Late = TRUE
SPECIFICATION SessionSpec
INVARIANT ModifiersAtEndOfMessage
