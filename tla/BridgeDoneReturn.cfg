CONSTANTS
  Session = {s1, s2}
  Event = {e1, e2}
  Verdict = {tempfail}
  TempFail = tempfail
  Node = node
  Null = null
  Failing = {}
SPECIFICATION Spec
INVARIANT DoneReturnsTrue
