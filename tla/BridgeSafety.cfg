CONSTANTS
  Session = {s1, s2, s3}
  Event = {e1, e2, e3}
  Verdict = {tempfail}
  TempFail = tempfail
  Node = node
  Null = null
  Failing = {}
SPECIFICATION Spec
SYMMETRY Symmetry
INVARIANTS
  TypeOK
  QueueRepresentsLine
  HandOff
  ContextKnown
  LiveEvents
  Accounted
  NeverAllAsleep
