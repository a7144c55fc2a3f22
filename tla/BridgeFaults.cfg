CONSTANTS
  Session = {s1, s2}
  Event = {e1, e2}
  Verdict = {tempfail, accept}
  TempFail = tempfail
  Node = node
  Null = null
  Failing = {"generate queue", "generate event", "trigger queue", "trigger event", "signal"}
SPECIFICATION Spec
SYMMETRY Symmetry
INVARIANTS
  IInv
  HandOff
  LiveEvents
  NoCircularWait
  NoDataRace
  DestroyedAtRest
PROPERTY ImplementsLossyService
