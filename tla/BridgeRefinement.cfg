CONSTANTS
  Session = {s1, s2}
  Event = {e1, e2}
  Verdict = {tempfail, accept}
  TempFail = tempfail
  Node = node
  Null = null
  Failing = {"generate queue", "generate event", "trigger queue"}
SPECIFICATION Spec
PROPERTY ImplementsService
