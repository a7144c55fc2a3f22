CONSTANTS
  Session = {s1}
  Verdict = {tempfail}
  TempFail = tempfail
  Null = null
  Arguments <- MCArguments
  Made = {"negotiate", "body", "close"}
  MaxStarts = 1
SPECIFICATION FairDaemonSpec
PROPERTY QueuedReachesNode
CHECK_DEADLOCK FALSE
