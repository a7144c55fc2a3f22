CONSTANTS
  Session = {s1}
  Verdict = {tempfail}
  TempFail = tempfail
  Null = null
  Arguments <- MCArguments
  Made = {"negotiate", "body", "close"}
  MaxStarts = 2
SPECIFICATION DaemonSpec
INVARIANT CallbackLaunched
CHECK_DEADLOCK FALSE
