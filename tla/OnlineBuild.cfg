CONSTANTS
  Prompts = {p_ok, p_blocked}
  Blocked = {p_blocked}
  MaxRetries = 1
  RepairBudgets <- MCBudgets
  Seeds = {NoFile, "nonconforming"}
  MaxRuns = 2
  NoFile = NoFile
SPECIFICATION FairSpec
INVARIANTS AcceptedIsCoherent AcceptedPassedChecks OnlyVerifiedDraftsCompiled RecordIsWrittenLast CallsAreBounded
PROPERTIES BlockedStaysDeterministic ImplementsContract BuildEnds
CHECK_DEADLOCK FALSE
