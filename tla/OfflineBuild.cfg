CONSTANTS
  Paths = {1, 2}
  Contents = {0, 1, 2, 3, 4, 5}
  Absent = Absent
  Torn = Torn
  MaxCrashes = 1
  Lines <- MCLines
  PromptLines <- MCPromptLines
  Requests <- MCRequests
  Prompts = {1, 2, 3, 4, 5}
  Made <- MCMade
  MaxBuilds = 3
SPECIFICATION Spec
INVARIANTS
  WriteConverges
  RewriteIsIdle
  NoOrphans
  EvidenceIsOfOneBuild
  TracesLoad
  TracesTellRuns
PROPERTIES
  StrangersUntouched
  FailsClosed
