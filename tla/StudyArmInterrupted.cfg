CONSTANTS
  NumCells = 2
  Settings = {s1}
  Sources = {v1}
  Resume = {TRUE}
  Stamping = {FALSE}
  AttemptLimit = 2
  MaxLaunches = 2
  MaxKills = 1
  NoFile = NoFile
  Torn = Torn
SPECIFICATION Spec
INVARIANTS InterruptedArmResumes
CHECK_DEADLOCK FALSE
