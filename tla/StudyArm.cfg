CONSTANTS
  NumCells = 2
  Settings = {s1, s2}
  Sources = {v1}
  Resume = {TRUE}
  Stamping = {TRUE, FALSE}
  AttemptLimit = 2
  MaxLaunches = 2
  MaxKills = 1
  NoFile = NoFile
  Torn = Torn
SPECIFICATION FairSpec
INVARIANTS SummaryDescribesDisk ArchiveMatchesRecord UnkilledVerdictsAreOwn
PROPERTIES ResumeKeepsObservations ArmEnds
CHECK_DEADLOCK FALSE
