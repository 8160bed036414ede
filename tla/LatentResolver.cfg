SPECIFICATION Spec
CONSTANTS
  Fact <- MCFact
  RuleCount = 10
  Instances <- MCInstances
  Documents <- MCDocuments
  Schemas <- MCSchemas
  Artifact <- MCArtifact
  RequiresSchema <- MCRequiresSchema
  DatabaseFacts <- MCDatabaseFacts
  InvalidFacts <- MCInvalidFacts
  Dimensions <- MCDimensions
  Candidates <- MCCandidates
  Score <- MCScore
  None = none
INVARIANTS ClosureIsClosed ProofsAreGrounded SameCollapse ResolvedFactsAreValid
PROPERTY CompileEnds
