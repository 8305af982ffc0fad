SPECIFICATION FairSpec
CONSTANTS
  RequiredNodes = {"Core", "E1", "E2", "E3"}
  Null = Null
  FileName <- LowerName
  Steps <- WorkflowSteps
  Outcomes <- WorkflowOutcomes
  Manifests <- WorkflowManifests
  MaxJobs = 2
INVARIANTS
  CyclesAreFound
  VerdictIsEarned
  MissingIsNotFailure
PROPERTY JobConcludes
CHECK_DEADLOCK FALSE
