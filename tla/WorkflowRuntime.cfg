CONSTANTS
  Requests = {r1, r2, r3}
  States <- MCStates
  InitialState = "draft"
  TransitionMap <- MCMap
  Expected <- MCSometimes
  None = None
SPECIFICATION FairSpec
INVARIANTS AuditedIffCommitted AuditIsHistory
PROPERTIES EveryRequestAnswered
