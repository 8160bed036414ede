CONSTANTS
  Requests = {r1, r2}
  States <- MCStates
  InitialState = "draft"
  TransitionMap <- MCMap
  Expected <- MCAlways
  None = None
SPECIFICATION FairSpec
PROPERTIES TransitionsFollowEdges
