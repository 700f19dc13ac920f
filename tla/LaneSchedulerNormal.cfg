\* The default weights and the default starvation limit.
SPECIFICATION LaneSpec
CONSTANTS
  Weight <- DefaultLaneWeights
  StarvationLimit = 10
  MaxDepth = 2
INVARIANTS
  NoLaneStarves
