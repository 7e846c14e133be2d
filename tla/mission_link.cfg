CONSTANTS
    MaxId = 3
    TrajectoryTime = 1
SPECIFICATION LinkFairSpec
INVARIANT OwnTrajectoryFlown
INVARIANT StrayIsTold
PROPERTY HandshakeFliesOnce
PROPERTY MissionEnds
