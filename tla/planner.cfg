CONSTANTS
    HandshakeIds <- TwoIds
    Duration = 2
    Places <- GroundAndHover
SPECIFICATION FairSpec
INVARIANT FinalPointOnce
INVARIANT TornIsCancelled
PROPERTY TrajectoryEnds
