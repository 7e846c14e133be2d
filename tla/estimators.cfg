CONSTANTS
    MaxFlights = 2
    MaxMissions = 3
    MaxGaps = 3
    MaxSequence = 4
SPECIFICATION Spec
INVARIANT EstimatesOfThisMission
INVARIANT NoSumOverGap
INVARIANT FlightsDoNotMix
PROPERTY DampedAfterMission
