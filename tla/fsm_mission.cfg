CONSTANTS
    MaxId = 2
    ArmRetries = 1
    LandRetries = 1
    NavMonitor = FALSE
    Losses <- AllFresh
    Modes <- TwoModes
    Stimuli <- MissionStimuli
SPECIFICATION Spec
INVARIANT MissionExact
PROPERTY FlightEndDropsMission
PROPERTY MissionNeedsBoth
