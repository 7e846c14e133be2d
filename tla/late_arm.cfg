CONSTANTS
    MaxId = 1
    ArmRetries = 1
    LandRetries = 1
    NavMonitor = FALSE
    Losses <- StateOrOdom
    Modes <- TwoModes
    Stimuli <- TakeoffOnly
SPECIFICATION Spec
PROPERTY LateArmNeutralized
