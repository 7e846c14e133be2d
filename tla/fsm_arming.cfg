CONSTANTS
    MaxId = 1
    ArmRetries = 1
    LandRetries = 1
    NavMonitor = FALSE
    Losses <- StateLoss
    Modes <- TwoModes
    Stimuli <- ArmingStimuli
SPECIFICATION Spec
INVARIANT ResultBacklogBounded
PROPERTY PendingArmForcesLanding
