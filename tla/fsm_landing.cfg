CONSTANTS
    MaxId = 1
    ArmRetries = 1
    LandRetries = 2
    NavMonitor = FALSE
    Losses <- AnyOneInput
    Modes <- ThreeModes
    Stimuli <- LandStimuli
SPECIFICATION FairSpec
INVARIANT FailsafeSilent
INVARIANT LandGateOpen
PROPERTY LandingIsFinal
PROPERTY LandingHappens
