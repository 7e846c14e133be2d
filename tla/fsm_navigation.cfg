CONSTANTS
    MaxId = 1
    ArmRetries = 1
    LandRetries = 1
    NavMonitor = TRUE
    Losses <- AllFresh
    Modes <- TwoModes
    Stimuli <- NavigationStimuli
SPECIFICATION Spec
PROPERTY BadNavigationStops
PROPERTY KeepsMissionPromise
