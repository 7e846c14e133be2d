CONSTANTS
    HoverFrames = 2
    StillFrames = 2
    StartWindow = 1
    Total = 2
SPECIFICATION FairSpec
INVARIANT OneRecorder
INVARIANT CompleteMeansFlown
PROPERTY TakeoffAfterPilot
PROPERTY RecordsWholeFlight
PROPERTY KeepsTaskPromise
PROPERTY TaskEnds
PROPERTY LockComesBack
