CONSTANTS
    BiasSamples = 3
    Cap = 6
SPECIFICATION FairSpec
INVARIANT BiasOfItsPoses
PROPERTY MessagesUsedOnce
PROPERTY OutputNeverStops
