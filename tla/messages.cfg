CONSTANTS
    MaxEdits = 1
    MaxText = 2
SPECIFICATION Spec
INVARIANT ArrivesAsSent
INVARIANT NoticesShort
INVARIANT ForwardsWhatItReceived
PROPERTY TornIsPrefix
