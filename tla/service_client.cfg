CONSTANT Backlog = 3
SPECIFICATION ClientSpec
INVARIANT PendingExact
INVARIANT NoLostWakeup
PROPERTY KeepsPromise
PROPERTY DestructorReturns
CHECK_DEADLOCK FALSE
