CONSTANT
    Jobs <- MCJobs
SPECIFICATION Spec
INVARIANT SkipLandsOnHead ImmediateInPage KnownToAll StaysInWindows LoopCloses
CHECK_DEADLOCK FALSE
