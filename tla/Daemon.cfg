SPECIFICATION ProcessFairSpec
CONSTANTS
    Faults = {"thread", "crash"}
    MaxLogLen = 1
INVARIANTS ThreadsAfterCredSpec RingInBounds LogFileBounded
PROPERTIES SignalEndsProcess ReadyIsServed
CHECK_DEADLOCK FALSE
