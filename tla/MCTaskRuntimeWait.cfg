\* The comments at abstracttask.C 65 and 67, which getNext(0) breaks.
SPECIFICATION Spec
CONSTANTS
    MaxTimers = 2
    KeyMod = 3
    Delays <- MCShortDelays
    StepMax = 1
    MaxTime = 3
    MaxQueue = 2
INVARIANT
    WaitBounded
