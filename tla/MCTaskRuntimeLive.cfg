\* Two timers, so that TLC can build the behaviour graph.
SPECIFICATION FairSpec
CONSTANTS
    MaxTimers = 2
    KeyMod = 3
    Delays <- MCShortDelays
    StepMax = 1
    MaxTime = 3
    MaxQueue = 2
PROPERTIES
    MessageWakesThread
    DueTimerLeaves
    QueuedTimeoutFires
