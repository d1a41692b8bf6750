\* Three timers, delays on both sides of the longest wait.
SPECIFICATION Spec
CONSTANTS
    MaxTimers = 3
    KeyMod = 4
    Delays <- MCDelays
    StepMax = 2
    MaxTime = 3
    MaxQueue = 2
INVARIANTS
    TypeOK
    ParaOwnedOnce
    TableMatchesQueue
    TimeoutsInOrder
PROPERTY
    ImplementsService
