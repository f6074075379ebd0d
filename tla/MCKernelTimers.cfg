SPECIFICATION Spec
CONSTANTS
    Threads = {t}
    Clock = Clock
    Control = Control
    t = t
    MaxRetries = 0
    MaxBusy = 2
INVARIANTS
    TimersStopped
    WaitingAttended
PROPERTIES
    RetriesEnd
CHECK_DEADLOCK FALSE
