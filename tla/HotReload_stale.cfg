CONSTANTS
    MaxGen = 2
    Interval = 3
    Debounce = 1
SPECIFICATION FairSpec
PROPERTY ForecasterEventuallyCurrent
\* The worker thread really ends: run() returns once stop() has been called.
CHECK_DEADLOCK FALSE
