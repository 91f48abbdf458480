\* A debounce window longer than the poll interval (both are options), so
\* that a difference can be seen again while still inside the window.
CONSTANTS
    MaxGen = 2
    Interval = 1
    Debounce = 2
SPECIFICATION FairSpec
INVARIANT TypeOK
PROPERTY ReloadSettles
\* The worker thread really ends: run() returns once stop() has been called.
CHECK_DEADLOCK FALSE
