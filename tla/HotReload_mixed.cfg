CONSTANTS
    MaxGen = 1
    Interval = 3
    Debounce = 1
SPECIFICATION Spec
INVARIANT ConsistentForecaster
\* The worker thread really ends: run() returns once stop() has been called.
CHECK_DEADLOCK FALSE
