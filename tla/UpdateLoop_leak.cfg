CONSTANTS
    Window = 3
    Retry = 2
SPECIFICATION Spec
INVARIANT SnapshotsCleaned
