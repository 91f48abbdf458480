\* Three probe iterations per window, two snapshot attempts: a window can
\* see a follower probe, a failed snapshot and a retried one.
CONSTANTS
    Window = 3
    Retry = 2
SPECIFICATION Spec
INVARIANT TypeOK
PROPERTY StopHonoured
PROPERTY CallSpec
