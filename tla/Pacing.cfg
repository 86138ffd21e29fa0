CONSTANTS
    Gaps = {2, 6, 24}
    NumBlocks = 5
    MaxWork = 2
    Unset = {}
SPECIFICATION Spec
INVARIANT TypeOK
INVARIANT SteadyDelay
INVARIANT BoundedDelay
\* All blocks have been handled.
CHECK_DEADLOCK FALSE
