\* The catch-up as a whole, early return included.
CONSTANTS
    MaxBlock = 3
    MaxMsgs = 2

SPECIFICATION Spec

\* the catch-up is a call that returns: its final states have no successor
CHECK_DEADLOCK FALSE


INVARIANT CatchupComplete
