\* Two items through their lifecycle and a restart: five heads, five transactions.
CONSTANTS
    i1 = i1
    i2 = i2
    Items <- MCItems
    BlockWaitPeriod = 1
    DescendantsUntilFinal = 1
    MaxBlock = 5
    MaxTxs = 5
    StartBlock = 0
    MaxCrashes = 1

SPECIFICATION Spec

\* the listener stops at the last head the model produces
CHECK_DEADLOCK FALSE

INVARIANT TypeOK
PROPERTY ReadyAfterWait
