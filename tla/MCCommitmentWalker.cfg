\* Two accounts, three parachain blocks, one commitment item per header.
CONSTANTS
    a1 = a1
    a2 = a2
    Accounts <- MCAccounts
    MaxBlock = 3
    MaxDigestItems = 1

SPECIFICATION Spec

\* a scan is a call that returns: its final states have no successor
CHECK_DEADLOCK FALSE

INVARIANT TypeOK
INVARIANT DeliverableSequence
PROPERTY Termination
