\* Headers may carry two commitment digest items (spec 4.3, Open Question 2).
CONSTANTS
    a1 = a1
    a2 = a2
    Accounts <- MCAccounts
    MaxBlock = 2
    MaxDigestItems = 2

SPECIFICATION Spec

\* a scan is a call that returns: its final states have no successor
CHECK_DEADLOCK FALSE

INVARIANT DeliverableSequence
