\* Two accounts, two parachain blocks, six relay blocks; an inclusion may come
\* up to five relay blocks after its relay parent.
CONSTANTS
    a1 = a1
    a2 = a2
    para1 = para1
    para2 = para2
    Accounts <- MCAccounts
    ParaID = para1
    OtherParaIDs <- MCOtherParaIDs
    MaxBlock = 2
    MaxDigestItems = 1
    MaxRelayBlock = 6
    MaxInclusionDelay = 5

SPECIFICATION Spec

\* Scan is a call that returns: its final states have no successor
CHECK_DEADLOCK FALSE

INVARIANT ProvableAtBeefy
INVARIANT InclusionWitness
