------------------------ MODULE MCBeefyEthereumListener ------------------------
EXTENDS BeefyEthereumListener

CONSTANTS i1, i2

MCItems == {i1, i2}
MCItemsOne == {i1}
=============================================================================
