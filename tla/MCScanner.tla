------------------------------ MODULE MCScanner ------------------------------
(* Model-checking instance of Scanner: two watched accounts, our parachain  *)
(* and one other.                                                           *)
EXTENDS Scanner

CONSTANTS a1, a2, para1, para2

MCAccounts == {a1, a2}
MCAccountsOne == {a1}
MCOtherParaIDs == {para2}
=============================================================================
