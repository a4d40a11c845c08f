------------------------- MODULE MCCommitmentWalker -------------------------
(* Model-checking instance of CommitmentWalker: two watched accounts and a   *)
(* parachain of three blocks.                                                *)
EXTENDS CommitmentWalker

CONSTANTS a1, a2

MCAccounts == {a1, a2}
MCAccountsOne == {a1}
=============================================================================
