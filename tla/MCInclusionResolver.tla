------------------------ MODULE MCInclusionResolver ------------------------
(* Model-checking instance of InclusionResolver: our parachain and one     *)
(* other, three parachain blocks included within eight relay blocks.       *)
EXTENDS InclusionResolver

CONSTANTS para1, para2

MCOtherParaIDs == {para2}
=============================================================================
