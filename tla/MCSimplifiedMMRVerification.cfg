\* Every leaf of every MMR of up to fourteen leaves: one to three peaks,
\* Merkle paths of up to three items.
CONSTANTS
    MaxLeaves = 14

SPECIFICATION Spec

INVARIANT HonestProofsVerify
