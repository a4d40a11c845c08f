-------------------- MODULE SimplifiedMMRVerification --------------------
(***************************************************************************)
(* The Solidity library SimplifiedMMRVerification                          *)
(* (src/ethereum/contracts/utils/SimplifiedMMRVerification.sol): a leaf is *)
(* proven against an MMR root by a Merkle path up to its peak, the peaks   *)
(* to its left, and the bag of the peaks to its right.  It is checked      *)
(* against a reference Merkle Mountain Range built recursively from its   *)
(* leaves, with peaks bagged right to left as merge(right, left).          *)
(*                                                                         *)
(* keccak256(abi.encodePacked(a, b)) is abstracted to a free constructor:  *)
(* two hashes are equal exactly when they hash the same pair, so a proof  *)
(* verifies exactly when the code rebuilds the reference root.  The bytes *)
(* value 0x0 that marks a missing right bag is Zero.                       *)
(***************************************************************************)
EXTENDS Naturals, Sequences, SequencesExt, FiniteSetsExt

CONSTANTS
    MaxLeaves   \* MMRs of 1..MaxLeaves leaves are checked

VARIABLES
    leafCount,  \* leaves in the MMR
    leafIndex   \* the leaf proven, 1..leafCount

vars == <<leafCount, leafIndex>>

Keccak(a, b) == [left |-> a, right |-> b]
Leaf(k) == [leaf |-> k]
Zero == [zero |-> 0]

-----------------------------------------------------------------------------
(* The reference MMR *)

\* the largest power of two not above n
TopPow2(n) == Max({p \in {2^e : e \in 0..n} : p <= n})

\* the perfect trees of an MMR of n leaves from leaf start on, left to right
RECURSIVE PeakRanges(_, _)
PeakRanges(n, start) ==
    IF n = 0 THEN <<>>
    ELSE <<[start |-> start, size |-> TopPow2(n)]>>
         \o PeakRanges(n - TopPow2(n), start + TopPow2(n))

RECURSIVE TreeRoot(_, _)
TreeRoot(start, size) ==
    IF size = 1 THEN Leaf(start)
    ELSE Keccak(TreeRoot(start, size \div 2),
                TreeRoot(start + size \div 2, size \div 2))

PeakRoots(ranges) == [i \in DOMAIN ranges |-> TreeRoot(ranges[i].start, ranges[i].size)]

\* bagging as the MMR library does: merge(bag of the right peaks, left peak)
RECURSIVE RefBag(_)
RefBag(ps) == IF Len(ps) = 1 THEN ps[1] ELSE Keccak(RefBag(Tail(ps)), ps[1])

MMRRoot(n) == RefBag(PeakRoots(PeakRanges(n, 1)))

\* the Merkle path of leaf k in the tree of size leaves from start, leaf first
RECURSIVE MerklePath(_, _, _)
MerklePath(start, size, k) ==
    IF size = 1 THEN <<>>
    ELSE LET half == size \div 2
         IN  IF k < start + half
             THEN MerklePath(start, half, k)
                  \o <<[sibling |-> TreeRoot(start + half, half), isLeft |-> FALSE]>>
             ELSE MerklePath(start + half, half, k)
                  \o <<[sibling |-> TreeRoot(start, half), isLeft |-> TRUE]>>

\* the proof an honest prover builds for leaf k of an MMR of n leaves
GenerateProof(n, k) ==
    LET ranges == PeakRanges(n, 1)
        roots  == PeakRoots(ranges)
        j      == CHOOSE i \in DOMAIN ranges :
                    ranges[i].start <= k /\ k < ranges[i].start + ranges[i].size
        path   == MerklePath(ranges[j].start, ranges[j].size, k)
    IN  [restOfThePeaks  |-> SubSeq(roots, 1, j - 1),
         rightBaggedPeak |-> IF j = Len(roots) THEN Zero
                             ELSE RefBag(SubSeq(roots, j + 1, Len(roots))),
         merkleProofItems |-> [i \in DOMAIN path |-> path[i].sibling],
         merkleProofOrderBitField |->
            MapThenSumSet(LAMBDA i : IF path[i].isLeft THEN 2^(i - 1) ELSE 0,
                          DOMAIN path),
         peakRoot |-> roots[j]]

-----------------------------------------------------------------------------
(* The library *)

\* bit(self, index): (self >> index) & 1 == 1
bit(self, index) == (self \div 2^index) % 2 = 1

\* mutant: the order bit is read one position too high
calculateMerkleRootShifted(leafNodeHash, merkleProofItems, merkleProofOrderBitField) ==
    FoldLeft(LAMBDA currentHash, pos :
               IF bit(merkleProofOrderBitField, pos)
               THEN Keccak(merkleProofItems[pos], currentHash)
               ELSE Keccak(currentHash, merkleProofItems[pos]),
             leafNodeHash, [pos \in DOMAIN merkleProofItems |-> pos])

\* hash up the path, the sibling on the left where the position's bit is set
calculateMerkleRoot(leafNodeHash, merkleProofItems, merkleProofOrderBitField) ==
    FoldLeft(LAMBDA currentHash, pos :
               IF bit(merkleProofOrderBitField, pos - 1)
               THEN Keccak(merkleProofItems[pos], currentHash)
               ELSE Keccak(currentHash, merkleProofItems[pos]),
             leafNodeHash, [pos \in DOMAIN merkleProofItems |-> pos])

verifyMerkleRoot(root, leafNodeHash, merkleProofItems, merkleProofOrderBitField) ==
    calculateMerkleRoot(leafNodeHash, merkleProofItems, merkleProofOrderBitField) = root

\* mutant: the next peak is hashed to the left of the bag
bagPeaksSwapped(reversedPeaks) ==
    FoldLeft(LAMBDA bag, peak : Keccak(peak, bag), Head(reversedPeaks), Tail(reversedPeaks))

\* require(reversedPeaks.length > 0) holds for every call below
bagPeaks(reversedPeaks) ==
    FoldLeft(LAMBDA bag, peak : Keccak(bag, peak), Head(reversedPeaks), Tail(reversedPeaks))

\* the right bag (if any), the leaf's peak, the left peaks from right to left
verifyInclusionProof(root, leafNodeHash, proof) ==
    LET reversedPeaks ==
            (IF proof.rightBaggedPeak # Zero THEN <<proof.rightBaggedPeak>> ELSE <<>>)
            \o <<calculateMerkleRoot(leafNodeHash, proof.merkleProofItems,
                                     proof.merkleProofOrderBitField)>>
            \o Reverse(proof.restOfThePeaks)
    IN  /\ Len(proof.merkleProofItems) < 64
        /\ bagPeaks(reversedPeaks) = root

-----------------------------------------------------------------------------
Init ==
    /\ leafCount \in 1..MaxLeaves
    /\ leafIndex \in 1..leafCount

Next == UNCHANGED vars

Spec == Init /\ [][Next]_vars

(***************************************************************************)
(* The contract agrees with the MMR: for every MMR size and every leaf,    *)
(* the proof an honest prover builds passes verifyMerkleRoot against the   *)
(* leaf's peak and verifyInclusionProof against the MMR root, and the same *)
(* proof fails for every other leaf.  It exercises the order bitfield, the *)
(* optional right bag, the reversal of the left peaks and the bagging.     *)
(***************************************************************************)
HonestProofsVerify ==
    LET proof == GenerateProof(leafCount, leafIndex)
    IN  /\ verifyMerkleRoot(proof.peakRoot, Leaf(leafIndex), proof.merkleProofItems,
                            proof.merkleProofOrderBitField)
        /\ verifyInclusionProof(MMRRoot(leafCount), Leaf(leafIndex), proof)
        /\ \A other \in (1..leafCount) \ {leafIndex} :
              ~verifyInclusionProof(MMRRoot(leafCount), Leaf(other), proof)
=============================================================================
