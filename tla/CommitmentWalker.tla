--------------------------- MODULE CommitmentWalker ---------------------------
(***************************************************************************)
(* The commitment search of the parachain Scanner (src/unnamed/part_000):  *)
(* findTasks compares the basic-channel nonces of every watched account on *)
(* both sides of the bridge (NonceComparator), findTasksImpl walks the     *)
(* parachain backwards from the last finalized head (CommitmentWalker) and *)
(* scanForBasicChannelProofs selects the bundles to relay from each        *)
(* commitment (BundleProofFetcher).                                        *)
(*                                                                         *)
(* The chains are read at fixed block hashes, so they are fixed for the    *)
(* whole scan: Init chooses them, no action changes them.  A block's       *)
(* commitment hash is the block number itself; a Merkle proof whose root   *)
(* does not reconstruct carries BadRoot.  Every RPC of a step may fail,    *)
(* and so may the two consistency checks against the Committed event:      *)
(* these all return (nil, err) and are the one action Fail.                *)
(***************************************************************************)
EXTENDS Naturals, Sequences, FiniteSets, SequencesExt, TLC

CONSTANTS
    Accounts,        \* s.accounts: the watched accounts
    MaxBlock,        \* highest parachain block the environment produces
    MaxDigestItems   \* most commitment digest items a header may carry

VARIABLES
    \* ---- the parachain and Ethereum, as the scan reads them ----
    commits,        \* commits[b]: accounts with a bundle in block b's commitment
    digestItems,    \* digestItems[b]: commitment digest items in header b
    pending,        \* pending[a]: bundles of a queued, not committed at lastParaBlock
    ethNonce,       \* ethNonce[a]: BasicInboundChannel.Nonce(a), pending state
    lastParaBlock,  \* paraBlock: head finalized before the BEEFY block
    \* ---- the scanner ----
    phase,          \* "nonces", "walk", "done" (tasks returned) or "failed"
    basicChannelAccountNonces,  \* account -> first nonce missing on Ethereum
    basicChannelScanAccounts,   \* accounts whose search is still running
    scanBasicChannelDone,       \* the walk's loop flag
    currentBlockNumber,
    tasks,          \* sequence of [number, proofs]
    halted          \* accounts halted on a proof-root mismatch (the Warn log)

chain == <<commits, digestItems, pending, ethNonce, lastParaBlock>>
scan == <<phase, basicChannelAccountNonces, basicChannelScanAccounts,
          scanBasicChannelDone, currentBlockNumber, tasks, halted>>
vars == <<chain, scan>>

Blocks == 1..MaxBlock
BadRoot == 0

(***************************************************************************)
(* The parachain.  An account's bundle nonce goes up by one with every     *)
(* commitment that carries a bundle of it.                                 *)
(***************************************************************************)
Committed(a, b) == Cardinality({c \in 1..b : a \in commits[c]})

\* the bundles of the Committed event of block b, in bundle-index order
Bundles(b) ==
    LET order == SetToSeq(commits[b])
    IN  [i \in 1..Len(order) |-> [account |-> order[i],
                                  nonce   |-> Committed(order[i], b)]]

\* BasicOutboundChannel.Nonce(a) at the hash of lastParaBlock
ParaNonce(a) == Committed(a, lastParaBlock) + pending[a]

\* commitment hash announced by the digest items of header b
DigestHash(b) == b

\* mutant: halts on bundleNonce <= nonceToFind
ScanBundleHaltsAtTarget(acc, bundle, hash, bad) ==
    LET a == bundle.account
        t == basicChannelAccountNonces[a]
        proof == [account |-> a, nonce |-> bundle.nonce,
                  root |-> IF a \in bad THEN BadRoot ELSE hash]
        rest == acc.scan \ {a}
    IN  CASE a \notin acc.scan -> acc
          [] bundle.nonce <= t -> [acc EXCEPT !.scan = rest, !.done = (rest = {})]
          [] proof.root # hash ->
                [acc EXCEPT !.scan = rest, !.done = (rest = {}), !.halted = @ \cup {a}]
          [] OTHER -> [acc EXCEPT !.proofs = Append(@, proof)]

(***************************************************************************)
(* scanForBasicChannelProofs, one bundle: acc is the loop state (proofs,   *)
(* scan accounts, scanDone, halted); bad are the accounts whose fetched    *)
(* proof does not reconstruct the digest hash.                             *)
(***************************************************************************)
ScanBundle(acc, bundle, hash, bad) ==
    LET a     == bundle.account
        t     == basicChannelAccountNonces[a]
        proof == [account |-> a, nonce |-> bundle.nonce,
                  root |-> IF a \in bad THEN BadRoot ELSE hash]
        rest  == acc.scan \ {a}   \* markAccountScanDone
    IN  CASE a \notin acc.scan -> acc
          [] bundle.nonce < t ->
                [acc EXCEPT !.scan = rest, !.done = (rest = {})]
          [] proof.root # hash ->
                [acc EXCEPT !.scan = rest, !.done = (rest = {}),
                            !.halted = @ \cup {a}]
          [] bundle.nonce > t ->
                [acc EXCEPT !.proofs = Append(@, proof)]
          [] OTHER ->
                [acc EXCEPT !.proofs = Append(@, proof), !.scan = rest,
                            !.done = (rest = {})]

scanForBasicChannelProofs(hash, scanAccounts, bundles, bad) ==
    FoldLeft(LAMBDA acc, bd : ScanBundle(acc, bd, hash, bad),
             [proofs |-> <<>>, scan |-> scanAccounts, done |-> FALSE,
              halted |-> {}],
             bundles)

\* the loop over the digest items of header b: each item not yet done
\* replaces the block's proofs by the proofs it selects
ScanDigestItems(b, bad) ==
    FoldLeft(LAMBDA acc, item :
               IF acc.done THEN acc
               ELSE LET r == scanForBasicChannelProofs(DigestHash(b), acc.scan,
                                                       Bundles(b), bad)
                    IN  [proofs |-> r.proofs, scan |-> r.scan,
                         done |-> r.done, halted |-> acc.halted \cup r.halted],
             [proofs |-> <<>>, scan |-> basicChannelScanAccounts,
              done |-> scanBasicChannelDone, halted |-> halted],
             [i \in 1..digestItems[b] |-> i])

SortTasks(ts) == SortSeq(ts, LAMBDA x, y : x.number < y.number)

-----------------------------------------------------------------------------
\* the parachain and Ethereum states a scan may meet; Ethereum has at most
\* the committed bundles delivered
ChainInit ==
    /\ commits \in [Blocks -> SUBSET Accounts]
    /\ digestItems \in {f \in [Blocks -> 0..MaxDigestItems] :
                          \A b \in Blocks : f[b] = 0 <=> commits[b] = {}}
    /\ pending \in [Accounts -> 0..1]
    /\ ethNonce \in {f \in [Accounts -> 0..MaxBlock] :
                       \A a \in Accounts : f[a] <= Committed(a, MaxBlock)}

ScanInit ==
    /\ phase = "nonces"
    /\ basicChannelAccountNonces = [a \in {} |-> 0]
    /\ basicChannelScanAccounts = {}
    /\ scanBasicChannelDone = FALSE
    /\ currentBlockNumber = 0
    /\ tasks = <<>>
    /\ halted = {}

Init == ChainInit /\ lastParaBlock \in 0..MaxBlock /\ ScanInit

\* mutant: the walk starts one block above lastParaBlock
CompareNoncesFromAbove ==
    /\ phase = "nonces"
    /\ LET toFind == {a \in Accounts : ParaNonce(a) > ethNonce[a]}
       IN  /\ basicChannelAccountNonces' = [a \in toFind |-> ethNonce[a] + 1]
           /\ basicChannelScanAccounts' = toFind
           /\ scanBasicChannelDone' = (toFind = {})
           /\ currentBlockNumber' = lastParaBlock + 1
           /\ phase' = IF toFind = {} THEN "done" ELSE "walk"
    /\ UNCHANGED <<chain, tasks, halted>>

\* findTasks: nonces of every account, then findTasksImpl's set-up
CompareNonces ==
    /\ phase = "nonces"
    /\ LET toFind == {a \in Accounts : ParaNonce(a) > ethNonce[a]}
       IN  /\ basicChannelAccountNonces' = [a \in toFind |-> ethNonce[a] + 1]
           /\ basicChannelScanAccounts' = toFind
           /\ scanBasicChannelDone' = (toFind = {})
           /\ currentBlockNumber' = lastParaBlock
           /\ phase' = IF toFind = {} THEN "done" ELSE "walk"
    /\ UNCHANGED <<chain, tasks, halted>>

WalkGuard ==
    /\ phase = "walk"
    /\ ~scanBasicChannelDone
    /\ currentBlockNumber > 0

\* mutant: `continue` without currentBlockNumber--
SkipBlockNoDecrement ==
    /\ WalkGuard
    /\ digestItems[currentBlockNumber] = 0
    /\ UNCHANGED vars

\* a header without auxiliary digest items
SkipBlock ==
    /\ WalkGuard
    /\ digestItems[currentBlockNumber] = 0
    /\ currentBlockNumber' = currentBlockNumber - 1
    /\ UNCHANGED <<chain, phase, basicChannelAccountNonces,
                   basicChannelScanAccounts, scanBasicChannelDone, tasks, halted>>

\* a header with commitment digest items and its Committed event
ScanBlock ==
    /\ WalkGuard
    /\ digestItems[currentBlockNumber] > 0
    /\ \E bad \in SUBSET commits[currentBlockNumber] :
         LET b == currentBlockNumber
             r == ScanDigestItems(b, bad)
         IN  /\ basicChannelScanAccounts' = r.scan
             /\ scanBasicChannelDone' = r.done
             /\ halted' = r.halted
             /\ tasks' = IF r.proofs # <<>>
                           THEN Append(tasks, [number |-> b, proofs |-> r.proofs])
                           ELSE tasks
             /\ currentBlockNumber' = b - 1
    /\ UNCHANGED <<chain, phase, basicChannelAccountNonces>>

\* the loop has ended: sort ascending and return the tasks
FinishWalk ==
    /\ phase = "walk"
    /\ scanBasicChannelDone \/ currentBlockNumber = 0
    /\ tasks' = SortTasks(tasks)
    /\ phase' = "done"
    /\ UNCHANGED <<chain, basicChannelAccountNonces, basicChannelScanAccounts,
                   scanBasicChannelDone, currentBlockNumber, halted>>

\* an RPC error, a missing Committed event or a hash mismatch: (nil, err)
Fail ==
    /\ \/ phase = "nonces"
       \/ WalkGuard
    /\ phase' = "failed"
    /\ UNCHANGED <<chain, basicChannelAccountNonces, basicChannelScanAccounts,
                   scanBasicChannelDone, currentBlockNumber, tasks, halted>>

Progress == CompareNonces \/ SkipBlock \/ ScanBlock \/ FinishWalk

Next == Progress \/ Fail

\* the scan runs on one goroutine; every RPC returns (no fairness on Fail)
Spec == Init /\ [][Next]_vars /\ WF_vars(Progress)

-----------------------------------------------------------------------------
Proof == [account : Accounts, nonce : 1..MaxBlock, root : 0..MaxBlock]

TypeOK ==
    /\ commits \in [Blocks -> SUBSET Accounts]
    /\ phase \in {"nonces", "walk", "done", "failed"}
    /\ DOMAIN basicChannelAccountNonces \subseteq Accounts
    /\ basicChannelScanAccounts \subseteq DOMAIN basicChannelAccountNonces
    /\ scanBasicChannelDone \in BOOLEAN
    /\ currentBlockNumber \in 0..MaxBlock
    /\ tasks \in Seq([number : Blocks, proofs : Seq(Proof)])
    /\ halted \subseteq Accounts

\* the nonces of a's bundle proofs, in task order
NoncesOf(a) ==
    LET ps == FlattenSeq([i \in DOMAIN tasks |-> tasks[i].proofs])
    IN  [k \in 1..Len(SelectSeq(ps, LAMBDA p : p.account = a)) |->
            SelectSeq(ps, LAMBDA p : p.account = a)[k].nonce]

Interval(lo, hi) == [k \in 1..(hi + 1 - lo) |-> lo + k - 1]

(***************************************************************************)
(* What Ethereum needs: for every account behind on Ethereum, the returned *)
(* tasks carry, in order and each once, exactly the committed nonces from  *)
(* the first missing one up to the last committed at lastParaBlock -- an   *)
(* account halted on a bad proof loses a prefix of them, never a middle.   *)
(* Accounts in sync contribute nothing.  It spans the nonce comparison,    *)
(* the downward walk, the per-bundle decisions and the final sort.         *)
(***************************************************************************)
DeliverableSequence ==
    phase = "done" =>
      \A a \in Accounts :
        LET top == Committed(a, lastParaBlock)
        IN  IF a \in DOMAIN basicChannelAccountNonces
            THEN LET t == basicChannelAccountNonces[a]
                 IN  \/ NoncesOf(a) = Interval(t, top)
                     \/ /\ a \in halted
                        /\ \E lo \in t..(top + 1) : NoncesOf(a) = Interval(lo, top)
            ELSE NoncesOf(a) = <<>>

\* Every scan ends: it returns its tasks or an error.
Termination == <>(phase \in {"done", "failed"})
=============================================================================
