------------------------------- MODULE Scanner -------------------------------
(***************************************************************************)
(* Scanner.Scan (src/unnamed/part_000): the parachain head finalized       *)
(* before the BEEFY block is read from the relay chain, findTasks compares *)
(* nonces and walks the parachain from that head (CommitmentWalker), and   *)
(* gatherProofInputs attaches the inclusion data (InclusionResolver).      *)
(* The two components share the task list; the walker's lastParaBlock is  *)
(* the relay chain's head of our parachain at beefyBlockNumber - 1.        *)
(***************************************************************************)
EXTENDS Naturals, Sequences, FiniteSets

CONSTANTS
    Accounts, MaxBlock, MaxDigestItems,
    MaxRelayBlock, MaxInclusionDelay, ParaID, OtherParaIDs

VARIABLES
    commits, digestItems, pending, ethNonce,
    phase, basicChannelAccountNonces, basicChannelScanAccounts,
    scanBasicChannelDone, currentBlockNumber, tasks, halted,
    inclusion, relayParent, proofInputs, gatherIndex, gatherPhase,
    beefyBlockNumber,   \* Scan's argument
    scanPhase           \* "head", "find", "gather", "returned" or "failed"

R == INSTANCE InclusionResolver

\* mutant: the head at the BEEFY block itself
paraHeadAtBeefy == R!HeadAt(beefyBlockNumber)

\* FetchParachainHead at the hash of relay block beefyBlockNumber - 1
paraHead == R!HeadAt(beefyBlockNumber - 1)

W == INSTANCE CommitmentWalker WITH lastParaBlock <- paraHead

walker == <<commits, digestItems, pending, ethNonce, phase,
            basicChannelAccountNonces, basicChannelScanAccounts,
            scanBasicChannelDone, currentBlockNumber, tasks, halted>>
resolver == <<inclusion, relayParent, proofInputs, gatherIndex, gatherPhase>>
vars == <<walker, resolver, beefyBlockNumber, scanPhase>>

Init ==
    /\ W!ChainInit
    /\ W!ScanInit
    /\ R!RelayInit
    /\ proofInputs = <<>>
    /\ gatherIndex = 1
    /\ gatherPhase = "gather"
    /\ beefyBlockNumber \in 1..(MaxRelayBlock + 1)
    /\ scanPhase = "head"

\* Scan, up to findTasks: the head at beefyBlockNumber - 1
ScanHead ==
    /\ scanPhase = "head"
    /\ scanPhase' = IF paraHead = R!NotRegistered THEN "failed" ELSE "find"
    /\ UNCHANGED <<walker, resolver, beefyBlockNumber>>

\* a step of findTasks up to the return of findTasksImpl
FindTasks ==
    /\ scanPhase = "find"
    /\ UNCHANGED <<resolver, beefyBlockNumber, scanPhase>>
    /\ W!Next

\* findTasks after findTasksImpl: nothing to find, an error, or
\* gatherProofInputs on the tasks found
FindTasksReturn ==
    /\ scanPhase = "find"
    /\ phase \in {"done", "failed"}
    /\ IF phase = "failed" \/ DOMAIN basicChannelAccountNonces = {}
         THEN /\ scanPhase' = IF phase = "failed" THEN "failed" ELSE "returned"
              /\ UNCHANGED resolver
         ELSE /\ scanPhase' = "gather"
              /\ proofInputs' = [i \in DOMAIN tasks |-> R!NoProofInput]
              /\ UNCHANGED <<inclusion, relayParent, gatherIndex, gatherPhase>>
    /\ UNCHANGED <<walker, beefyBlockNumber>>

GatherProofInputs ==
    /\ scanPhase = "gather"
    /\ UNCHANGED <<walker, beefyBlockNumber, scanPhase>>
    /\ R!Next

\* s.gatherProofInputs(tasks); return tasks, nil -- the error is dropped
ScanReturn ==
    /\ scanPhase = "gather"
    /\ gatherPhase \in {"ok", "err"}
    /\ scanPhase' = "returned"
    /\ UNCHANGED <<walker, resolver, beefyBlockNumber>>

\* an RPC error in Scan before findTasks
ScanFail ==
    /\ scanPhase = "head"
    /\ scanPhase' = "failed"
    /\ UNCHANGED <<walker, resolver, beefyBlockNumber>>

Next ==
    \/ ScanHead \/ FindTasks \/ FindTasksReturn
    \/ GatherProofInputs \/ ScanReturn \/ ScanFail

Spec == Init /\ [][Next]_vars

-----------------------------------------------------------------------------
TypeOK ==
    /\ W!TypeOK
    /\ beefyBlockNumber \in 1..(MaxRelayBlock + 1)
    /\ scanPhase \in {"head", "find", "gather", "returned", "failed"}

(***************************************************************************)
(* Every task Scan returns can be proven with the MMR root of the BEEFY    *)
(* commitment: the relay block whose heads it carries is older than the    *)
(* BEEFY block, whose MMR holds leaves up to beefyBlockNumber - 1.  It     *)
(* rests on Scan reading the head at beefyBlockNumber - 1, the walk never  *)
(* going above that head, and the inclusion search finding the first      *)
(* relay block with the header.                                            *)
(***************************************************************************)
ProvableAtBeefy ==
    scanPhase = "returned" =>
        \A i \in DOMAIN proofInputs :
            R!HasProofInput(i) =>
                proofInputs[i].relayBlockNumber <= beefyBlockNumber - 1

(***************************************************************************)
(* Every ProofInput gatherProofInputs attaches during a scan is a witness  *)
(* of inclusion: the heads it carries have the task's header as our       *)
(* parachain's head, and its relay block is the first to include it.      *)
(***************************************************************************)
InclusionWitness ==
    \A i \in DOMAIN proofInputs :
        R!HasProofInput(i) =>
            /\ proofInputs[i].paraHeads[ParaID] = tasks[i].number
            /\ proofInputs[i].relayBlockNumber = inclusion[tasks[i].number]

\* Scan returns tasks only with their ProofInput: an inclusion not found
\* within FinalizationTimeout, or any RPC error while gathering, fails the
\* scan (spec 4.5 step 3, section 7).
ProofInputsComplete ==
    scanPhase = "returned" =>
        \A i \in DOMAIN tasks : i \in DOMAIN proofInputs /\ R!HasProofInput(i)
=============================================================================
