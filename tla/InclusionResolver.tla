-------------------------- MODULE InclusionResolver --------------------------
(***************************************************************************)
(* gatherProofInputs and findInclusionBlockNumber of the parachain Scanner *)
(* (src/unnamed/part_000): for every task, in order, find the relay-chain  *)
(* block in which its parachain header was included and attach the heads  *)
(* of all parachains at that block.                                        *)
(*                                                                         *)
(* The relay chain is given by inclusion[b], the relay block at which our  *)
(* head becomes parachain block b; before relay block 1 the parachain is   *)
(* not registered, from block 1 its head is the genesis block 0.  Block b  *)
(* was authored against relayParent[b], a relay block whose head is b-1,   *)
(* and is included at most MaxInclusionDelay relay blocks later.  Relay    *)
(* blocks past MaxRelayBlock keep the last head.  Every RPC of a step may  *)
(* fail (Fail); gatherProofInputs then returns the error.                  *)
(***************************************************************************)
EXTENDS Naturals, Sequences, FiniteSets, FiniteSetsExt

CONSTANTS
    MaxBlock,           \* highest parachain block
    MaxRelayBlock,      \* relay blocks in which inclusions happen
    MaxInclusionDelay,  \* most relay blocks from relay parent to inclusion
    ParaID,             \* s.paraID
    OtherParaIDs        \* the other registered parachains

VARIABLES
    inclusion,      \* inclusion[b]: relay block that first has b as our head
    relayParent,    \* relayParent[b]: ValidationData.RelayParentNumber of b
    tasks,          \* the tasks found, sequence of records with field number
    proofInputs,    \* proofInputs[i]: task i's ProofInput, or NoProofInput
    gatherIndex,    \* the task gatherProofInputs is at
    gatherPhase     \* "gather", "ok" (returned nil) or "err" (returned an error)

relay == <<inclusion, relayParent>>
gather == <<proofInputs, gatherIndex, gatherPhase>>

Blocks == 1..MaxBlock
NotRegistered == -1
NoProofInput == [relayBlockNumber |-> 0, paraHeads |-> [p \in {} |-> 0]]

\* The process for finalizing a backed parachain header times out after
\* these many blocks (const FinalizationTimeout)
FinalizationTimeout == 4

\* FetchParachainHead(hash of relay block i, ParaID)
HeadAt(i) ==
    IF i = 0 THEN NotRegistered
    ELSE Max({0} \cup {b \in Blocks : inclusion[b] <= i})

\* FetchParachainHeads(hash of relay block i), indexed by parachain id
ParaHeadsAt(i) ==
    [p \in {ParaID} \cup OtherParaIDs |-> IF p = ParaID THEN HeadAt(i) ELSE 0]

\* mutant: the loop does not return at the first match
findInclusionBlockNumberLast(b) ==
    LET startBlock == relayParent[b] + 1
        hits == {i \in startBlock..(startBlock + FinalizationTimeout - 1) :
                   HeadAt(i) = b}
    IN  IF hits = {} THEN 0 ELSE Max(hits)

(***************************************************************************)
(* findInclusionBlockNumber: the relay blocks relayParent+1 ..             *)
(* relayParent+FinalizationTimeout, in ascending order, until our head is  *)
(* the block; 0 when the loop ends without it ("scan terminated").  The    *)
(* loop starts past the relay parent, where the parachain is registered.   *)
(***************************************************************************)
findInclusionBlockNumber(b) ==
    LET startBlock == relayParent[b] + 1
        hits == {i \in startBlock..(startBlock + FinalizationTimeout - 1) :
                   HeadAt(i) = b}
    IN  IF hits = {} THEN 0 ELSE Min(hits)

\* the relay chains the environment may produce
RelayChains ==
    {inc \in [Blocks -> 2..MaxRelayBlock] :
        \A b \in Blocks : b > 1 => inc[b - 1] < inc[b]}

\* ValidationData compatible with a relay chain: a parent whose head is b-1
RelayParents(inc) ==
    {rp \in [Blocks -> 1..MaxRelayBlock] :
        \A b \in Blocks :
            /\ rp[b] < inc[b]
            /\ b > 1 => inc[b - 1] <= rp[b]
            /\ inc[b] - rp[b] <= MaxInclusionDelay}

-----------------------------------------------------------------------------
\* tasks as findTasksImpl returns them: ascending, one per block
TaskLists ==
    {[i \in 1..Cardinality(S) |->
        [number |-> CHOOSE b \in S : Cardinality({c \in S : c < b}) = i - 1]]
       : S \in SUBSET Blocks}

RelayInit ==
    /\ inclusion \in RelayChains
    /\ relayParent \in RelayParents(inclusion)

\* gatherProofInputs called on the tasks: none has a ProofInput yet
GatherInit ==
    /\ proofInputs = [i \in DOMAIN tasks |-> NoProofInput]
    /\ gatherIndex = 1
    /\ gatherPhase = "gather"

Init == RelayInit /\ tasks \in TaskLists /\ GatherInit

\* mutant: the ProofInput is appended to a list of its own
GatherProofInputAppends ==
    /\ gatherPhase = "gather"
    /\ gatherIndex <= Len(tasks)
    /\ LET relayBlockNumber == findInclusionBlockNumber(tasks[gatherIndex].number)
       IN  IF relayBlockNumber = 0
           THEN /\ gatherPhase' = "err"
                /\ UNCHANGED <<proofInputs, gatherIndex>>
           ELSE /\ proofInputs' = Append(proofInputs,
                       [relayBlockNumber |-> relayBlockNumber,
                        paraHeads |-> ParaHeadsAt(relayBlockNumber)])
                /\ gatherIndex' = gatherIndex + 1
                /\ UNCHANGED gatherPhase
    /\ UNCHANGED <<relay, tasks>>

\* one iteration of gatherProofInputs: inclusion block, its hash, all heads
GatherProofInput ==
    /\ gatherPhase = "gather"
    /\ gatherIndex <= Len(tasks)
    /\ LET relayBlockNumber == findInclusionBlockNumber(tasks[gatherIndex].number)
       IN  IF relayBlockNumber = 0
           THEN /\ gatherPhase' = "err"
                /\ UNCHANGED <<proofInputs, gatherIndex>>
           ELSE /\ proofInputs' = [proofInputs EXCEPT ![gatherIndex] =
                       [relayBlockNumber |-> relayBlockNumber,
                        paraHeads |-> ParaHeadsAt(relayBlockNumber)]]
                /\ gatherIndex' = gatherIndex + 1
                /\ UNCHANGED gatherPhase
    /\ UNCHANGED <<relay, tasks>>

GatherDone ==
    /\ gatherPhase = "gather"
    /\ gatherIndex > Len(tasks)
    /\ gatherPhase' = "ok"
    /\ UNCHANGED <<relay, tasks, proofInputs, gatherIndex>>

\* an RPC error inside the iteration
GatherFail ==
    /\ gatherPhase = "gather"
    /\ gatherIndex <= Len(tasks)
    /\ gatherPhase' = "err"
    /\ UNCHANGED <<relay, tasks, proofInputs, gatherIndex>>

Next == GatherProofInput \/ GatherDone \/ GatherFail

vars == <<relay, tasks, gather>>

Spec == Init /\ [][Next]_vars

-----------------------------------------------------------------------------
TypeOK ==
    /\ inclusion \in [Blocks -> 2..MaxRelayBlock]
    /\ relayParent \in [Blocks -> 1..MaxRelayBlock]
    /\ DOMAIN proofInputs = DOMAIN tasks
    /\ gatherIndex \in 1..(Len(tasks) + 1)
    /\ gatherPhase \in {"gather", "ok", "err"}

HasProofInput(i) == proofInputs[i] # NoProofInput

\* Every ProofInput attached is a witness of inclusion: the heads it
\* carries, read at its relay block, have the task's header as our
\* parachain's head, and it is the first relay block to include it.
InclusionWitness ==
    \A i \in DOMAIN tasks :
        HasProofInput(i) =>
            /\ proofInputs[i].paraHeads[ParaID] = tasks[i].number
            /\ proofInputs[i].relayBlockNumber = inclusion[tasks[i].number]
=============================================================================
