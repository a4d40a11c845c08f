---------------------------- MODULE BeefyListener ----------------------------
(***************************************************************************)
(* The BeefyListener of the parachain commitment relayer                   *)
(* (src/relayer/workers/parachaincommitmentrelayer/beefy-listener.go).    *)
(* One goroutine subscribes to the relay chain's BEEFY justifications.    *)
(* For each justification of relay block n it reads the hash of block n+1, *)
(* an MMR proof for leaf n, every parachain head at n+1 and our own head,  *)
(* builds a Merkle proof of our head among them, extracts the commitment   *)
(* digest items of our head, reads each commitment's messages from        *)
(* offchain storage, and sends one MessagePackage per item on the         *)
(* messages channel.  Cancelling the context ends the loop (onDone).       *)
(*                                                                         *)
(* The relay chain grows one block at a time; headAt[r] is the number of   *)
(* our parachain head at relay block r (0: not registered).  A para block  *)
(* builds on the registered head, so the head advances by at most one     *)
(* block per relay block.  Para block k announces one commitment per      *)
(* channel in digest[k].                                                   *)
(* Every RPC error the code logs and ignores is a fault in Faults; the     *)
(* handler goes on with the zero value, as the code does.  A header is its *)
(* number; the zero header is 0 and has no digest items.  Hashes and      *)
(* Merkle proofs are records naming what they prove.                      *)
(***************************************************************************)
EXTENDS Naturals, Sequences, FiniteSets, SequencesExt

CONSTANTS
    MaxRelay,    \* highest relay block
    MaxPara,     \* highest block of our parachain
    OtherParas,  \* parachains registered besides ours
    Faults,      \* failures the environment may produce, see FaultKinds
    ChanCap,     \* capacity of the messages channel
    MaxQueue     \* justifications buffered by the subscription

FaultKinds ==
    {"subscribe",        \* Subscribe returns an error (line 82)
     "blockHash",        \* GetBlockHash fails (line 118)
     "mmr",              \* MMR.GenerateProof fails (line 171)
     "keys",             \* State.GetKeys or QueryStorage fails (lines 219, 224)
     "offchainErr",      \* Offchain.LocalStorageGet fails (line 418)
     "offchainMissing"}  \* a commitment is absent from offchain storage (line 424)

ASSUME Faults \subseteq FaultKinds

VARIABLES
    relayHeight,    \* the relay chain's best block
    headAt,         \* headAt[r]: our para head registered at relay block r
    digest,         \* digest[k]: channels with a commitment in para block k
    stored,         \* commitments present in offchain storage
    ch,             \* justifications delivered by the subscription, unread
    lastJustified,  \* the last relay block a justification was issued for
    pc,             \* "start", "select", "send", "done" or "panicked"
    outbox,         \* messagePackets not yet sent by the loop at line 148
    messages,       \* the messages channel
    delivered,      \* packages the relayer worker has received
    cancelled,      \* ctx is done
    closed          \* the messages channel is closed

chain == <<relayHeight, headAt, digest, stored, ch, lastJustified>>
listener == <<pc, outbox, messages, delivered, cancelled, closed>>
vars == <<chain, listener>>

Channels == {"basic", "incentivized"}
Relay == 1..MaxRelay
Para == 1..MaxPara

\* a commitment: the channel and the para block whose digest announces it
Items == [block : Para, channel : Channels]
Nil == [nil |-> 0]                              \* the zero value of a slice
MMRProof(n) == [leaf |-> n]
HeadProof(k, r) == [head |-> k, at |-> r]

DigestChoices == {<<>>, <<"basic">>, <<"incentivized">>, <<"basic", "incentivized">>}

Package == [channelID : Channels, commitment : Items,
            commitmentMessagesData : Items \cup {Nil},
            paraHeadProof : {HeadProof(k, r) : k \in Para, r \in Relay} \cup {Nil},
            mmrProof : {MMRProof(n) : n \in Relay} \cup {Nil}]

-----------------------------------------------------------------------------
(* The handler's calls *)

\* GetAllParaheads: the number of heads at relay block r, and our head
NumHeads(r) == OtherParas + (IF headAt[r] # 0 THEN 1 ELSE 0)

(***************************************************************************)
(* createParachainHeaderProof(allParaHeads, ourParaHead): an error when   *)
(* the tree is empty or our head is not among the leaves; otherwise the   *)
(* debug printing indexes allParaHeadsBytes[1] and proofContents[0], a    *)
(* panic with a single head.                                              *)
(***************************************************************************)
ProofError == [error |-> "proof"]
Panic == [panic |-> "index out of range"]

\* mutant: the head is proven against the heads of the following relay block
createParachainHeaderProofNext(r, numHeads, ourParaHead) ==
    IF numHeads = 0 \/ ourParaHead = 0 THEN ProofError
    ELSE IF numHeads = 1 THEN Panic
    ELSE HeadProof(ourParaHead, r + 1)

createParachainHeaderProof(r, numHeads, ourParaHead) ==
    IF numHeads = 0 \/ ourParaHead = 0 THEN ProofError
    ELSE IF numHeads = 1 THEN Panic
    ELSE HeadProof(ourParaHead, r)

\* getAuxiliaryDigestItems: the commitments our head's digest announces
getAuxiliaryDigestItems(header) ==
    IF header = 0 THEN <<>>
    ELSE [i \in DOMAIN digest[header] |-> [block |-> header, channel |-> digest[header][i]]]

\* getMessagesDataForDigestItem: absent data is returned as nil with a nil error
getMessagesDataForDigestItem(item) == IF item \in stored THEN item ELSE Nil

(***************************************************************************)
(* extractCommitments: one package per commitment digest item, or no       *)
(* packages at all when a read of offchain storage fails.                 *)
(***************************************************************************)
extractCommitments(header, mmrProof, ourParaHeadProof, storageFails) ==
    LET items == getAuxiliaryDigestItems(header)
    IN  IF storageFails /\ items # <<>> THEN <<>>
        ELSE [i \in DOMAIN items |->
                [channelID |-> items[i].channel, commitment |-> items[i],
                 commitmentMessagesData |-> getMessagesDataForDigestItem(items[i]),
                 paraHeadProof |-> ourParaHeadProof, mmrProof |-> mmrProof]]

-----------------------------------------------------------------------------
Init ==
    /\ relayHeight = 1
    /\ headAt \in {f \in [Relay -> 0..MaxPara] :
                     /\ f[1] <= 1
                     /\ \A r \in Relay \ {MaxRelay} : f[r + 1] - f[r] \in {0, 1}}
    /\ digest \in [Para -> DigestChoices]
    /\ stored \in IF "offchainMissing" \in Faults THEN SUBSET Items ELSE {Items}
    /\ ch = <<>>
    /\ lastJustified = 0
    /\ pc = "start"
    /\ outbox = <<>>
    /\ messages = <<>>
    /\ delivered = <<>>
    /\ cancelled = FALSE
    /\ closed = FALSE

\* Start and the subscription at the head of subBeefyJustifications
Start ==
    /\ pc = "start"
    /\ \/ pc' = "select"
       \/ "subscribe" \in Faults /\ pc' = "panicked"
    /\ UNCHANGED <<chain, outbox, messages, delivered, cancelled, closed>>

\* case <-ctx.Done(): onDone closes the messages channel
onDone ==
    /\ pc = "select"
    /\ cancelled
    /\ pc' = "done"
    /\ closed' = TRUE
    /\ UNCHANGED <<chain, outbox, messages, delivered, cancelled>>

(***************************************************************************)
(* case msg := <-ch: the body of the loop up to the sends.  A message that *)
(* does not decode leaves a zero commitment with no signatures, so it is   *)
(* skipped like an unsigned one.  Block n+1 may not exist yet: its hash is *)
(* then the zero hash and every read at it fails.                         *)
(***************************************************************************)
Handle ==
    /\ pc = "select"
    /\ ch # <<>>
    /\ ch' = Tail(ch)
    /\ LET n == Head(ch).block
       IN  IF ~Head(ch).signed
           THEN UNCHANGED <<pc, outbox>>
           ELSE \E fails \in SUBSET Faults :
                  LET hashOk   == relayHeight >= n + 1 /\ "blockHash" \notin fails
                      mmrProof == IF hashOk /\ "mmr" \notin fails THEN MMRProof(n) ELSE Nil
                      headsOk  == hashOk /\ "keys" \notin fails
                      numHeads == IF headsOk THEN NumHeads(n + 1) ELSE 0
                      ourHead  == IF headsOk THEN headAt[n + 1] ELSE 0
                      proof    == createParachainHeaderProof(n + 1, numHeads, ourHead)
                      packets  == extractCommitments(ourHead, mmrProof,
                                     IF proof = ProofError THEN Nil ELSE proof,
                                     "offchainErr" \in fails)
                  IN  IF proof = Panic THEN /\ pc' = "panicked"
                                            /\ UNCHANGED outbox
                      ELSE IF packets = <<>> THEN UNCHANGED <<pc, outbox>>
                      ELSE /\ pc' = "send"
                           /\ outbox' = packets
    /\ UNCHANGED <<relayHeight, headAt, digest, stored, lastJustified,
                   messages, delivered, cancelled, closed>>

\* li.messages <- messagePacket: blocks while the channel is full
Send ==
    /\ pc = "send"
    /\ Len(messages) < ChanCap
    /\ messages' = Append(messages, Head(outbox))
    /\ outbox' = Tail(outbox)
    /\ pc' = IF Tail(outbox) = <<>> THEN "select" ELSE "send"
    /\ UNCHANGED <<chain, delivered, cancelled, closed>>

-----------------------------------------------------------------------------
(* The environment *)

ProduceRelayBlock ==
    /\ relayHeight < MaxRelay
    /\ relayHeight' = relayHeight + 1
    /\ UNCHANGED <<headAt, digest, stored, ch, lastJustified, listener>>

\* BEEFY justifies a later relay block, possibly the best one
Justify ==
    /\ Len(ch) < MaxQueue
    /\ \E n \in (lastJustified + 1)..relayHeight, signed \in BOOLEAN :
          /\ ch' = Append(ch, [block |-> n, signed |-> signed])
          /\ lastJustified' = n
    /\ UNCHANGED <<relayHeight, headAt, digest, stored, listener>>

\* the relayer worker reads the messages channel
Consume ==
    /\ messages # <<>>
    /\ delivered' = Append(delivered, Head(messages))
    /\ messages' = Tail(messages)
    /\ UNCHANGED <<chain, pc, outbox, cancelled, closed>>

Cancel ==
    /\ ~cancelled
    /\ cancelled' = TRUE
    /\ UNCHANGED <<chain, pc, outbox, messages, delivered, closed>>

Next ==
    \/ Start \/ onDone \/ Handle \/ Send
    \/ ProduceRelayBlock \/ Justify \/ Consume \/ Cancel

\* the listener goroutine is scheduled; the chains may stall, and the worker
\* that reads the messages channel is not in the repository, so Consume has
\* no fairness
Fairness ==
    /\ WF_vars(Start) /\ WF_vars(onDone) /\ WF_vars(Handle) /\ WF_vars(Send)

Spec == Init /\ [][Next]_vars /\ Fairness

-----------------------------------------------------------------------------
TypeOK ==
    /\ relayHeight \in Relay
    /\ ch \in Seq([block : Relay, signed : BOOLEAN])
    /\ pc \in {"start", "select", "send", "done", "panicked"}
    /\ outbox \in Seq(Package)
    /\ messages \in Seq(Package)
    /\ delivered \in Seq(Package)
    /\ cancelled \in BOOLEAN
    /\ closed \in BOOLEAN

\* every package the listener has produced, in the order it produced them
Sent == delivered \o messages \o outbox

(***************************************************************************)
(* Every package the listener sends is complete and self-consistent: it   *)
(* carries the messages of its commitment read from offchain storage, a   *)
(* proof of the very para head whose digest announced the commitment, and *)
(* an MMR proof for the leaf of the relay block just before the one the   *)
(* head was read at (GenerateProof(blockNumber) against the heads at      *)
(* nextBlockHash).  The handler ignores most RPC errors, so this depends  *)
(* on which errors are turned into a skip and which are not.              *)
(***************************************************************************)
PackageWellFormed ==
    \A i \in DOMAIN Sent :
        LET p == Sent[i]
        IN  /\ p.commitmentMessagesData = p.commitment
            /\ p.paraHeadProof # Nil
            /\ p.paraHeadProof.head = p.commitment.block
            /\ p.mmrProof = MMRProof(p.paraHeadProof.at - 1)

\* the commitments announced by para blocks below k
AnnouncedBelow(k) ==
    UNION {{[block |-> b, channel |-> c] : c \in Range(digest[b])} : b \in 1..(k - 1)}

(***************************************************************************)
(* Ethereum's inbound channels take messages with consecutive nonces, so  *)
(* the listener must hand over every commitment of our parachain: when it *)
(* sends a commitment of para block k, it has already sent every          *)
(* commitment announced below k.  The TODO at lines 124-127 says the code *)
(* only looks at the latest head of each justification.                   *)
(***************************************************************************)
NoCommitmentSkipped ==
    \A i \in DOMAIN Sent :
        AnnouncedBelow(Sent[i].commitment.block)
            \subseteq {Sent[j].commitment : j \in 1..(i - 1)}

====
