--------------------------- MODULE CatchupListener ---------------------------
(***************************************************************************)
(* The legacy catch-up of the parachain commitment Listener                *)
(* (src/unnamed/part_001): catchupMissedCommitments compares the nonces of *)
(* the basic and the incentivized channel on both sides of the bridge and, *)
(* when they differ, searchForLostCommitments walks the parachain down     *)
(* from latestBlock to the genesis block, collects every commitment digest *)
(* item whose messages Ethereum has not received, and relays them oldest   *)
(* first with processDigestItem.                                           *)
(*                                                                         *)
(* A header carries at most one commitment digest item, of one channel,    *)
(* with msgs[b] messages; a channel's nonce goes up by one per message.    *)
(* Ethereum receives a commitment whole, so its nonce is the last nonce of *)
(* some commitment.  Storage that was never written reads as absent        *)
(* (ok = false): a channel's nonce key is absent exactly when it is 0.     *)
(* Every RPC, and every processDigestItem, may fail (Fail).                *)
(***************************************************************************)
EXTENDS Naturals, Sequences, FiniteSets, SequencesExt, FiniteSetsExt

CONSTANTS
    MaxBlock,   \* highest parachain block
    MaxMsgs     \* most messages in one commitment

VARIABLES
    channelOf,      \* channelOf[b]: channel of b's commitment digest item, or None
    msgs,           \* msgs[b]: messages in b's commitment
    pending,        \* pending[c]: messages of c in blocks after latestBlock
    ethNonce,       \* ethNonce[c]: inbound contract Nonce(), pending state
    latestBlock,    \* catchupMissedCommitments' latestBlock
    phase,          \* "nonces", "search", "relay", "insync", "done" or "failed"
    currentBlockNumber,
    nonceFound,     \* nonceFound[c]: basicNonceFound / incentivizedNonceFound
    digestItems,    \* the blocks whose digest items were collected
    relayed         \* the blocks processDigestItem has relayed, in order

chain == <<channelOf, msgs, pending, ethNonce, latestBlock>>
listener == <<phase, currentBlockNumber, nonceFound, digestItems, relayed>>
vars == <<chain, listener>>

Basic == "basic"
Incentivized == "incentivized"
Channels == {Basic, Incentivized}
None == "none"
Heights == 0..MaxBlock

\* messages of channel c committed in blocks 1..b
Committed(c, b) ==
    MapThenSumSet(LAMBDA x : msgs[x], {x \in 1..b : channelOf[x] = c})

\* the nonces of the messages of b's commitment (getMessagesForDigestItem)
MsgNonces(b) ==
    (Committed(channelOf[b], b - 1) + 1)..Committed(channelOf[b], b)

\* the Nonce storage of channel c at the latest parachain block
ParaNonce(c) == Committed(c, latestBlock) + pending[c]

\* mutant: a message counts as relayed only below the nonce to find
checkIfDigestItemContainsNonceBelow(b, nonceToFind) ==
    \E n \in MsgNonces(b) : n < nonceToFind

\* some message of b's commitment has a nonce Ethereum already holds
checkIfDigestItemContainsNonce(b, nonceToFind) ==
    \E n \in MsgNonces(b) : n <= nonceToFind

-----------------------------------------------------------------------------
ChainInit ==
    /\ channelOf \in {f \in [Heights -> Channels \cup {None}] : f[0] = None}
    /\ msgs \in {m \in [Heights -> 0..MaxMsgs] :
                   \A b \in Heights : m[b] = 0 <=> channelOf[b] = None}
    /\ latestBlock \in Heights
    /\ pending \in [Channels -> 0..1]
    /\ ethNonce \in {e \in [Channels -> 0..(MaxBlock * MaxMsgs)] :
                       \A c \in Channels :
                         \E b \in 0..latestBlock : e[c] = Committed(c, b)}

Init ==
    /\ ChainInit
    /\ phase = "nonces"
    /\ currentBlockNumber = 0
    /\ nonceFound = [c \in Channels |-> FALSE]
    /\ digestItems = <<>>
    /\ relayed = <<>>

\* mutant: the search starts two blocks above latestBlock
CheckNoncesFromAbove ==
    /\ phase = "nonces"
    /\ LET paraIncentivizedNonce == ParaNonce(Incentivized)
           paraBasicNonce == IF paraIncentivizedNonce = 0 THEN 0
                             ELSE ParaNonce(Basic)
       IN  IF /\ ethNonce[Basic] = paraBasicNonce
              /\ ethNonce[Incentivized] = paraIncentivizedNonce
           THEN /\ phase' = "insync"
                /\ UNCHANGED currentBlockNumber
           ELSE /\ phase' = "search"
                /\ currentBlockNumber' = latestBlock + 2
    /\ UNCHANGED <<chain, nonceFound, digestItems, relayed>>

(***************************************************************************)
(* catchupMissedCommitments up to the search: the four nonces, the early   *)
(* return, and searchForLostCommitments' set-up.  When the incentivized    *)
(* nonce is absent the code zeroes paraBasicNonce (line 84).               *)
(***************************************************************************)
CheckNonces ==
    /\ phase = "nonces"
    /\ LET paraIncentivizedNonce == ParaNonce(Incentivized)
           paraBasicNonce == IF paraIncentivizedNonce = 0 THEN 0
                             ELSE ParaNonce(Basic)
       IN  IF /\ ethNonce[Basic] = paraBasicNonce
              /\ ethNonce[Incentivized] = paraIncentivizedNonce
           THEN /\ phase' = "insync"
                /\ UNCHANGED currentBlockNumber
           ELSE /\ phase' = "search"
                /\ currentBlockNumber' = latestBlock + 1
    /\ UNCHANGED <<chain, nonceFound, digestItems, relayed>>

\* one iteration of the search loop: the header below, its digest item
SearchStep ==
    /\ phase = "search"
    /\ \E c \in Channels : ~nonceFound[c]
    /\ currentBlockNumber # 0
    /\ LET b == currentBlockNumber - 1
           c == channelOf[b]
       IN  /\ currentBlockNumber' = b
           /\ IF c # None /\ ~nonceFound[c]
                THEN IF checkIfDigestItemContainsNonce(b, ethNonce[c])
                     THEN /\ nonceFound' = [nonceFound EXCEPT ![c] = TRUE]
                          /\ UNCHANGED digestItems
                     ELSE /\ digestItems' = Append(digestItems, b)
                          /\ UNCHANGED nonceFound
                ELSE UNCHANGED <<nonceFound, digestItems>>
    /\ UNCHANGED <<chain, phase, relayed>>

\* the loop has ended: the items are reversed into ascending block order
EndSearch ==
    /\ phase = "search"
    /\ (\A c \in Channels : nonceFound[c]) \/ currentBlockNumber = 0
    /\ digestItems' = Reverse(digestItems)
    /\ phase' = "relay"
    /\ UNCHANGED <<chain, currentBlockNumber, nonceFound, relayed>>

\* processDigestItem on the next collected item
ProcessDigestItem ==
    /\ phase = "relay"
    /\ digestItems # <<>>
    /\ relayed' = Append(relayed, Head(digestItems))
    /\ digestItems' = Tail(digestItems)
    /\ UNCHANGED <<chain, phase, currentBlockNumber, nonceFound>>

RelayDone ==
    /\ phase = "relay"
    /\ digestItems = <<>>
    /\ phase' = "done"
    /\ UNCHANGED <<chain, currentBlockNumber, nonceFound, digestItems, relayed>>

\* an RPC error, or processDigestItem failing: the catch-up returns err
Fail ==
    /\ \/ phase = "nonces"
       \/ phase = "search" /\ currentBlockNumber # 0
       \/ phase = "relay" /\ digestItems # <<>>
    /\ phase' = "failed"
    /\ UNCHANGED <<chain, currentBlockNumber, nonceFound, digestItems, relayed>>

Next ==
    \/ CheckNonces \/ SearchStep \/ EndSearch
    \/ ProcessDigestItem \/ RelayDone \/ Fail

Spec == Init /\ [][Next]_vars

-----------------------------------------------------------------------------
TypeOK ==
    /\ phase \in {"nonces", "search", "relay", "insync", "done", "failed"}
    /\ currentBlockNumber \in 0..(MaxBlock + 1)
    /\ nonceFound \in [Channels -> BOOLEAN]
    /\ digestItems \in Seq(Heights)
    /\ relayed \in Seq(Heights)

\* the nonces of channel c's messages relayed, in relay order
RelayedNonces(c) ==
    LET bs == SelectSeq(relayed, LAMBDA b : channelOf[b] = c)
    IN  FlattenSeq([i \in DOMAIN bs |->
                      [k \in 1..Cardinality(MsgNonces(bs[i])) |->
                         Min(MsgNonces(bs[i])) + k - 1]])

Interval(lo, hi) == [k \in 1..(hi + 1 - lo) |-> lo + k - 1]

\* Ethereum then holds every message of c committed up to latestBlock
CaughtUp(c) == RelayedNonces(c) = Interval(ethNonce[c] + 1, Committed(c, latestBlock))

(***************************************************************************)
(* A search that completes relays, for each channel, exactly the messages  *)
(* Ethereum lacks up to latestBlock, each once and in nonce order: the     *)
(* walk of the two channels' items through one loop, the nonce test of     *)
(* checkIfDigestItemContainsNonce and the reversal together.               *)
(***************************************************************************)
SearchExact == phase = "done" => \A c \in Channels : CaughtUp(c)

(***************************************************************************)
(* catchupMissedCommitments returns nil only when Ethereum has, for both   *)
(* channels, every message committed up to latestBlock (its doc comment:   *)
(* "relaying all missed commitments before the given block").             *)
(***************************************************************************)
CatchupComplete ==
    phase \in {"insync", "done"} => \A c \in Channels : CaughtUp(c)

=============================================================================
