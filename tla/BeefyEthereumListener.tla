------------------------- MODULE BeefyEthereumListener -------------------------
(***************************************************************************)
(* The live mode of the BEEFY relayer's Ethereum listener                  *)
(* (src/unnamed/part_002): for every new Ethereum head it confirms the     *)
(* initial verifications of our BEEFY items that the light-client bridge   *)
(* accepted, forwards witnessed items and items whose wait period has      *)
(* passed to the Ethereum writer, and (by its design) deletes the items    *)
(* whose final verification succeeded.                                     *)
(*                                                                         *)
(* The listener reads the database directly but changes it only through    *)
(* dbMessages, which the database goroutine applies later in FIFO order.   *)
(* The writer and the database goroutine are not in the repository; they   *)
(* are modelled as the item statuses say: the writer turns a witnessed     *)
(* item into an initial verification transaction and the status           *)
(* InitialVerificationTxSent, a ReadyToComplete item into a completion     *)
(* transaction and CompleteVerificationTxSent.  A transaction is mined     *)
(* into the next block only once its hash is in the database (a block      *)
(* takes far longer than a database write); the database may still lag    *)
(* behind the listener's reads.  Every item is ours (event.Prover).        *)
(***************************************************************************)
EXTENDS Naturals, Sequences, FiniteSets, SequencesExt, TLC

CONSTANTS
    Items,                  \* the BEEFY items of the database
    BlockWaitPeriod,        \* BLOCK_WAIT_PERIOD of the light-client bridge
    DescendantsUntilFinal,  \* descendantsUntilFinal
    MaxBlock,               \* last Ethereum head
    MaxTxs,                 \* transactions the writer may send
    StartBlock,             \* ethereumConfig.StartBlock
    MaxCrashes              \* restarts of the relayer process

VARIABLES
    db,             \* db[i]: the row of item i
    dbMessages,     \* commands for the database goroutine, FIFO
    beefyMessages,  \* items forwarded to the writer, FIFO
    txs,            \* transactions sent and not yet mined
    events,         \* light-client bridge events mined
    head,           \* the last head the listener has handled
    sent,           \* transactions the writer has sent (their hashes)
    step,           \* where pollEventsAndHeaders is in handling head
    phase,          \* "down", the two historical passes of Start, or "live"
    backlog,        \* events the running historical pass has still to process
    crashes,        \* restarts so far
    latest          \* latestBlockNumber of the last historical sync

vars == <<db, dbMessages, beefyMessages, txs, events, head, sent, step,
          phase, backlog, crashes, latest>>

CommitmentWitnessed == "CommitmentWitnessed"
InitialVerificationTxSent == "InitialVerificationTxSent"
InitialVerificationTxConfirmed == "InitialVerificationTxConfirmed"
ReadyToComplete == "ReadyToComplete"
CompleteVerificationTxSent == "CompleteVerificationTxSent"
Deleted == "Deleted"        \* the row is gone
Statuses == {CommitmentWitnessed, InitialVerificationTxSent,
             InitialVerificationTxConfirmed, ReadyToComplete,
             CompleteVerificationTxSent, Deleted}

NoItem == "NoItem"          \* the empty BeefyRelayInfo a failed lookup gives
NoTx == 0
Hashes == 1..MaxTxs
Row == [status : Statuses, initialTx : {NoTx} \cup Hashes,
        finalTx : {NoTx} \cup Hashes, completeOnBlock : 0..(MaxBlock + BlockWaitPeriod)]

\* store.NewDatabaseCmd(item, store.Update, instructions) / store.Delete;
\* instructions map column names to values
UpdateCmd(i, instructions) == [item |-> i, op |-> "update", instructions |-> instructions]
DeleteCmd(i) == [item |-> i, op |-> "delete", instructions |-> [f \in {} |-> 0]]

Instruction(ins, f, default) == IF f \in DOMAIN ins THEN ins[f] ELSE default

\* the row after the database applies an update
Updated(r, ins) ==
    [status          |-> Instruction(ins, "status", r.status),
     initialTx       |-> Instruction(ins, "initialTx", r.initialTx),
     finalTx         |-> Instruction(ins, "finalTx", r.finalTx),
     completeOnBlock |-> Instruction(ins, "completeOnBlock", r.completeOnBlock)]

\* GetItemByInitialVerificationTxHash / GetItemByFinalVerificationTxHash
ItemByTx(field, h) ==
    IF \E i \in Items : db[i][field] = h /\ db[i].status # Deleted
    THEN CHOOSE i \in Items : db[i][field] = h /\ db[i].status # Deleted
    ELSE NoItem

StatusOf(i) == IF i = NoItem THEN "" ELSE db[i].status

\* mutant: the status of the item found is not checked
processInitialVerificationSuccessfulEventsAnyStatus(n) ==
    LET evs == {e \in events : e.kind = "initial" /\ e.block = n}
        item(e) == ItemByTx("initialTx", e.hash)
    IN  SetToSeq({UpdateCmd(item(e),
                            ("status" :> InitialVerificationTxConfirmed)
                            @@ ("completeOnBlock" :> n + BlockWaitPeriod)) :
                    e \in evs})

(***************************************************************************)
(* processInitialVerificationSuccessfulEvents(blockNumber): the commands   *)
(* for the InitialVerificationSuccessful events of the block whose item,   *)
(* looked up by transaction hash, is in InitialVerificationTxSent.         *)
(***************************************************************************)
processInitialVerificationSuccessfulEvents(n) ==
    LET evs == {e \in events : e.kind = "initial" /\ e.block = n}
        item(e) == ItemByTx("initialTx", e.hash)
    IN  SetToSeq({UpdateCmd(item(e),
                            ("status" :> InitialVerificationTxConfirmed)
                            @@ ("completeOnBlock" :> n + BlockWaitPeriod)) :
                    e \in {e2 \in evs : StatusOf(item(e2)) = InitialVerificationTxSent}})

\* processFinalVerificationSuccessfulEvents(blockNumber), never called live
processFinalVerificationSuccessfulEvents(n) ==
    LET evs == {e \in events : e.kind = "final" /\ e.block = n}
        item(e) == ItemByTx("finalTx", e.hash)
    IN  SetToSeq({DeleteCmd(item(e)) :
                    e \in {e2 \in evs : StatusOf(item(e2)) = CompleteVerificationTxSent}})

Forward(i, status, n) ==
    [item |-> i, status |-> status, completeOnBlock |-> db[i].completeOnBlock, at |-> n]

\* mutant: the wait for descendantsUntilFinal blocks is dropped
ReadyItemsEarly(n) ==
    {i \in Items : db[i].status = InitialVerificationTxConfirmed
                   /\ db[i].completeOnBlock <= n}

\* the confirmed items whose completion block is final at head n
ReadyItems(n) ==
    {i \in Items : db[i].status = InitialVerificationTxConfirmed
                   /\ db[i].completeOnBlock + DescendantsUntilFinal <= n}

(***************************************************************************)
(* forwardWitnessedBeefyCommitment(blockNumber): the witnessed items as    *)
(* they are, then the ready items as ReadyToComplete copies (the database  *)
(* row is not changed).                                                    *)
(***************************************************************************)
forwardWitnessedBeefyCommitment(n) ==
    SetToSeq({Forward(i, CommitmentWitnessed, n) :
                i \in {j \in Items : db[j].status = CommitmentWitnessed}})
    \o SetToSeq({Forward(i, ReadyToComplete, n) : i \in ReadyItems(n)})


(***************************************************************************)
(* Historical mode.  queryInitial/FinalVerificationSuccessfulEvents return *)
(* the events of StartBlock..latest in log order, or nil on an error.      *)
(* simulatePayloadGeneration rebuilds the commitment payload of an item    *)
(* and ValidationData(event.Id) returns the payload the event verified, so *)
(* the two are equal exactly when the event is about that item.            *)
(***************************************************************************)
LogOrder(a, b) == a.block < b.block \/ (a.block = b.block /\ a.hash < b.hash)

QueryEvents(kind, last) ==
    SetToSortSeq({e \in events : e.kind = kind /\ StartBlock <= e.block /\ e.block <= last},
                 LogOrder)

\* a failed ValidationData call yields the zero payload, which matches no item
simulatePayloadGeneration(i, e, validationOK) == validationOK /\ e.item = i

\* mutant: the completion block counted from the latest block of the sync
processHistoricalInitialFromLatest(e, validationOK) ==
    LET match == {i \in Items : db[i].status = CommitmentWitnessed
                                /\ simulatePayloadGeneration(i, e, validationOK)}
    IN  SetToSeq({UpdateCmd(i, ("status" :> InitialVerificationTxConfirmed)
                               @@ ("initialTx" :> e.hash)
                               @@ ("completeOnBlock" :> latest + BlockWaitPeriod)) : i \in match})

(***************************************************************************)
(* One iteration of processHistoricalInitialVerificationSuccessfulEvents:  *)
(* the CommitmentWitnessed item whose payload the event verified is        *)
(* confirmed with the event's transaction and completion block; an event   *)
(* of an item in any other status is logged and ignored.                   *)
(***************************************************************************)
processHistoricalInitial(e, validationOK) ==
    LET match == {i \in Items : db[i].status = CommitmentWitnessed
                                /\ simulatePayloadGeneration(i, e, validationOK)}
    IN  SetToSeq({UpdateCmd(i, ("status" :> InitialVerificationTxConfirmed)
                               @@ ("initialTx" :> e.hash)
                               @@ ("completeOnBlock" :> e.block + BlockWaitPeriod)) : i \in match})

\* one iteration of processHistoricalFinalVerificationSuccessfulEvents: only
\* InitialVerificationTxConfirmed items are matched ("TODO: list of statuses")
processHistoricalFinal(e, validationOK) ==
    SetToSeq({DeleteCmd(i) : i \in {j \in Items : db[j].status = InitialVerificationTxConfirmed
                                         /\ simulatePayloadGeneration(j, e, validationOK)}})

-----------------------------------------------------------------------------
Init ==
    /\ db = [i \in Items |-> [status |-> CommitmentWitnessed, initialTx |-> NoTx,
                              finalTx |-> NoTx, completeOnBlock |-> 0]]
    /\ dbMessages = <<>>
    /\ beefyMessages = <<>>
    /\ txs = {}
    /\ events = {}
    /\ head = 0
    /\ sent = 0
    /\ step = "idle"
    /\ phase = "live"
    /\ backlog = <<>>
    /\ crashes = 0
    /\ latest = 0

(***************************************************************************)
(* pollEventsAndHeaders, one head n: processInitial...(n),                 *)
(* forwardWitnessed...(n) and processInitial...(n) again, each reading the *)
(* database as it is then; the database goroutine may run in between.     *)
(* The node announces a new head after each import, and a batch of blocks  *)
(* imported at once only by its last header, so a head may be skipped.    *)
(***************************************************************************)
ReceiveHead ==
    /\ phase = "live"
    /\ step = "idle"
    /\ \E n \in (head + 1)..(head + 2) :
          /\ n <= MaxBlock
          /\ head' = n
          /\ dbMessages' = dbMessages \o processInitialVerificationSuccessfulEvents(n)
    /\ step' = "forward"
    /\ UNCHANGED <<db, beefyMessages, txs, events, sent, phase, backlog, crashes, latest>>

ForwardItems ==
    /\ step = "forward"
    /\ beefyMessages' = beefyMessages \o forwardWitnessedBeefyCommitment(head)
    /\ step' = "final"
    /\ UNCHANGED <<db, dbMessages, txs, events, head, sent, phase, backlog, crashes, latest>>

\* line 120 calls processInitialVerificationSuccessfulEvents a second time
FinishHead ==
    /\ step = "final"
    /\ dbMessages' = dbMessages \o processInitialVerificationSuccessfulEvents(head)
    /\ step' = "idle"
    /\ UNCHANGED <<db, beefyMessages, txs, events, head, sent, phase, backlog, crashes, latest>>

\* the writer: one transaction per forwarded item, its hash to the database
Writer ==
    /\ beefyMessages # <<>>
    /\ sent < MaxTxs
    /\ LET m == Head(beefyMessages)
           h == sent + 1
           kind == IF m.status = CommitmentWitnessed THEN "initial" ELSE "final"
           field == IF kind = "initial" THEN "initialTx" ELSE "finalTx"
           status == IF kind = "initial" THEN InitialVerificationTxSent
                     ELSE CompleteVerificationTxSent
       IN  /\ txs' = txs \cup {[kind |-> kind, hash |-> h, item |-> m.item]}
           /\ dbMessages' = Append(dbMessages,
                              UpdateCmd(m.item, ("status" :> status) @@ (field :> h)))
           /\ sent' = h
    /\ beefyMessages' = Tail(beefyMessages)
    /\ UNCHANGED <<db, events, head, step, phase, backlog, crashes, latest>>

\* the database goroutine applies the oldest command; a deleted row stays gone
ApplyDbCmd ==
    /\ dbMessages # <<>>
    /\ LET c == Head(dbMessages)
       IN  db' = IF c.item = NoItem \/ db[c.item].status = Deleted THEN db
                 ELSE IF c.op = "delete" THEN [db EXCEPT ![c.item].status = Deleted]
                 ELSE [db EXCEPT ![c.item] = Updated(@, c.instructions)]
    /\ dbMessages' = Tail(dbMessages)
    /\ UNCHANGED <<beefyMessages, txs, events, head, sent, step, phase, backlog,
                   crashes, latest>>

\* a transaction succeeds in the next block, once its hash is recorded
Mine ==
    /\ head < MaxBlock
    /\ \E t \in txs :
         /\ \A k \in DOMAIN dbMessages :
               t.hash \notin {Instruction(dbMessages[k].instructions, f, NoTx) :
                                 f \in {"initialTx", "finalTx"}}
         /\ events' = events \cup {[kind |-> t.kind, hash |-> t.hash,
                                    item |-> t.item, block |-> head + 1]}
         /\ txs' = txs \ {t}
    /\ UNCHANGED <<db, dbMessages, beefyMessages, head, sent, step, phase, backlog,
                   crashes, latest>>

(***************************************************************************)
(* The relayer process stops: the channels and the goroutines' positions   *)
(* are lost, the database and the transactions already broadcast are not. *)
(***************************************************************************)
ProcessDies ==
    /\ crashes < MaxCrashes
    /\ phase' = "down"
    /\ crashes' = crashes + 1
    /\ dbMessages' = <<>>
    /\ beefyMessages' = <<>>
    /\ backlog' = <<>>
    /\ step' = "idle"
    /\ UNCHANGED <<db, txs, events, head, sent, latest>>

Crash ==
    /\ phase # "down"
    /\ ProcessDies

\* forwardWitnessedBeefyCommitment: a failed BlockByNumber is only logged and
\* block.Hash() is then called on the nil block, which panics
BlockByNumberFails ==
    /\ step = "forward"
    /\ ReadyItems(head) # {}
    /\ ProcessDies

(***************************************************************************)
(* Ethereum goes on producing blocks while the relayer is down or syncing. *)
(* A block mined after the sync read latestBlockNumber (line 95) and before *)
(* SubscribeNewHead (line 108) is in neither: the listener never sees it.  *)
(***************************************************************************)
ChainAdvance ==
    /\ phase # "live"
    /\ head < MaxBlock
    /\ head' = head + 1
    /\ UNCHANGED <<db, dbMessages, beefyMessages, txs, events, sent, step, phase, backlog,
                   crashes, latest>>

(***************************************************************************)
(* Start after a restart: when StartBlock is below the latest block,       *)
(* pollHistoricEventsAndHeaders first queries the InitialVerification-     *)
(* Successful events up to it (nil if the query fails); else live mode.    *)
(***************************************************************************)
Start ==
    /\ phase = "down"
    /\ IF StartBlock < head
       THEN /\ phase' = "historicInitial"
            /\ \E queryOK \in BOOLEAN :
                  backlog' = IF queryOK THEN QueryEvents("initial", head) ELSE <<>>
            /\ latest' = head
       ELSE /\ phase' = "live"
            /\ UNCHANGED <<backlog, latest>>
    /\ UNCHANGED <<db, dbMessages, beefyMessages, txs, events, head, sent, step, crashes>>

HistoricInitial ==
    /\ phase = "historicInitial"
    /\ backlog # <<>>
    /\ \E validationOK \in BOOLEAN :
          dbMessages' = dbMessages \o processHistoricalInitial(Head(backlog), validationOK)
    /\ backlog' = Tail(backlog)
    /\ UNCHANGED <<db, beefyMessages, txs, events, head, sent, step, phase, crashes, latest>>

\* then the FinalVerificationSuccessful events of the same range
HistoricInitialDone ==
    /\ phase = "historicInitial"
    /\ backlog = <<>>
    /\ phase' = "historicFinal"
    /\ \E queryOK \in BOOLEAN :
          backlog' = IF queryOK THEN QueryEvents("final", latest) ELSE <<>>
    /\ UNCHANGED <<db, dbMessages, beefyMessages, txs, events, head, sent, step, crashes, latest>>

HistoricFinal ==
    /\ phase = "historicFinal"
    /\ backlog # <<>>
    /\ \E validationOK \in BOOLEAN :
          dbMessages' = dbMessages \o processHistoricalFinal(Head(backlog), validationOK)
    /\ backlog' = Tail(backlog)
    /\ UNCHANGED <<db, beefyMessages, txs, events, head, sent, step, phase, crashes, latest>>

\* synced: Start launches pollEventsAndHeaders
HistoricFinalDone ==
    /\ phase = "historicFinal"
    /\ backlog = <<>>
    /\ phase' = "live"
    /\ UNCHANGED <<db, dbMessages, beefyMessages, txs, events, head, sent, step, backlog,
                   crashes, latest>>

Next == ReceiveHead \/ ForwardItems \/ FinishHead \/ Writer \/ ApplyDbCmd \/ Mine
        \/ BlockByNumberFails \/ Crash \/ ChainAdvance \/ Start \/ HistoricInitial \/ HistoricInitialDone \/ HistoricFinal
        \/ HistoricFinalDone

Spec == Init /\ [][Next]_vars

-----------------------------------------------------------------------------
TypeOK ==
    /\ db \in [Items -> Row]
    /\ \A k \in DOMAIN dbMessages : dbMessages[k].item \in Items
    /\ head \in 0..MaxBlock
    /\ sent \in 0..MaxTxs
    /\ step \in {"idle", "forward", "final"}
    /\ phase \in {"down", "historicInitial", "historicFinal", "live"}
    /\ backlog \in Seq(events)
    /\ crashes \in 0..MaxCrashes
    /\ latest \in 0..MaxBlock

(***************************************************************************)
(* A completion is forwarded to the writer only when the block the bridge  *)
(* set as completion block (the block of an initial verification of the   *)
(* item plus BLOCK_WAIT_PERIOD) is descendantsUntilFinal blocks deep: it   *)
(* relates the forwarded copy to an event the listener confirmed several   *)
(* heads and database writes earlier.                                      *)
(***************************************************************************)
ReadyAfterWait ==
    [][\A k \in (Len(beefyMessages) + 1)..Len(beefyMessages') :
         LET m == beefyMessages'[k]
         IN  m.status = ReadyToComplete =>
               \E e \in events :
                  /\ e.kind = "initial" /\ e.item = m.item
                  /\ m.completeOnBlock = e.block + BlockWaitPeriod
                  /\ m.completeOnBlock + DescendantsUntilFinal <= m.at]_vars

=============================================================================
