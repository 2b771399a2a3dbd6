---------------------------- MODULE EthTxManager ----------------------------
(***************************************************************************)
(* The manager of L1 transactions (ethtxmanager/ethtxmanager.go with the   *)
(* rows of pgstorage.go).  Its owner adds a transaction under an id; one   *)
(* goroutine per pending row signs, sends, reprices and follows it until   *)
(* it is mined; the synchronizer sets rows back after an L1 reorg.         *)
(*                                                                         *)
(* Rows are updated as a whole from a copy read earlier (Update of         *)
(* pgstorage.go), so every update may undo what another goroutine wrote.   *)
(*                                                                         *)
(* External: L1 with its mempool and the rollup contract, seen through     *)
(* etherman.  A transaction carries a range of batches <<from, to>>, which *)
(* is also the id of its row; the contract accepts it when it starts after *)
(* the last sequenced batch.  Other reverts are of the environment: with   *)
(* no reason ("execution reverted") or with one.  Also external: the       *)
(* synchronizer (module Synchronizer), which follows L1 block by block.    *)
(*                                                                         *)
(* monitorTx asks for the receipts of the history one by one; here they    *)
(* are asked for in one step.  Receipts only disappear by a reorg.         *)
(***************************************************************************)
EXTENDS Integers, FiniteSets, SequencesExt

CONSTANTS
    MaxReorgDepth,  \* blocks removed by a reorg of L1
    Scenarios       \* the kinds of faults that one behaviour may show, each once

\* L1 is reorged, reverts a transaction, forgets one, raises the gas price, a
\* call to it fails; a member of the data committee does not sign; the node
\* crashes.
FaultKinds == {"reorg", "revert", "eviction", "priceRise", "rpcError", "refusal", "crash"}

ASSUME EthTxManagerAssumption ==
    /\ MaxReorgDepth \in Nat
    /\ Scenarios \subseteq SUBSET FaultKinds

VARIABLES
    chain,      \* L1: blocks with at most one of our transactions each
    mempool,    \* L1: our transactions that are sent and not mined
    synced,     \* the L1 blocks the synchronizer has processed
    monitored,  \* state.monitored_txs in the order of created_at
    mon,        \* the running monitorTx goroutines, by id of their row
    faults      \* kinds of faults the environment has shown

l1Vars == <<chain, mempool>>

Fault(kind) ==
    /\ kind \notin faults
    /\ \E scenario \in Scenarios : faults \cup {kind} \subseteq scenario
    /\ faults' = faults \cup {kind}

-----------------------------------------------------------------------------
(* L1 *)

NoTx == [id |-> <<0, 0>>, nonce |-> -1, gasPrice |-> 0]

\* A block records the outcome of its transaction, and if it is after the reorg,
\* which makes it different from the block it replaces.
Block(tx, outcome) == [tx |-> tx, outcome |-> outcome, fork |-> "reorg" \in faults]

\* Number of the block in c that holds tx, 0 if none does: GetTxReceipt.
MinedAt(c, tx) ==
    IF \E b \in DOMAIN c : c[b].tx = tx THEN CHOOSE b \in DOMAIN c : c[b].tx = tx ELSE 0

IsMined(tx) == MinedAt(chain, tx) # 0
Outcome(tx) == chain[MinedAt(chain, tx)].outcome
Succeeded(tx) == IsMined(tx) /\ Outcome(tx) = "ok"

\* GetLatestBatchNumber: the last batch sequenced in the contract at the end of c.
LastSequenced(c) ==
    LET ok == {b \in DOMAIN c : c[b].tx # NoTx /\ c[b].outcome = "ok"}
    IN  IF ok = {} THEN 0 ELSE c[CHOOSE b \in ok : \A d \in ok : d <= b].tx.id[2]

\* CurrentNonce: NonceAt the latest block.
CurrentNonce == Cardinality({b \in DOMAIN chain : chain[b].tx # NoTx})

\* SuggestedGasPrice.
GasPrice == IF "priceRise" \in faults THEN 2 ELSE 1

\* EstimateGas executes the call on the latest block.
EstimateGas(id) == id[1] = LastSequenced(chain) + 1

\* A transaction is mined; those of the same nonce cannot be any more.
MineTx ==
    \E tx \in mempool :
        /\ tx.nonce = CurrentNonce
        /\ mempool' = {t \in mempool : t.nonce > tx.nonce}
        /\ \/ /\ chain' = Append(chain, Block(tx, IF EstimateGas(tx.id) THEN "ok" ELSE "conflict"))
              /\ UNCHANGED faults
           \/ /\ \E outcome \in {"reverted", "reason"} : chain' = Append(chain, Block(tx, outcome))
              /\ EstimateGas(tx.id) /\ Fault("revert")
        /\ UNCHANGED <<synced, monitored, mon>>

\* A block without a transaction of ours. More than one after a transaction
\* tells the code nothing new.
MineEmpty ==
    /\ chain # <<>> => Last(chain).tx # NoTx
    /\ chain' = Append(chain, Block(NoTx, "ok"))
    /\ UNCHANGED <<mempool, synced, monitored, mon, faults>>

\* The last blocks are replaced; their transactions are in the mempool again.
L1Reorg ==
    /\ Fault("reorg")
    /\ \E depth \in 1 .. MaxReorgDepth :
          /\ depth <= Len(chain)
          /\ LET kept    == SubSeq(chain, 1, Len(chain) - depth)
                 removed == {chain[b].tx : b \in (Len(kept) + 1) .. Len(chain)} \ {NoTx}
             IN  chain' = kept /\ mempool' = mempool \cup removed
    /\ UNCHANGED <<synced, monitored, mon>>

\* The mempool forgets a transaction.
Evict ==
    /\ \E tx \in mempool : mempool' = mempool \ {tx}
    /\ Fault("eviction")
    /\ UNCHANGED <<chain, synced, monitored, mon>>

PriceRise == Fault("priceRise") /\ UNCHANGED <<l1Vars, synced, monitored, mon>>

-----------------------------------------------------------------------------
(* The rows *)

Ids == {monitored[i].id : i \in DOMAIN monitored}
RowOf(id) == monitored[CHOOSE i \in DOMAIN monitored : monitored[i].id = id]

\* storage.Update writes every column of the row.
Update(row) ==
    monitored' = [i \in DOMAIN monitored |->
                    IF monitored[i].id = row.id THEN row ELSE monitored[i]]

GetByStatus(statuses) == SelectSeq(monitored, LAMBDA row : row.status \in statuses)

\* Add after its calls to L1: the row is inserted unless its id exists.
AddRow(id, nonce, gasPrice) ==
    monitored' = Append(monitored,
        [id |-> id, nonce |-> nonce, gasPrice |-> gasPrice, status |-> "created",
         block |-> 0, history |-> {}])

\* Reorg: rows mined after the last block that is left are to be found again.
Reorg(fromBlock) ==
    monitored' = [i \in DOMAIN monitored |->
        IF monitored[i].block >= fromBlock
        THEN [monitored[i] EXCEPT !.status = "reorged", !.block = 0] ELSE monitored[i]]

-----------------------------------------------------------------------------
(* monitorTx.  mon[id] holds the program counter and the copy of the row.    *)

At(id, pc) == id \in DOMAIN mon /\ mon[id].pc = pc

Goto(id, pc, row) == mon' = [mon EXCEPT ![id] = [pc |-> pc, mTx |-> row]]

\* The goroutine ends.
Return(id) == mon' = [i \in DOMAIN mon \ {id} |-> mon[i]]

Pending == {"created", "sent", "reorged"}

\* monitorTxs: one goroutine per pending row; the next cycle starts when all
\* have ended.
MonitorTxs ==
    /\ DOMAIN mon = {}
    /\ \E id \in Ids : RowOf(id).status \in Pending
    /\ mon' = [id \in {i \in Ids : RowOf(i).status \in Pending} |->
                  [pc |-> "check", mTx |-> RowOf(id)]]
    /\ UNCHANGED <<l1Vars, synced, monitored, faults>>

\* What follows the look at the history when nothing is confirmed.
Unconfirmed(id, row) ==
    \/ row.status = "reorged" /\ Return(id)
    \/ row.status = "sent" /\ Goto(id, "review", row)
    \/ row.status = "created" /\ Goto(id, "sign", row)

\* The receipts of the history. A call that fails, at most one here, is skipped.
CheckHistory(id) ==
    /\ At(id, "check")
    /\ \E failedCalls \in {{}} \cup {{tx} : tx \in mon[id].mTx.history} :
        LET row   == mon[id].mTx
            asked == row.history \ failedCalls
            ok    == {tx \in asked : Succeeded(tx)}
            mined == {tx \in asked : IsMined(tx)}
        IN  /\ IF failedCalls = {} THEN UNCHANGED faults ELSE Fault("rpcError")
            /\ \/ \E tx \in ok : Goto(id, "final",
                     [row EXCEPT !.status = "confirmed", !.block = MinedAt(chain, tx)])
               \/ ok = {} /\ mined # {} /\ mined = asked /\ Goto(id, "nonce", row)
               \/ ok = {} /\ (mined = {} \/ mined # asked) /\ Unconfirmed(id, row)
    /\ UNCHANGED <<l1Vars, synced, monitored>>

\* A mutant: the comparison of the nonces is one off.
ReviewNonceTooHigh(id) ==
    /\ At(id, "nonce")
    /\ LET row == [mon[id].mTx EXCEPT !.nonce = IF CurrentNonce > @ + 1 THEN CurrentNonce ELSE @]
       IN  Update(row) /\ Unconfirmed(id, row)
    /\ UNCHANGED <<l1Vars, synced, faults>>

\* reviewMonitoredTxNonce and the update.
ReviewNonce(id) ==
    /\ At(id, "nonce")
    /\ LET row == [mon[id].mTx EXCEPT !.nonce = IF CurrentNonce > @ THEN CurrentNonce ELSE @]
       IN  Update(row) /\ Unconfirmed(id, row)
    /\ UNCHANGED <<l1Vars, synced, faults>>

\* A mutant: the gas is not estimated again.
ReviewTxWithoutEstimate(id) ==
    /\ At(id, "review")
    /\ LET row == [mon[id].mTx EXCEPT !.gasPrice = IF GasPrice > @ THEN GasPrice ELSE @]
       IN  Update(row) /\ Goto(id, "sign", row)
    /\ UNCHANGED <<l1Vars, synced, faults>>

\* reviewMonitoredTx: gas must be estimated again; the price never falls.
ReviewTx(id) ==
    /\ At(id, "review")
    /\ \/ ~EstimateGas(id) /\ Return(id) /\ UNCHANGED monitored
       \/ /\ EstimateGas(id)
          /\ LET row == [mon[id].mTx EXCEPT !.gasPrice = IF GasPrice > @ THEN GasPrice ELSE @]
             IN  Update(row) /\ Goto(id, "sign", row)
    /\ UNCHANGED <<l1Vars, synced, faults>>

Tx(row) == [id |-> row.id, nonce |-> row.nonce, gasPrice |-> row.gasPrice]

\* The transaction is signed and stored in the history before it is sent.
Sign(id) ==
    /\ At(id, "sign")
    /\ LET row == [mon[id].mTx EXCEPT !.history = @ \cup {Tx(mon[id].mTx)}]
       IN  /\ Goto(id, "send", row)
           /\ IF row = mon[id].mTx THEN UNCHANGED monitored ELSE Update(row)
    /\ UNCHANGED <<l1Vars, synced, faults>>

InNetwork(tx) == tx \in mempool \/ IsMined(tx)

\* L1 takes a transaction with a nonce not used, that pays more than the one it replaces.
Accepted(tx) ==
    /\ tx.nonce >= CurrentNonce
    /\ \A t \in mempool : t.nonce = tx.nonce => t.gasPrice < tx.gasPrice

\* GetTx, then SendTx if it is not found.
Send(id) ==
    /\ At(id, "send")
    /\ LET row == mon[id].mTx
           tx  == Tx(row)
       IN  \/ InNetwork(tx) /\ Goto(id, "wait", row) /\ UNCHANGED mempool
           \/ ~InNetwork(tx) /\ ~Accepted(tx) /\ Return(id) /\ UNCHANGED mempool
           \/ /\ ~InNetwork(tx) /\ Accepted(tx)
              /\ mempool' = {t \in mempool : t.nonce # tx.nonce} \cup {tx}
              /\ Goto(id, IF row.status = "created" THEN "sent" ELSE "wait", row)
    /\ UNCHANGED <<chain, synced, monitored, faults>>

Sent(id) ==
    /\ At(id, "sent")
    /\ LET row == [mon[id].mTx EXCEPT !.status = "sent"]
       IN  Update(row) /\ Goto(id, "wait", row)
    /\ UNCHANGED <<l1Vars, synced, faults>>

\* WaitTxToBeMined: the time is over, or the transaction is mined; a receipt
\* of a failed transaction is returned as an error.
Wait(id) ==
    /\ At(id, "wait")
    /\ \/ ~Succeeded(Tx(mon[id].mTx)) /\ Return(id)
       \/ Succeeded(Tx(mon[id].mTx)) /\ Goto(id, "receipt", mon[id].mTx)
    /\ UNCHANGED <<l1Vars, synced, monitored, faults>>

\* GetTxReceipt after the wait: a reorg may have come in between. A revert
\* without a reason is monitored further (shouldContinueToMonitorThisTx).
Receipt(id) ==
    /\ At(id, "receipt")
    /\ LET row   == mon[id].mTx
           block == MinedAt(chain, Tx(row))
       IN  IF block = 0 \/ Outcome(Tx(row)) = "reverted"
           THEN Return(id)
           ELSE Goto(id, "final", [row EXCEPT !.block = block,
                    !.status = IF Outcome(Tx(row)) = "ok" THEN "confirmed" ELSE "failed"])
    /\ UNCHANGED <<l1Vars, synced, monitored, faults>>

Final(id) ==
    /\ At(id, "final")
    /\ Update(mon[id].mTx)
    /\ Return(id)
    /\ UNCHANGED <<l1Vars, synced, faults>>

MonitorTx(id) ==
    \/ CheckHistory(id) \/ ReviewNonce(id) \/ ReviewTx(id) \/ Sign(id) \/ Send(id)
    \/ Sent(id) \/ Wait(id) \/ Receipt(id) \/ Final(id)

-----------------------------------------------------------------------------
(* The synchronizer: next block, or resetState to the last common block.     *)

CommonBlocks ==
    CHOOSE n \in 0 .. Len(synced) :
        /\ SubSeq(synced, 1, n) = SubSeq(chain, 1, n)
        /\ n = Len(synced) \/ n = Len(chain) \/ synced[n + 1] # chain[n + 1]

SyncBlock ==
    /\ CommonBlocks = Len(synced) /\ Len(synced) < Len(chain)
    /\ synced' = Append(synced, chain[Len(synced) + 1])
    /\ UNCHANGED <<l1Vars, monitored, mon, faults>>

ResetState ==
    /\ CommonBlocks < Len(synced)
    /\ synced' = SubSeq(synced, 1, CommonBlocks)
    /\ Reorg(CommonBlocks + 1)
    /\ UNCHANGED <<l1Vars, mon, faults>>
=============================================================================
