------------------------------- MODULE Worker -------------------------------
(***************************************************************************)
(* The sequencer's worker (sequencer/worker.go) and the goroutines that    *)
(* use it:                                                                 *)
(*                                                                         *)
(*   loader     loadFromPool/addTxToWorker: moves pending transactions of  *)
(*              the pool database into the worker                          *)
(*   finalizer  finalizeBatches: takes the best transaction, executes it   *)
(*              and reports the outcome to the worker; after an L2 block   *)
(*              reorg it restores the transactions not stored yet          *)
(*   storer     storeL2Block: commits executed transactions to the state   *)
(*              database, then updates the pool, then the worker           *)
(*   expirer    expireOldWorkerTxs: removes old transactions               *)
(*   pool       AddTx of the RPC: new and resubmitted transactions         *)
(*                                                                         *)
(* An action is what one goroutine does under one acquisition of           *)
(* workerMutex or in one database call.  txSortedList is the set of listed *)
(* transactions (module BestFitting models the search in it); the executor *)
(* is a service outside the repository and is modelled by the account      *)
(* nonces and balances of the state root it works on.                      *)
(***************************************************************************)
EXTENDS AddrQueue, Sequences, Functions

CONSTANTS
    InitBalance,        \* balances of the genesis state
    Fee,                \* gas * gas price of each transaction, as sent by the user
    Faulty,             \* transactions that may be rejected, skipped or out of gas
    Expirable,          \* transactions whose lifetime may end before they are stored
    StateReadMayFail,   \* may GetLastStateRoot/GetNonce/GetBalance fail?
    MaxReorgs,          \* bound on L2 block reorgs
    MaxCrashes,         \* bound on restarts of the node
    MaxResubmits        \* bound on resubmissions of failed transactions

ASSUME WorkerAssumption ==
    /\ InitBalance \in [Addrs -> Nat]
    /\ Fee \in [Txs -> Nat]
    /\ Faulty \subseteq Txs /\ Expirable \subseteq Txs
    /\ StateReadMayFail \in BOOLEAN
    /\ MaxReorgs \in Nat /\ MaxCrashes \in Nat /\ MaxResubmits \in Nat

VARIABLES
    wpool,            \* w.pool: the queue of each address in found
    found,            \* addresses that have a queue
    txSortedList,     \* w.txSortedList as the set of its transactions
    readyTxCounter,   \* addresses with an entry in w.readyTxCounter
    pendingToStore,   \* w.pendingToStore
    reorgedTxs,       \* w.reorgedTxs
    wipTx,            \* w.wipTx
    restore,          \* what RestoreTxsPendingToStore has still to add again
    status,           \* pool database: status column
    isWIP,            \* pool database: is_wip column
    inflight,         \* pool updates issued by goroutines, not yet executed
    loader,           \* the loader's program counter and locals
    expired,          \* transactions the expirer has still to set as failed
    fin,              \* the finalizer's program counter and locals
    wipState,         \* accounts at wipBatch.imStateRoot
    dbState,          \* accounts at the last stored state root
    processed,        \* executed transactions not stored yet, with the state after each
    storing,          \* what the storer has still to do for committed transactions
    stored,           \* transactions of the L2 blocks of the state database
    old,              \* transactions whose lifetime is over
    budget            \* how many reorgs, crashes and resubmissions are left

workerVars == <<wpool, found, txSortedList, readyTxCounter, pendingToStore, reorgedTxs, wipTx, restore>>
poolVars   == <<status, isWIP, inflight>>
chainVars  == <<wipState, dbState, processed, storing, stored>>
vars == <<workerVars, poolVars, chainVars, loader, expired, fin, old, budget>>

-----------------------------------------------------------------------------
Status  == {"none", "pending", "selected", "failed", "invalid"}
Account == [nonce : Nat, balance : Nat]
States  == [Addrs -> Account]

Genesis == [a \in Addrs |-> [nonce |-> 0, balance |-> InitBalance[a]]]
NoQueue == newAddrQueue(0, 0)

NothingToRestore == [txs |-> <<>>, ready |-> {}, notReady |-> {}]
LoaderIdle == [pc |-> "idle", tx |-> NoTx, nonce |-> 0, balance |-> 0, replaced |-> NoTx]
FinIdle    == [pc |-> "idle", tx |-> NoTx, ooc |-> {}, touched |-> {}, balance |-> 0]

TypeOK ==
    /\ wpool \in [Addrs -> AddrQueueType]
    /\ found \subseteq Addrs
    /\ txSortedList \subseteq Txs
    /\ readyTxCounter \subseteq Addrs
    /\ pendingToStore \in Seq(Txs)
    /\ reorgedTxs \in Seq(Txs)
    /\ wipTx \in TxOrNil
    /\ restore \in [txs : Seq(Txs), ready : SUBSET Txs, notReady : SUBSET Txs]
    /\ status \in [Txs -> Status]
    /\ isWIP \in [Txs -> BOOLEAN]
    /\ inflight \subseteq (Txs \X Status)
    /\ loader \in [pc : {"idle", "read", "create", "done", "drop"}, tx : TxOrNil,
                   nonce : Nat, balance : Nat, replaced : TxOrNil]
    /\ expired \subseteq Txs
    /\ fin \in [pc : {"idle", "ooc", "exec", "oog", "moved"}, tx : TxOrNil, ooc : SUBSET Txs,
                touched : SUBSET Addrs, balance : Nat]
    /\ wipState \in States
    /\ dbState \in States
    /\ processed \in Seq([tx : Txs, state : States])
    /\ storing \in Seq([op : {"select", "delete"}, tx : Txs])
    /\ stored \subseteq Txs
    /\ old \subseteq Txs
    /\ budget \in [reorgs : Nat, crashes : Nat, resubmits : Nat]

-----------------------------------------------------------------------------
(* Worker operations, each on the queue of one address.                    *)

SetQueue(a, q) == wpool' = [wpool EXCEPT ![a] = q]

\* Mutant of Relist: prevReadyTx stays listed.
RelistKeepsPrev(a, prevReady, newReady) ==
    /\ txSortedList' = txSortedList \cup ({newReady} \ {NoTx})
    /\ readyTxCounter' = readyTxCounter \cup {a}

\* prevReadyTx leaves the sorted list and the counter, newReadyTx enters them
Relist(a, prevReady, newReady) ==
    /\ txSortedList' = (txSortedList \ {prevReady}) \cup ({newReady} \ {NoTx})
    /\ readyTxCounter' = IF newReady # NoTx THEN readyTxCounter \cup {a}
                         ELSE IF prevReady # NoTx THEN readyTxCounter \ {a}
                         ELSE readyTxCounter

\* workerMutex is held by RestoreTxsPendingToStore until it has added all
Unlocked == restore = NothingToRestore

ResetWipTx(tx) == wipTx' = IF wipTx = tx THEN NoTx ELSE wipTx

\* the tail of addTxTracker, on the queue q of the sender
AddToQueue(q, tx) ==
    LET res == addTx(q, tx)
    IN  /\ SetQueue(From[tx], res.queue)
        /\ found' = found \cup {From[tx]}
        /\ Relist(From[tx], res.prevReady, res.newReady)

\* worker.deleteTx
DeleteFromQueue(tx) ==
    /\ SetQueue(From[tx], deleteTx(wpool[From[tx]], tx))
    /\ IF wpool[From[tx]].readyTx = tx
       THEN Relist(From[tx], tx, NoTx)
       ELSE UNCHANGED <<txSortedList, readyTxCounter>>

\* DeleteTx
DeleteTx(tx) ==
    /\ ResetWipTx(tx)
    /\ DeleteFromQueue(tx)
    /\ UNCHANGED <<found, pendingToStore, reorgedTxs, restore>>

SetStatus(txs, s) ==
    /\ status' = [t \in Txs |-> IF t \in txs THEN s ELSE status[t]]
    /\ isWIP' = [t \in Txs |-> t \notin txs /\ isWIP[t]]

-----------------------------------------------------------------------------
(* The pool: Pool.AddTx (validateTx, then storage.AddTx, an upsert that    *)
(* sets the status to pending and clears is_wip).                          *)

AddTx(t) ==
    /\ status[t] \in {"none", "failed", "invalid"}
    /\ status[t] # "none" => budget.resubmits > 0
    /\ Nonce[t] >= dbState[From[t]].nonce
    /\ Cost[t] <= dbState[From[t]].balance
    /\ \A u \in Txs : (/\ From[u] = From[t] /\ Nonce[u] = Nonce[t]
                       /\ status[u] \in {"pending", "selected"})
                      => Fee[t] >= Fee[u]
    /\ status' = [status EXCEPT ![t] = "pending"]
    /\ isWIP' = [isWIP EXCEPT ![t] = FALSE]
    /\ old' = old \ {t}
    /\ budget' = IF status[t] = "none" THEN budget ELSE [budget EXCEPT !.resubmits = @ - 1]
    /\ UNCHANGED <<workerVars, inflight, chainVars, loader, expired, fin>>

\* a pool update issued in a goroutine of its own reaches the database
PoolUpdate ==
    /\ \E u \in inflight : /\ SetStatus({u[1]}, u[2])
                           /\ inflight' = inflight \ {u}
    /\ UNCHANGED <<workerVars, chainVars, loader, expired, fin, old, budget>>

-----------------------------------------------------------------------------
(* The loader: loadFromPool, addTxToWorker, AddTxTracker.                  *)

\* Mutant of NonWIPPending: what the worker has got is loaded again.
AnyPending(t) == status[t] = "pending"

\* what GetNonWIPPendingTxs returns to loadFromPool
NonWIPPending(t) == status[t] = "pending" /\ ~isWIP[t]

\* AddTxTracker up to the lookup of the queue; an invalid IP or too many
\* reserved counters drop the transaction as the duplicated nonce does
LoadTx(t) ==
    /\ loader.pc = "idle"
    /\ Unlocked
    /\ NonWIPPending(t)
    /\ LET processing == wipTx # NoTx /\ From[wipTx] = From[t] /\ Nonce[wipTx] = Nonce[t]
           res == addTx(wpool[From[t]], t)
       IN  IF processing
           THEN /\ loader' = [LoaderIdle EXCEPT !.pc = "drop", !.tx = t]
                /\ UNCHANGED workerVars
           ELSE IF From[t] \notin found
           THEN /\ loader' = [LoaderIdle EXCEPT !.pc = "read", !.tx = t]
                /\ UNCHANGED workerVars
           ELSE /\ AddToQueue(wpool[From[t]], t)
                /\ loader' = [LoaderIdle EXCEPT !.pc = IF res.dropped THEN "drop" ELSE "done",
                                                !.tx = t, !.replaced = res.replaced]
                /\ UNCHANGED <<pendingToStore, reorgedTxs, wipTx, restore>>
    /\ UNCHANGED <<poolVars, chainVars, expired, fin, old, budget>>

LoadRejected(t) ==
    /\ t \in Faulty
    /\ loader.pc = "idle"
    /\ Unlocked
    /\ NonWIPPending(t)
    /\ loader' = [LoaderIdle EXCEPT !.pc = "drop", !.tx = t]
    /\ UNCHANGED <<workerVars, poolVars, chainVars, expired, fin, old, budget>>

\* without the lock: nonce and balance at the last stored state root
LoaderReadState ==
    /\ loader.pc = "read"
    /\ \/ LET acc == dbState[From[loader.tx]]
          IN  loader' = [loader EXCEPT !.pc = "create", !.nonce = acc.nonce, !.balance = acc.balance]
       \/ StateReadMayFail /\ loader' = [loader EXCEPT !.pc = "drop"]
    /\ UNCHANGED <<workerVars, poolVars, chainVars, expired, fin, old, budget>>

\* the lock again: w.pool[from] = addr, whatever is there by now
LoaderCreateQueue ==
    /\ loader.pc = "create"
    /\ Unlocked
    /\ LET q == newAddrQueue(loader.nonce, loader.balance)
           res == addTx(q, loader.tx)
       IN  /\ AddToQueue(q, loader.tx)
           /\ loader' = [LoaderIdle EXCEPT !.pc = IF res.dropped THEN "drop" ELSE "done",
                                           !.tx = loader.tx, !.replaced = res.replaced]
    /\ UNCHANGED <<pendingToStore, reorgedTxs, wipTx, restore>>
    /\ UNCHANGED <<poolVars, chainVars, expired, fin, old, budget>>

\* the pool updates of addTxToWorker: UpdateTxStatus of a dropped transaction;
\* of the replaced one, then UpdateTxWIPStatus, which leaves the status alone
LoaderUpdatePool ==
    /\ loader.pc \in {"done", "drop"}
    /\ IF loader.pc = "drop"
       THEN SetStatus({loader.tx}, "failed")
       ELSE /\ status' = [t \in Txs |-> IF t = loader.replaced THEN "failed" ELSE status[t]]
            /\ isWIP' = [t \in Txs |-> t = loader.tx \/ (t # loader.replaced /\ isWIP[t])]
    /\ loader' = LoaderIdle
    /\ UNCHANGED <<workerVars, inflight, chainVars, expired, fin, old, budget>>

-----------------------------------------------------------------------------
(* The expirer: expireOldWorkerTxs.                                        *)

\* the lifetime of a transaction ends
Age(t) ==
    /\ t \in Expirable \ old
    /\ status[t] = "pending"
    /\ old' = old \cup {t}
    /\ UNCHANGED <<workerVars, poolVars, chainVars, loader, expired, fin, budget>>

\* Mutant of ExpireWorkerTxs: queues without transactions are deleted, even if
\* they have transactions pending to store.
ExpireDeletesQueues ==
    /\ expired = {}
    /\ Unlocked
    /\ wpool' = [a \in Addrs |-> ExpireTransactions(wpool[a], old).queue]
    /\ found' = {a \in found : getTransactions(wpool'[a]) # {}}
    /\ expired' = UNION {ExpireTransactions(wpool[a], old).expired : a \in Addrs}
    /\ txSortedList' = txSortedList \ old
    /\ UNCHANGED <<readyTxCounter, pendingToStore, reorgedTxs, wipTx, restore>>
    /\ UNCHANGED <<poolVars, chainVars, loader, fin, old, budget>>

ExpireWorkerTxs ==
    /\ expired = {}
    /\ Unlocked
    /\ LET gone(a) == ExpireTransactions(wpool[a], old).expired
       IN  /\ \E a \in Addrs : gone(a) # {}
           /\ wpool' = [a \in Addrs |-> ExpireTransactions(wpool[a], old).queue]
           /\ expired' = UNION {gone(a) : a \in Addrs}
           /\ txSortedList' = txSortedList \ {wpool[a].readyTx : a \in {b \in Addrs : wpool[b].readyTx \in old}}
           /\ readyTxCounter' = {a \in readyTxCounter : wpool[a].readyTx \notin old}
    /\ UNCHANGED <<found, pendingToStore, reorgedTxs, wipTx, restore>>
    /\ UNCHANGED <<poolVars, chainVars, loader, fin, old, budget>>

ExpireUpdatePool(t) ==
    /\ t \in expired
    /\ SetStatus({t}, "failed")
    /\ expired' = expired \ {t}
    /\ UNCHANGED <<workerVars, inflight, chainVars, loader, fin, old, budget>>

-----------------------------------------------------------------------------
(* The finalizer: one round of finalizeBatches.                            *)

IsReadyTx(t) == t # NoTx /\ wpool[From[t]].readyTx = t

\* GetBestFittingTx while a reorg is being processed: the first transaction of
\* reorgedTxs that is ready; wipTx stays nil
GetReorgedTx ==
    /\ fin.pc = "idle"
    /\ Unlocked
    /\ \E i \in DOMAIN reorgedTxs :
          /\ IsReadyTx(reorgedTxs[i])
          /\ \A j \in 1 .. (i - 1) : ~ IsReadyTx(reorgedTxs[j])
          /\ fin' = [FinIdle EXCEPT !.pc = "exec", !.tx = reorgedTxs[i]]
          /\ reorgedTxs' = SubSeq(reorgedTxs, i + 1, Len(reorgedTxs))
    /\ wipTx' = NoTx
    /\ UNCHANGED <<wpool, found, txSortedList, readyTxCounter, pendingToStore, restore>>
    /\ UNCHANGED <<poolVars, chainVars, loader, expired, old, budget>>

\* GetBestFittingTx otherwise: fits are the transactions that fit in the batch,
\* tx the best priced of them.  In the first empty L2 block of a batch the ones
\* seen not to fit are returned too (all those priced above tx at least).
GetBestFittingTx(tx, fits, ooc) ==
    /\ fin.pc = "idle"
    /\ Unlocked
    /\ \A i \in DOMAIN reorgedTxs : ~ IsReadyTx(reorgedTxs[i])
    /\ txSortedList # {}
    /\ txSortedList \ Faulty \subseteq fits /\ fits \subseteq txSortedList
    /\ ooc \subseteq txSortedList \ fits
    /\ IF fits = {} THEN tx = NoTx /\ (ooc = {} \/ ooc = txSortedList)
       ELSE /\ tx \in fits
            /\ \A u \in fits : GasPrice[tx] >= GasPrice[u]
            /\ ooc # {} => \A u \in txSortedList \ fits : GasPrice[u] > GasPrice[tx] => u \in ooc
    /\ ooc = {} => tx # NoTx \/ reorgedTxs # <<>> \/ wipTx # NoTx
    /\ reorgedTxs' = <<>>
    /\ wipTx' = tx
    /\ fin' = [FinIdle EXCEPT !.pc = IF ooc # {} THEN "ooc" ELSE IF tx # NoTx THEN "exec" ELSE "idle",
                              !.tx = tx, !.ooc = ooc]
    /\ UNCHANGED <<wpool, found, txSortedList, readyTxCounter, pendingToStore, restore>>
    /\ UNCHANGED <<poolVars, chainVars, loader, expired, old, budget>>

\* GetBestFittingTx on an empty list still clears wipTx and reorgedTxs
GetNoTx ==
    /\ fin.pc = "idle"
    /\ Unlocked
    /\ \A i \in DOMAIN reorgedTxs : ~ IsReadyTx(reorgedTxs[i])
    /\ txSortedList = {}
    /\ wipTx # NoTx \/ reorgedTxs # <<>>
    /\ wipTx' = NoTx
    /\ reorgedTxs' = <<>>
    /\ UNCHANGED <<wpool, found, txSortedList, readyTxCounter, pendingToStore, restore>>
    /\ UNCHANGED <<poolVars, chainVars, loader, expired, fin, old, budget>>

\* a transaction that fits in no batch leaves the worker and becomes invalid
DiscardOOCTx(t) ==
    /\ fin.pc = "ooc"
    /\ t \in fin.ooc
    /\ Unlocked
    /\ DeleteTx(t)
    /\ SetStatus({t}, "invalid")
    /\ LET rest == fin.ooc \ {t}
       IN  fin' = [fin EXCEPT !.ooc = rest,
                              !.pc = IF rest # {} THEN "ooc" ELSE IF fin.tx # NoTx THEN "exec" ELSE "idle"]
    /\ UNCHANGED <<inflight, chainVars, loader, expired, old, budget>>

Executing(t) == fin.pc = "exec" /\ fin.tx = t /\ Unlocked
Executable(t) == /\ wipState[From[t]].nonce = Nonce[t]
                 /\ Cost[t] <= wipState[From[t]].balance

\* processTransaction ends without a result (executor database error, effective
\* gas price error, no room left in the batch): the transaction stays ready
SkipTx(t) ==
    /\ Executing(t) /\ t \in Faulty
    /\ fin' = FinIdle
    /\ UNCHANGED <<workerVars, poolVars, chainVars, loader, expired, old, budget>>

\* executor error or node level out of counters: pool updated synchronously
InvalidateTx(t) ==
    /\ Executing(t) /\ t \in Faulty
    /\ DeleteTx(t)
    /\ SetStatus({t}, "invalid")
    /\ fin' = FinIdle
    /\ UNCHANGED <<inflight, chainVars, loader, expired, old, budget>>

\* handleProcessTransactionError, ROM out of counters or another ROM error:
\* the pool is updated by a goroutine
RejectTx(t, s) ==
    /\ Executing(t) /\ t \in Faulty
    /\ DeleteTx(t)
    /\ inflight' = inflight \cup {<<t, s>>}
    /\ fin' = FinIdle
    /\ UNCHANGED <<status, isWIP, chainVars, loader, expired, old, budget>>

\* handleProcessTransactionError, invalid nonce or balance: MoveTxToNotReady
\* with the account's actual nonce and balance when the executor reports them
MoveTxToNotReady(t, reported) ==
    /\ Executing(t)
    /\ ~ Executable(t)
    /\ LET a   == From[t]
           q   == wpool[a]
           acc == wipState[a]
           res == IF reported THEN updateCurrentNonceBalance(q, acc.nonce, acc.balance)
                  ELSE updateCurrentNonceBalance(q, q.currentNonce, q.currentBalance)
       IN  IF a \in found
           THEN /\ SetQueue(a, res.queue)
                /\ Relist(a, res.prevReady, res.newReady)
                /\ inflight' = inflight \cup (res.toDelete \X {"failed"})
           ELSE UNCHANGED <<wpool, txSortedList, readyTxCounter, inflight>>
    /\ ResetWipTx(t)
    /\ fin' = FinIdle
    /\ UNCHANGED <<found, pendingToStore, reorgedTxs, restore>>
    /\ UNCHANGED <<status, isWIP, chainVars, loader, expired, old, budget>>

\* success: amount leaves the sender for receiver (the sender itself when
\* only gas is paid); the transaction enters the L2 block and
\* MoveTxPendingToStore takes it out of its queue
ExecuteTx(t, amount, receiver, outOfGas) ==
    /\ Executing(t)
    /\ Executable(t)
    /\ outOfGas => t \in Faulty
    /\ LET a     == From[t]
           paid  == [wipState EXCEPT ![a] = [nonce |-> @.nonce + 1, balance |-> @.balance - amount]]
           after == IF receiver = a THEN paid
                    ELSE [paid EXCEPT ![receiver] = [nonce |-> @.nonce, balance |-> @.balance + amount]]
           held  == t \in getTransactions(wpool[a])
           q     == deleteTx(wpool[a], t)
       IN  /\ wipState' = after
           /\ processed' = Append(processed, [tx |-> t, state |-> after])
           /\ IF a \in found THEN SetQueue(a, addPendingTxToStore(q, t)) ELSE UNCHANGED wpool
           /\ IF IsReadyTx(t) THEN Relist(a, t, NoTx) ELSE UNCHANGED <<txSortedList, readyTxCounter>>
           /\ pendingToStore' = IF held THEN Append(pendingToStore, t) ELSE pendingToStore
    /\ fin' = [fin EXCEPT !.pc = IF outOfGas THEN "oog" ELSE "moved",
                          !.touched = {From[t], receiver},
                          !.balance = wipState'[From[t]].balance]
    /\ UNCHANGED <<found, reorgedTxs, wipTx, restore>>
    /\ UNCHANGED <<poolVars, dbState, storing, stored, loader, expired, old, budget>>

\* after an out of gas error the sender's balance is read again, at the last
\* stored state root; a failed read leaves nil, the queue's own balance
ReadOOGBalance ==
    /\ fin.pc = "oog"
    /\ \/ fin' = [fin EXCEPT !.pc = "moved", !.balance = dbState[From[fin.tx]].balance]
       \/ /\ StateReadMayFail
          /\ fin' = [fin EXCEPT !.pc = "moved", !.balance = wpool[From[fin.tx]].currentBalance]
    /\ UNCHANGED <<workerVars, poolVars, chainVars, loader, expired, old, budget>>

\* applyAddressUpdate for the sender and for the other touched addresses
UpdateAfterSingleSuccessfulTxExecution ==
    /\ fin.pc = "moved"
    /\ Unlocked
    /\ LET a   == From[fin.tx]
           Upd(b) == IF b = a
                     THEN updateCurrentNonceBalance(wpool[b], wipState[b].nonce, fin.balance)
                     ELSE updateCurrentNonceBalance(wpool[b], wpool[b].currentNonce, wipState[b].balance)
           hit == fin.touched \cap found
           prev == {Upd(b).prevReady : b \in hit}
           new  == {Upd(b).newReady : b \in hit} \ {NoTx}
       IN  /\ wpool' = [b \in Addrs |-> IF b \in hit THEN Upd(b).queue ELSE wpool[b]]
           /\ txSortedList' = (txSortedList \ prev) \cup new
           /\ readyTxCounter' = (readyTxCounter \ {b \in hit : Upd(b).prevReady # NoTx})
                                \cup {b \in hit : Upd(b).newReady # NoTx}
           /\ SetStatus(UNION {Upd(b).toDelete : b \in hit}, "failed")
    /\ fin' = FinIdle
    /\ UNCHANGED <<found, pendingToStore, reorgedTxs, wipTx, restore>>
    /\ UNCHANGED <<inflight, chainVars, loader, expired, old, budget>>

-----------------------------------------------------------------------------
(* The storer: storeL2Block, on the transactions of closed L2 blocks.      *)

InClosedBlock == IF fin.pc \in {"oog", "moved"} THEN Len(processed) - 1 ELSE Len(processed)

\* the database commit of an L2 block with the first n executed transactions
CommitL2Block(n) ==
    /\ storing = <<>>
    /\ n \in 1 .. InClosedBlock
    /\ dbState' = processed[n].state
    /\ storing' = [i \in 1 .. (2 * n) |->
                      IF i <= n THEN [op |-> "select", tx |-> processed[i].tx]
                      ELSE [op |-> "delete", tx |-> processed[i - n].tx]]
    /\ processed' = SubSeq(processed, n + 1, Len(processed))
    /\ stored' = stored \cup {processed[i].tx : i \in 1 .. n}
    /\ UNCHANGED <<workerVars, poolVars, wipState, loader, expired, fin, old, budget>>

\* the pool status of a stored transaction
StoreSelect ==
    /\ storing # <<>> /\ Head(storing).op = "select"
    /\ SetStatus({Head(storing).tx}, "selected")
    /\ storing' = Tail(storing)
    /\ UNCHANGED <<workerVars, inflight, wipState, dbState, processed, stored>>
    /\ UNCHANGED <<loader, expired, fin, old, budget>>

RemoveTx(s, t) ==
    IF t \in Range(s)
    THEN LET i == CHOOSE j \in DOMAIN s : s[j] = t
         IN  [j \in 1 .. (Len(s) - 1) |-> IF j < i THEN s[j] ELSE s[j + 1]]
    ELSE s

\* DeleteTxPendingToStore
StoreDelete ==
    /\ storing # <<>> /\ Head(storing).op = "delete"
    /\ Unlocked
    /\ LET t == Head(storing).tx
       IN  /\ pendingToStore' = RemoveTx(pendingToStore, t)
           /\ IF From[t] \in found THEN SetQueue(From[t], deletePendingTxToStore(wpool[From[t]], t))
              ELSE UNCHANGED wpool
    /\ storing' = Tail(storing)
    /\ UNCHANGED <<found, txSortedList, readyTxCounter, reorgedTxs, wipTx, restore>>
    /\ UNCHANGED <<poolVars, wipState, dbState, processed, stored, loader, expired, fin, old, budget>>

-----------------------------------------------------------------------------
(* L2 block reorg: processL2BlockReorg waits until the blocks before the   *)
(* failed one are stored, then RestoreTxsPendingToStore.                   *)

\* Mutant of StartRestore: pendingToStore is not emptied.
StartRestoreKeepsPending(ready, notReady) ==
    /\ restore' = [txs |-> pendingToStore, ready |-> ready, notReady |-> notReady]
    /\ reorgedTxs' = pendingToStore
    /\ wipTx' = NoTx
    /\ wipState' = dbState
    /\ processed' = <<>>
    /\ budget' = [budget EXCEPT !.reorgs = @ - 1]
    /\ UNCHANGED <<pendingToStore, readyTxCounter, poolVars, dbState, storing, stored, loader,
                   expired, fin, old>>

\* the part of RestoreTxsPendingToStore after the queues are taken apart
StartRestore(ready, notReady) ==
    /\ restore' = [txs |-> pendingToStore, ready |-> ready, notReady |-> notReady]
    /\ reorgedTxs' = pendingToStore
    /\ pendingToStore' = <<>>
    /\ wipTx' = NoTx
    /\ wipState' = dbState
    /\ processed' = <<>>
    /\ budget' = [budget EXCEPT !.reorgs = @ - 1]
    /\ UNCHANGED <<readyTxCounter, poolVars, dbState, storing, stored, loader, expired, fin, old>>

CanRestore == fin.pc = "idle" /\ Unlocked /\ storing = <<>> /\ budget.reorgs > 0

\* the addresses whose queues are recreated
RestoredAddrs == {From[t] : t \in Range(pendingToStore)} \cap found

\* Mutants of RestoreTxsPendingToStore: only the ready transactions of the deleted
\* queues are added again; the queues are not deleted.
RestoreForgetsNotReady ==
    /\ CanRestore
    /\ LET ready == {wpool[a].readyTx : a \in RestoredAddrs} \ {NoTx}
       IN  /\ StartRestore(ready, {})
           /\ txSortedList' = txSortedList \ ready
    /\ wpool' = [a \in Addrs |-> IF a \in RestoredAddrs THEN NoQueue ELSE wpool[a]]
    /\ found' = found \ RestoredAddrs

RestoreKeepsQueues ==
    /\ CanRestore
    /\ StartRestore({}, {})
    /\ UNCHANGED <<wpool, found, txSortedList>>

RestoreTxsPendingToStore ==
    /\ CanRestore
    /\ LET ready == {wpool[a].readyTx : a \in RestoredAddrs} \ {NoTx}
       IN  /\ StartRestore(ready, UNION {wpool[a].notReadyTxs : a \in RestoredAddrs})
           /\ txSortedList' = txSortedList \ ready
    /\ wpool' = [a \in Addrs |-> IF a \in RestoredAddrs THEN NoQueue ELSE wpool[a]]
    /\ found' = found \ RestoredAddrs

\* addTxTracker for one of the restored transactions, the lock being held: the
\* ones pending to store in order, then each queue's ready one before the others
RestoreTx(t) ==
    /\ ~ Unlocked
    /\ IF restore.txs # <<>>
       THEN t = Head(restore.txs) /\ restore' = [restore EXCEPT !.txs = Tail(@)]
       ELSE /\ t \in restore.ready \cup restore.notReady
            /\ t \in restore.ready \/ \A u \in restore.ready : From[u] # From[t]
            /\ restore' = [restore EXCEPT !.ready = @ \ {t}, !.notReady = @ \ {t}]
    /\ LET a == From[t]
           q == IF a \in found THEN wpool[a]
                ELSE newAddrQueue(dbState[a].nonce, dbState[a].balance)
       IN  \/ AddToQueue(q, t)
           \/ /\ StateReadMayFail /\ a \notin found
              /\ UNCHANGED <<wpool, found, txSortedList, readyTxCounter>>
    /\ UNCHANGED <<pendingToStore, reorgedTxs, wipTx>>
    /\ UNCHANGED <<poolVars, chainVars, loader, expired, fin, old, budget>>

-----------------------------------------------------------------------------
(* The node stops at any point and starts again: memory is lost and        *)
(* Sequencer.Start calls MarkWIPTxsAsPending.                              *)

Restart ==
    /\ budget.crashes > 0
    /\ budget' = [budget EXCEPT !.crashes = @ - 1]
    /\ wpool' = [a \in Addrs |-> NoQueue]
    /\ found' = {} /\ txSortedList' = {} /\ readyTxCounter' = {}
    /\ pendingToStore' = <<>> /\ reorgedTxs' = <<>> /\ wipTx' = NoTx
    /\ restore' = NothingToRestore
    /\ isWIP' = [t \in Txs |-> FALSE]
    /\ inflight' = {}
    /\ loader' = LoaderIdle /\ expired' = {} /\ fin' = FinIdle
    /\ wipState' = dbState /\ processed' = <<>> /\ storing' = <<>>
    /\ UNCHANGED <<status, dbState, stored, old>>

-----------------------------------------------------------------------------
Init ==
    /\ wpool = [a \in Addrs |-> NoQueue]
    /\ found = {} /\ txSortedList = {} /\ readyTxCounter = {}
    /\ pendingToStore = <<>> /\ reorgedTxs = <<>> /\ wipTx = NoTx
    /\ restore = NothingToRestore
    /\ status = [t \in Txs |-> "none"] /\ isWIP = [t \in Txs |-> FALSE]
    /\ inflight = {}
    /\ loader = LoaderIdle /\ expired = {} /\ fin = FinIdle
    /\ wipState = Genesis /\ dbState = Genesis /\ processed = <<>> /\ storing = <<>>
    /\ stored = {} /\ old = {}
    /\ budget = [reorgs |-> MaxReorgs, crashes |-> MaxCrashes, resubmits |-> MaxResubmits]

LoaderStep == LoaderReadState \/ LoaderCreateQueue \/ LoaderUpdatePool
              \/ \E t \in Txs : LoadTx(t) \/ LoadRejected(t)

SelectStep ==
    \/ GetReorgedTx
    \/ GetNoTx
    \/ \E tx \in TxOrNil, fits, ooc \in SUBSET txSortedList : GetBestFittingTx(tx, fits, ooc)

ExecStep ==
    \/ ReadOOGBalance
    \/ UpdateAfterSingleSuccessfulTxExecution
    \/ \E t \in Txs :
          \/ DiscardOOCTx(t) \/ SkipTx(t) \/ InvalidateTx(t)
          \/ \E s \in {"failed", "invalid"} : RejectTx(t, s)
          \/ \E reported \in BOOLEAN : MoveTxToNotReady(t, reported)
          \/ \E amount \in 0 .. Cost[t], receiver \in Addrs, outOfGas \in BOOLEAN :
                ExecuteTx(t, amount, receiver, outOfGas)

ReorgStep == RestoreTxsPendingToStore \/ \E t \in Txs : RestoreTx(t)

StoreStep == StoreSelect \/ StoreDelete \/ \E n \in 1 .. Len(processed) : CommitL2Block(n)

ExpireStep == ExpireWorkerTxs \/ \E t \in Txs : ExpireUpdatePool(t)

Next ==
    \/ \E t \in Txs : AddTx(t) \/ Age(t)
    \/ PoolUpdate
    \/ LoaderStep
    \/ SelectStep
    \/ ExecStep
    \/ ReorgStep
    \/ StoreStep
    \/ ExpireStep
    \/ Restart

Spec == Init /\ [][Next]_vars

\* Every goroutine of a running sequencer keeps taking steps, L2 blocks are
\* closed by their timer, and lifetimes end.  No fairness for the user (AddTx),
\* for reorgs and crashes, or between the outcomes of an execution.
Fairness ==
    /\ WF_vars(LoaderStep) /\ WF_vars(PoolUpdate) /\ WF_vars(ExpireStep)
    /\ WF_vars(SelectStep \/ ExecStep \/ \E t \in Txs : RestoreTx(t))
    /\ WF_vars(StoreStep)
    /\ \A t \in Txs : WF_vars(Age(t))

FairSpec == Spec /\ Fairness

-----------------------------------------------------------------------------
(* Properties                                                              *)

\* the transactions that are the ready one of some queue
ReadyTxs == {wpool[a].readyTx : a \in Addrs} \ {NoTx}

\* The sorted list the finalizer chooses from holds exactly the ready
\* transactions of the queues, whatever loader, finalizer, expirer and reorg do
\* to the queues, and each of their addresses is counted (add/delete of
\* txSortedList and readyTxCounter against every change of readyTx).
ReadyTxsListed ==
    /\ txSortedList = ReadyTxs
    /\ \A a \in Addrs : wpool[a].readyTx # NoTx => a \in readyTxCounter

\* A ready transaction has the nonce its queue believes current and the queue's
\* balance covers its cost; a queue holds one not-ready transaction per nonce,
\* none of a nonce already used (addTx, updateCurrentNonceBalance).
ReadyTxExecutable ==
    \A a \in found :
        LET q == wpool[a]
        IN  /\ q.readyTx # NoTx => /\ Nonce[q.readyTx] = q.currentNonce
                                   /\ Cost[q.readyTx] <= q.currentBalance
            /\ \A t, u \in q.notReadyTxs :
                  Nonce[t] >= q.currentNonce /\ (Nonce[t] = Nonce[u] => t = u)

\* A transaction is in the queue of its sender only, and is pending to store at
\* most once; one that is pending to store is in no queue, but the one just
\* executed, which AddTxTracker may take again until
\* UpdateAfterSingleSuccessfulTxExecution (MoveTxPendingToStore,
\* DeleteTxPendingToStore, RestoreTxsPendingToStore).
OnePlace ==
    /\ \A a \in Addrs : \A t \in getTransactions(wpool[a]) : From[t] = a
    /\ \A i, j \in DOMAIN pendingToStore : pendingToStore[i] = pendingToStore[j] => i = j
    /\ \A t \in Range(pendingToStore) :
          t \in getTransactions(wpool[From[t]]) => fin.pc \in {"oog", "moved"} /\ fin.tx = t

\* While AddTxTracker works without the lock nobody creates the sender's queue,
\* so that w.pool[tx.FromStr] = addr never overwrites a queue with transactions.
NoQueueOverwritten ==
    loader.pc \in {"read", "create"} => From[loader.tx] \notin found

\* What some goroutine still has to report to the pool
InHand(t) ==
    \/ loader.pc \in {"read", "create", "drop"} /\ t = loader.tx
    \/ loader.pc = "done" /\ t = loader.replaced
    \/ fin.pc # "idle" /\ (t = fin.tx \/ t \in fin.ooc)
    \/ t \in expired
    \/ \E s \in Status : <<t, s>> \in inflight
    \/ \E i \in DOMAIN processed : processed[i].tx = t
    \/ \E i \in DOMAIN storing : storing[i] = [op |-> "select", tx |-> t]

Held(t) ==
    \/ t \in getTransactions(wpool[From[t]])
    \/ t \in Range(pendingToStore) \cup Range(restore.txs) \cup restore.ready \cup restore.notReady

\* Pending for users, and neither will the loader load it (again) nor has the
\* worker or a goroutine got it
Lost(t) ==
    /\ status[t] = "pending"
    /\ isWIP[t] \/ (loader.pc = "done" /\ loader.tx = t)
    /\ ~Held(t) /\ ~InHand(t)

Competes(u, t) == u # t /\ From[u] = From[t] /\ Nonce[u] = Nonce[t]
Resubmitted == budget.resubmits < MaxResubmits
Crashed == budget.crashes < MaxCrashes

\* No step of any goroutine loses a transaction, whatever expires, fails, is
\* reorged or crashes in between, but for what the code itself does not track:
\* another one of the same sender and nonce is in the queue instead, and this one
\* was not reported as replaced (addTx when a reorg puts it back,
\* updateCurrentNonceBalance); the state cannot be read while a reorg puts it back;
\* it was submitted again while the worker still had its first submission.
NoOrphanTx ==
    [][\A t \in Txs : ~Lost(t) /\ Lost(t)' =>
          \/ \E u \in Txs : Competes(u, t) /\ u \in getTransactions(wpool[From[t]])'
          \/ ~Unlocked /\ From[t] \notin found'
          \/ Resubmitted']_vars

\* The nonce a queue believes current is the account's nonce in the state the
\* finalizer builds on, except between the two worker calls that follow an
\* execution (UpdateAfterSingleSuccessfulTxExecution, queues recreated by a reorg).
QueueNonceInSync ==
    (Unlocked /\ fin.pc \notin {"oog", "moved"}) =>
        \A a \in found : wpool[a].currentNonce = wipState[a].nonce

\* Once its L2 block is stored, the pool status of a transaction only changes to
\* selected: no update of the loader, of an execution or of a goroutine that is
\* late sets it as failed or invalid.  What is left: the expirer took it while it
\* was executed; a reorged one was replaced while it was executed (wipTx is nil
\* then); the loader loads it again after a crash between the commit of
\* storeL2Block and its pool update; it was submitted again while the node had it.
StoredTxSelected ==
    [][\A t \in stored : status'[t] # status[t] =>
          \/ status'[t] = "selected"
          \/ t \in expired
          \/ t = loader.replaced
          \/ status[t] = "pending" /\ Crashed
          \/ Resubmitted]_vars

\* Every transaction that is pending and marked as in progress is in the worker, or
\* some goroutine has got it (GetNonWIPPendingTxs does not return it any more).
NoTxLost == \A t \in Txs : ~Lost(t)

\* A transaction that is pending in the pool leaves that status: it is selected,
\* found invalid or failed, or it expires.
PendingResolved ==
    \A t \in Txs : status[t] = "pending" ~> status[t] # "pending"
=============================================================================
