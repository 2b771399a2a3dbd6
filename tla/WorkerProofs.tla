---------------------------- MODULE WorkerProofs ----------------------------
(***************************************************************************)
(* For every set of transactions and addresses, every fee and balance and  *)
(* every bound: the worker's structures stay well formed.  The inductive   *)
(* invariant WorkerInv adds to the checked properties what makes them      *)
(* inductive: an address without a queue has no transactions, transactions *)
(* pending to store have a queue, and no transaction being restored has    *)
(* the sender whose queue the loader is about to create.                   *)
(*                                                                         *)
(* A leaf that needs no arithmetic cites Zenon, the faster prover for it.  *)
(***************************************************************************)
EXTENDS Worker, SequenceTheorems, TLAPS

\* a queue of address a whose transactions are a's, with usable nonces
QueueOK(a, q) ==
    /\ q.readyTx # NoTx => /\ From[q.readyTx] = a
                           /\ Nonce[q.readyTx] = q.currentNonce
                           /\ Cost[q.readyTx] <= q.currentBalance
    /\ \A t \in q.notReadyTxs : From[t] = a /\ Nonce[t] >= q.currentNonce
    /\ \A t, u \in q.notReadyTxs : Nonce[t] = Nonce[u] => t = u

\* what the caller does to the sorted list when the ready transaction of q
\* becomes the one of r: prev leaves, new enters
ReadyMoves(q, r, prev, new) ==
    \/ prev = NoTx /\ r.readyTx = q.readyTx /\ new \in {NoTx, q.readyTx}
    \/ prev = q.readyTx /\ r.readyTx = new

-----------------------------------------------------------------------------
(* The operations on one queue.                                            *)

\* A new queue is a well-formed queue of any address.
LEMMA NewQueue ==
    ASSUME NEW nonce \in Nat, NEW balance \in Nat
    PROVE  /\ newAddrQueue(nonce, balance) \in AddrQueueType
           /\ \A a \in Addrs : QueueOK(a, newAddrQueue(nonce, balance))
           /\ newAddrQueue(nonce, balance).readyTx = NoTx
    BY Zenon DEF newAddrQueue, AddrQueueType, TxOrNil, QueueOK

\* addTx returns a well-formed queue of the sender and says what became of the
\* ready transaction.
LEMMA AddTxQueue ==
    ASSUME NEW q \in AddrQueueType, NEW tx \in Txs, QueueOK(From[tx], q)
    PROVE  LET res == addTx(q, tx)
           IN  /\ res.queue \in AddrQueueType
               /\ res.newReady \in TxOrNil /\ res.prevReady \in TxOrNil
               /\ res.replaced \in TxOrNil /\ res.dropped \in BOOLEAN
               /\ QueueOK(From[tx], res.queue)
               /\ ReadyMoves(q, res.queue, res.prevReady, res.newReady)
<1> USE TxAssumption
<1>1. CASE Nonce[tx] < q.currentNonce
    <2>1. addTx(q, tx) = Dropped(q)
        BY <1>1 DEF addTx, AddrQueueType
    <2> QED BY <2>1 DEF Dropped, AddrQueueType, TxOrNil, ReadyMoves
<1>2. CASE Nonce[tx] > q.currentNonce
    <2>1. addTx(q, tx) = addAsNotReady(q, tx)
        BY <1>2 DEF addTx, AddrQueueType
    <2> DEFINE same == AtNonce(q.notReadyTxs, Nonce[tx])
    <2>2. CASE \A t \in same : GasPrice[tx] >= GasPrice[t]
        <3>1. addAsNotReady(q, tx) =
                [queue |-> [q EXCEPT !.notReadyTxs = PutNotReady(@, tx)],
                 newReady  |-> NoTx, prevReady |-> NoTx,
                 replaced  |-> IF same \ {tx} = {} THEN NoTx ELSE CHOOSE t \in same \ {tx} : TRUE,
                 dropped   |-> FALSE]
            BY <2>2, Zenon DEF addAsNotReady
        <3>2. (IF same \ {tx} = {} THEN NoTx ELSE CHOOSE t \in same \ {tx} : TRUE) \in TxOrNil
            BY Zenon DEF AtNonce, TxOrNil, AddrQueueType
        <3>3. PutNotReady(q.notReadyTxs, tx) \in SUBSET Txs
            BY Zenon DEF PutNotReady, AtNonce, AddrQueueType
        <3>4. QueueOK(From[tx], [q EXCEPT !.notReadyTxs = PutNotReady(@, tx)])
            BY <1>2 DEF QueueOK, PutNotReady, AtNonce, AddrQueueType
        <3> HIDE DEF same
        <3> QED BY <2>1, <3>1, <3>2, <3>3, <3>4 DEF AddrQueueType, TxOrNil, ReadyMoves
    <2>3. CASE ~ \A t \in same : GasPrice[tx] >= GasPrice[t]
        <3>1. addAsNotReady(q, tx) = Dropped(q)
            BY <2>3, Zenon DEF addAsNotReady
        <3> QED BY <2>1, <3>1 DEF Dropped, AddrQueueType, TxOrNil, ReadyMoves
    <2> QED BY <2>2, <2>3, Zenon
<1>3. CASE Nonce[tx] = q.currentNonce
    <2>1. CASE q.readyTx = NoTx \/ GasPrice[tx] >= GasPrice[q.readyTx]
        <3>1. addTx(q, tx) = addAsReady(q, tx)
            BY <1>3, <2>1 DEF addTx, AddrQueueType
        <3>2. PutNotReady(q.notReadyTxs, tx) \in SUBSET Txs
            BY Zenon DEF PutNotReady, AtNonce, AddrQueueType
        <3>3. Cost[tx] <= q.currentBalance => QueueOK(From[tx], [q EXCEPT !.readyTx = tx])
            BY <1>3, Zenon DEF QueueOK, AddrQueueType
        <3>4. QueueOK(From[tx], [q EXCEPT !.readyTx = NoTx, !.notReadyTxs = PutNotReady(@, tx)])
            BY <1>3 DEF QueueOK, PutNotReady, AtNonce, AddrQueueType
        <3> DEFINE res == addTx(q, tx)
        <3>5. /\ res.queue = IF Cost[tx] <= q.currentBalance THEN [q EXCEPT !.readyTx = tx]
                             ELSE [q EXCEPT !.readyTx = NoTx, !.notReadyTxs = PutNotReady(@, tx)]
              /\ res.newReady = IF Cost[tx] <= q.currentBalance THEN tx ELSE NoTx
              /\ res.prevReady = q.readyTx
              /\ res.replaced = IF q.readyTx = tx THEN NoTx ELSE q.readyTx
              /\ res.dropped = FALSE
            BY <3>1 DEF addAsReady
        <3>6. res.queue \in AddrQueueType
            BY <3>2, <3>5, Zenon DEF AddrQueueType, TxOrNil
        <3>7. QueueOK(From[tx], res.queue)
            BY <3>3, <3>4, <3>5, Zenon
        <3>8. res.queue.readyTx = res.newReady
            BY <3>5, Zenon DEF AddrQueueType
        <3> HIDE DEF res
        <3>9. /\ res.newReady \in TxOrNil /\ res.prevReady \in TxOrNil
              /\ res.replaced \in TxOrNil /\ res.dropped \in BOOLEAN
            BY <3>5, Zenon DEF AddrQueueType, TxOrNil
        <3>10. ReadyMoves(q, res.queue, res.prevReady, res.newReady)
            BY <3>5, <3>8, Zenon DEF ReadyMoves
        <3> QED BY <3>6, <3>7, <3>9, <3>10, Zenon DEF res
    <2>2. CASE ~ (q.readyTx = NoTx \/ GasPrice[tx] >= GasPrice[q.readyTx])
        <3>1. addTx(q, tx) = Dropped(q)
            BY <1>3, <2>2 DEF addTx, AddrQueueType
        <3> QED BY <3>1 DEF Dropped, AddrQueueType, TxOrNil, ReadyMoves
    <2> QED BY <2>1, <2>2, Zenon
<1> QED BY <1>1, <1>2, <1>3 DEF AddrQueueType

\* deleteTx returns a well-formed queue; only the deleted transaction stops
\* being ready.
LEMMA DeleteTxQueue ==
    ASSUME NEW a \in Addrs, NEW q \in AddrQueueType, NEW tx \in Txs, QueueOK(a, q)
    PROVE  /\ deleteTx(q, tx) \in AddrQueueType
           /\ QueueOK(a, deleteTx(q, tx))
           /\ deleteTx(q, tx).readyTx = IF q.readyTx = tx THEN NoTx ELSE q.readyTx
    BY TxAssumption, Zenon DEF deleteTx, QueueOK, AddrQueueType, TxOrNil

\* The set of transactions pending to store plays no part in well-formedness.
LEMMA PendingQueue ==
    ASSUME NEW a \in Addrs, NEW q \in AddrQueueType, NEW tx \in Txs, QueueOK(a, q)
    PROVE  /\ addPendingTxToStore(q, tx) \in AddrQueueType
           /\ QueueOK(a, addPendingTxToStore(q, tx))
           /\ addPendingTxToStore(q, tx).readyTx = q.readyTx
           /\ deletePendingTxToStore(q, tx) \in AddrQueueType
           /\ QueueOK(a, deletePendingTxToStore(q, tx))
           /\ deletePendingTxToStore(q, tx).readyTx = q.readyTx
    BY Zenon DEF addPendingTxToStore, deletePendingTxToStore, QueueOK, AddrQueueType

\* ExpireTransactions returns a well-formed queue, without the old transactions.
LEMMA ExpireQueue ==
    ASSUME NEW a \in Addrs, NEW q \in AddrQueueType, NEW S \in SUBSET Txs, QueueOK(a, q)
    PROVE  /\ ExpireTransactions(q, S).queue \in AddrQueueType
           /\ QueueOK(a, ExpireTransactions(q, S).queue)
           /\ ExpireTransactions(q, S).queue.readyTx = IF q.readyTx \in S THEN NoTx ELSE q.readyTx
           /\ ExpireTransactions(q, S).expired \in SUBSET Txs
    BY TxAssumption, Zenon DEF ExpireTransactions, getTransactions, QueueOK, AddrQueueType, TxOrNil

\* updateCurrentNonceBalance returns a well-formed queue whatever the new nonce,
\* lower ones included, and says what became of the ready transaction.
LEMMA UpdateQueue ==
    ASSUME NEW a \in Addrs, NEW q \in AddrQueueType, NEW nonce \in Nat, NEW balance \in Nat,
           QueueOK(a, q)
    PROVE  LET res == updateCurrentNonceBalance(q, nonce, balance)
           IN  /\ res.queue \in AddrQueueType
               /\ res.newReady \in TxOrNil /\ res.prevReady \in TxOrNil
               /\ res.toDelete \in SUBSET Txs
               /\ QueueOK(a, res.queue)
               /\ ReadyMoves(q, res.queue, res.prevReady, res.newReady)
               /\ res.queue.readyTx = res.newReady
<1> USE TxAssumption
<1> DEFINE tooLow   == {t \in q.notReadyTxs : nonce # q.currentNonce /\ Nonce[t] < nonce}
           kept     == q.notReadyTxs \ tooLow
           keeps    == q.readyTx # NoTx => Nonce[q.readyTx] = nonce /\ Cost[q.readyTx] <= balance
           oldReady == IF keeps THEN NoTx ELSE q.readyTx
           ready    == IF keeps THEN q.readyTx ELSE NoTx
           promoted == {t \in AtNonce(kept, nonce) : ready = NoTx /\ Cost[t] <= balance}
           newReady == IF promoted = {} THEN ready ELSE CHOOSE t \in promoted : TRUE
           rest     == kept \ promoted
           demoted  == oldReady # NoTx /\ Nonce[oldReady] > nonce
           nr       == IF demoted THEN PutNotReady(rest, oldReady) ELSE rest
           del      == tooLow \cup (IF demoted THEN {} ELSE {oldReady} \ {NoTx})
<1>1. updateCurrentNonceBalance(q, nonce, balance) =
        [queue |-> [q EXCEPT !.currentNonce = nonce, !.currentBalance = balance,
                             !.readyTx = newReady, !.notReadyTxs = nr],
         newReady |-> newReady, prevReady |-> oldReady, toDelete |-> del]
    BY Zenon DEF updateCurrentNonceBalance
<1>2. q.notReadyTxs \in SUBSET Txs /\ q.readyTx \in TxOrNil /\ q.currentNonce \in Nat
    BY Zenon DEF AddrQueueType
<1>3. kept \in SUBSET Txs /\ \A t \in kept : Nonce[t] >= nonce /\ From[t] = a
    BY <1>2 DEF QueueOK
<1>4. newReady \in TxOrNil
      /\ (newReady # NoTx => From[newReady] = a /\ Nonce[newReady] = nonce /\ Cost[newReady] <= balance)
    BY <1>2, <1>3, Zenon DEF QueueOK, AtNonce, TxOrNil
<1>5. nr \in SUBSET Txs /\ \A t \in nr : From[t] = a /\ Nonce[t] >= nonce
    BY <1>2, <1>3 DEF PutNotReady, AtNonce, QueueOK, TxOrNil
<1>6. \A t, u \in nr : Nonce[t] = Nonce[u] => t = u
    BY <1>2, Zenon DEF PutNotReady, AtNonce, QueueOK, TxOrNil
<1>7. oldReady \in TxOrNil /\ del \in SUBSET Txs
    BY <1>2, Zenon DEF TxOrNil
<1>8. \/ oldReady = NoTx /\ newReady = q.readyTx
      \/ oldReady = q.readyTx
    BY Zenon DEF TxOrNil
<1> DEFINE res == updateCurrentNonceBalance(q, nonce, balance)
<1> HIDE DEF newReady, nr, del, oldReady
<1>9. /\ res.queue = [q EXCEPT !.currentNonce = nonce, !.currentBalance = balance,
                               !.readyTx = newReady, !.notReadyTxs = nr]
      /\ res.newReady = newReady /\ res.prevReady = oldReady /\ res.toDelete = del
    BY <1>1
<1> HIDE DEF res
<1>10. res.queue \in AddrQueueType /\ res.queue.readyTx = newReady
    BY <1>4, <1>5, <1>9, Zenon DEF AddrQueueType
<1>11. QueueOK(a, res.queue)
    BY <1>4, <1>5, <1>6, <1>9 DEF AddrQueueType, QueueOK
<1>12. ReadyMoves(q, res.queue, res.prevReady, res.newReady)
    BY <1>8, <1>9, <1>10, Zenon DEF ReadyMoves
<1> QED
    BY <1>4, <1>7, <1>9, <1>10, <1>11, <1>12, Zenon DEF res

-----------------------------------------------------------------------------
(* The inductive invariant.                                                *)

QueuesOK == \A a \in Addrs : QueueOK(a, wpool[a])

Restoring == Range(restore.txs) \cup restore.ready \cup restore.notReady

AbsentEmpty == \A a \in Addrs \ found : wpool[a] = NoQueue

PendingFound == \A i \in DOMAIN pendingToStore : From[pendingToStore[i]] \in found

LoaderInv ==
    /\ loader.pc # "idle" => loader.tx \in Txs
    /\ loader.pc \in {"read", "create"} =>
          /\ From[loader.tx] \notin found
          /\ \A t \in Restoring : From[t] # From[loader.tx]

FinInv == fin.pc \in {"exec", "oog", "moved"} => fin.tx \in Txs

WorkerInv ==
    /\ TypeOK
    /\ ReadyTxsListed
    /\ QueuesOK
    /\ AbsentEmpty
    /\ PendingFound
    /\ LoaderInv
    /\ FinInv

\* The invariant implies the properties the runs check.
LEMMA InvImplies == WorkerInv => ReadyTxExecutable /\ NoQueueOverwritten
    BY DEF WorkerInv, QueuesOK, QueueOK, ReadyTxExecutable, LoaderInv, NoQueueOverwritten, TypeOK

\* Changing the queue of one address and relisting what the operation returned
\* keeps the sorted list in step with the queues.
LEMMA RelistOne ==
    ASSUME wpool \in [Addrs -> AddrQueueType], QueuesOK, ReadyTxsListed,
           readyTxCounter \subseteq Addrs,
           NEW a \in Addrs, NEW q \in AddrQueueType, NEW prev \in TxOrNil, NEW new \in TxOrNil,
           QueueOK(a, q), ReadyMoves(wpool[a], q, prev, new),
           SetQueue(a, q), Relist(a, prev, new)
    PROVE  /\ wpool' \in [Addrs -> AddrQueueType]
           /\ txSortedList' \subseteq Txs /\ readyTxCounter' \subseteq Addrs
           /\ QueuesOK' /\ ReadyTxsListed'
<1> USE TxAssumption
<1>1. /\ wpool' \in [Addrs -> AddrQueueType]
      /\ wpool'[a] = q
      /\ \A b \in Addrs \ {a} : wpool'[b] = wpool[b]
    BY Zenon DEF SetQueue
<1>2. QueuesOK'
    BY <1>1 DEF QueuesOK, QueueOK
<1>3. \A b \in Addrs : wpool[b].readyTx \in TxOrNil /\ wpool'[b].readyTx \in TxOrNil
    BY <1>1, Zenon DEF AddrQueueType
<1>4. \A b \in Addrs : /\ wpool[b].readyTx # NoTx => From[wpool[b].readyTx] = b
                       /\ wpool'[b].readyTx # NoTx => From[wpool'[b].readyTx] = b
    BY <1>2, Zenon DEF QueuesOK, QueueOK
<1>5. txSortedList' = ReadyTxs'
    BY <1>1, <1>3, <1>4 DEF Relist, ReadyMoves, ReadyTxsListed, ReadyTxs, TxOrNil
<1>6. txSortedList' \subseteq Txs
    BY <1>3, <1>5, Zenon DEF ReadyTxs, TxOrNil
<1>7. readyTxCounter' \subseteq Addrs /\ \A b \in Addrs : wpool'[b].readyTx # NoTx => b \in readyTxCounter'
    BY <1>1, Zenon DEF Relist, ReadyMoves, ReadyTxsListed
<1> QED BY <1>1, <1>2, <1>5, <1>6, <1>7, Zenon DEF ReadyTxsListed

-----------------------------------------------------------------------------
(* Steps.                                                                  *)

\* The initial state satisfies the invariant.
LEMMA InitInv == Init => WorkerInv
<1> SUFFICES ASSUME Init PROVE WorkerInv
    BY Zenon
<1> USE TxAssumption, WorkerAssumption
<1>1. NoQueue \in AddrQueueType /\ NoQueue.readyTx = NoTx /\ \A a \in Addrs : QueueOK(a, NoQueue)
    BY NewQueue, Zenon DEF NoQueue
<1>2. Genesis \in States
    BY Zenon DEF Genesis, States, Account
<1>3. TypeOK
    BY <1>1, <1>2 DEF Init, TypeOK, TxOrNil, NothingToRestore, LoaderIdle, FinIdle, Status
<1>4. ReadyTxsListed /\ QueuesOK
    BY <1>1, Zenon DEF Init, ReadyTxsListed, ReadyTxs, QueuesOK
<1>5. AbsentEmpty /\ PendingFound /\ LoaderInv /\ FinInv
    BY DEF Init, AbsentEmpty, PendingFound, LoaderInv, FinInv, LoaderIdle, FinIdle
<1> QED BY <1>3, <1>4, <1>5, Zenon DEF WorkerInv

\* What a step that leaves the queues and lists alone has to keep.
LEMMA QueuesUnchanged ==
    ASSUME WorkerInv, UNCHANGED <<wpool, found, txSortedList, readyTxCounter, pendingToStore>>,
           TypeOK', LoaderInv', FinInv'
    PROVE  WorkerInv'
    BY DEF WorkerInv, ReadyTxsListed, ReadyTxs, QueuesOK, QueueOK, AbsentEmpty, PendingFound

\* UpdateTxStatus keeps the types of the pool's columns.
LEMMA SetStatusType ==
    ASSUME isWIP \in [Txs -> BOOLEAN], status \in [Txs -> Status],
           NEW txs, NEW s \in Status, SetStatus(txs, s)
    PROVE  status' \in [Txs -> Status] /\ isWIP' \in [Txs -> BOOLEAN]
    BY Zenon DEF SetStatus

\* The steps of the pool and of the loader between two worker calls.
LEMMA PoolSteps ==
    ASSUME WorkerInv,
           \/ \E t \in Txs : AddTx(t) \/ Age(t) \/ LoadRejected(t) \/ ExpireUpdatePool(t)
           \/ PoolUpdate
           \/ LoaderReadState
           \/ LoaderUpdatePool
    PROVE  WorkerInv'
<1> USE TxAssumption, WorkerAssumption DEF WorkerInv
<1>1. ASSUME NEW t \in Txs, AddTx(t) PROVE WorkerInv'
    <2>1. TypeOK'
        <3>1. budget' \in [reorgs : Nat, crashes : Nat, resubmits : Nat]
            <4>1. status[t] # "none" => budget.resubmits \in Nat /\ budget.resubmits > 0
                BY <1>1, Zenon DEF AddTx, TypeOK
            <4>2. status[t] # "none" => budget.resubmits - 1 \in Nat
                BY <4>1
            <4>3. budget' = IF status[t] = "none" THEN budget
                            ELSE [budget EXCEPT !.resubmits = budget.resubmits - 1]
                BY <1>1, Zenon DEF AddTx
            <4> QED BY <4>2, <4>3, Zenon DEF TypeOK
        <3>2. status' \in [Txs -> Status] /\ isWIP' \in [Txs -> BOOLEAN] /\ old' \subseteq Txs
            BY <1>1, Zenon DEF AddTx, TypeOK, Status
        <3> QED BY <1>1, <3>1, <3>2, Zenon DEF AddTx, TypeOK, workerVars, chainVars
    <2> QED BY <1>1, <2>1, QueuesUnchanged, Zenon
            DEF AddTx, workerVars, LoaderInv, FinInv, Restoring, Range
<1>2. ASSUME NEW t \in Txs, Age(t) PROVE WorkerInv'
    <2>1. TypeOK'
        BY <1>2, Zenon DEF Age, TypeOK, workerVars, poolVars, chainVars
    <2> QED BY <1>2, <2>1, QueuesUnchanged, Zenon
            DEF Age, workerVars, LoaderInv, FinInv, Restoring, Range
<1>3. ASSUME NEW t \in Txs, LoadRejected(t) PROVE WorkerInv'
    <2>1. TypeOK'
        BY <1>3, Zenon DEF LoadRejected, TypeOK, workerVars, poolVars, chainVars, LoaderIdle, TxOrNil
    <2>2. LoaderInv'
        BY <1>3, Zenon DEF LoadRejected, LoaderInv, LoaderIdle
    <2> QED BY <1>3, <2>1, <2>2, QueuesUnchanged, Zenon DEF LoadRejected, workerVars, FinInv
<1>4. ASSUME NEW t \in Txs, ExpireUpdatePool(t) PROVE WorkerInv'
    <2>1. status' \in [Txs -> Status] /\ isWIP' \in [Txs -> BOOLEAN]
        BY <1>4, SetStatusType, Zenon DEF ExpireUpdatePool, TypeOK, Status
    <2>2. TypeOK'
        BY <1>4, <2>1, Zenon DEF ExpireUpdatePool, TypeOK, workerVars, chainVars
    <2> QED BY <1>4, <2>2, QueuesUnchanged, Zenon
            DEF ExpireUpdatePool, workerVars, LoaderInv, FinInv, Restoring, Range
<1>5. CASE PoolUpdate
    <2>1. PICK u \in inflight : SetStatus({u[1]}, u[2]) /\ inflight' = inflight \ {u}
        BY <1>5, Zenon DEF PoolUpdate
    <2>2. status' \in [Txs -> Status] /\ isWIP' \in [Txs -> BOOLEAN]
        BY <2>1, SetStatusType, Zenon DEF TypeOK
    <2>3. TypeOK'
        BY <1>5, <2>1, <2>2, Zenon DEF PoolUpdate, TypeOK, workerVars, chainVars
    <2> QED BY <1>5, <2>3, QueuesUnchanged, Zenon
            DEF PoolUpdate, workerVars, LoaderInv, FinInv, Restoring, Range
<1>6. CASE LoaderReadState
    <2>1. dbState[From[loader.tx]] \in Account
        BY <1>6, Zenon DEF LoaderReadState, LoaderInv, TypeOK, States
    <2>2. /\ loader' \in [pc : {"idle", "read", "create", "done", "drop"}, tx : TxOrNil,
                          nonce : Nat, balance : Nat, replaced : TxOrNil]
          /\ loader'.tx = loader.tx /\ loader'.pc \in {"create", "drop"}
        BY <1>6, <2>1, ZenonT(30) DEF LoaderReadState, TypeOK, Account
    <2>3. TypeOK'
        BY <1>6, <2>2, Zenon DEF LoaderReadState, TypeOK, workerVars, poolVars, chainVars
    <2>4. LoaderInv'
        BY <1>6, <2>2 DEF LoaderReadState, LoaderInv, workerVars, Restoring, Range
    <2> QED BY <1>6, <2>3, <2>4, QueuesUnchanged, Zenon DEF LoaderReadState, workerVars, FinInv
<1>7. CASE LoaderUpdatePool
    <2>1. status' \in [Txs -> Status] /\ isWIP' \in [Txs -> BOOLEAN]
        <3>1. CASE loader.pc = "drop"
            BY <1>7, <3>1, SetStatusType, Zenon DEF LoaderUpdatePool, TypeOK, Status
        <3>2. CASE loader.pc # "drop"
            BY <1>7, <3>2, Zenon DEF LoaderUpdatePool, TypeOK, Status
        <3> QED BY <3>1, <3>2, Zenon
    <2>2. TypeOK'
        BY <1>7, <2>1, Zenon DEF LoaderUpdatePool, TypeOK, workerVars, chainVars, LoaderIdle, TxOrNil
    <2> QED BY <1>7, <2>2, QueuesUnchanged, Zenon
            DEF LoaderUpdatePool, workerVars, LoaderInv, LoaderIdle, FinInv
<1> QED BY <1>1, <1>2, <1>3, <1>4, <1>5, <1>6, <1>7, Zenon

\* The loader adds a transaction to an existing queue, or finds none.
LEMMA LoadTxStep ==
    ASSUME WorkerInv, NEW t \in Txs, LoadTx(t)
    PROVE  WorkerInv'
<1> USE TxAssumption, WorkerAssumption DEF WorkerInv
<1> DEFINE res == addTx(wpool[From[t]], t)
           LoaderType == [pc : {"idle", "read", "create", "done", "drop"}, tx : TxOrNil,
                          nonce : Nat, balance : Nat, replaced : TxOrNil]
<1>1. From[t] \in Addrs /\ wpool[From[t]] \in AddrQueueType /\ QueueOK(From[t], wpool[From[t]])
    BY Zenon DEF TypeOK, QueuesOK
<1>2. CASE UNCHANGED workerVars
    <2>1. loader' \in LoaderType /\ loader'.tx = t
        <3>1. res.replaced \in TxOrNil
            BY <1>1, AddTxQueue, Zenon
        <3> HIDE DEF res
        <3>2. \/ loader' = [LoaderIdle EXCEPT !.pc = "drop", !.tx = t]
              \/ loader' = [LoaderIdle EXCEPT !.pc = "read", !.tx = t]
              \/ loader' = [LoaderIdle EXCEPT !.pc = IF res.dropped THEN "drop" ELSE "done",
                                              !.tx = t, !.replaced = res.replaced]
            BY Zenon DEF LoadTx, res
        <3>3. CASE loader' = [LoaderIdle EXCEPT !.pc = "drop", !.tx = t]
            BY <3>3, Zenon DEF LoaderIdle, TxOrNil
        <3>4. CASE loader' = [LoaderIdle EXCEPT !.pc = "read", !.tx = t]
            BY <3>4, Zenon DEF LoaderIdle, TxOrNil
        <3>5. CASE loader' = [LoaderIdle EXCEPT !.pc = IF res.dropped THEN "drop" ELSE "done",
                                                !.tx = t, !.replaced = res.replaced]
            BY <3>1, <3>5, Zenon DEF LoaderIdle, TxOrNil
        <3> QED BY <3>2, <3>3, <3>4, <3>5, Zenon
    <2>2. loader'.pc \in {"read", "create"} => From[t] \notin found
        <3> HIDE DEF res
        <3>1. \/ loader' = [LoaderIdle EXCEPT !.pc = "drop", !.tx = t]
              \/ From[t] \notin found
              \/ loader' = [LoaderIdle EXCEPT !.pc = IF res.dropped THEN "drop" ELSE "done",
                                              !.tx = t, !.replaced = res.replaced]
            BY Zenon DEF LoadTx, res
        <3>2. CASE loader' = [LoaderIdle EXCEPT !.pc = "drop", !.tx = t]
            BY <3>2, Zenon DEF LoaderIdle
        <3>3. CASE loader' = [LoaderIdle EXCEPT !.pc = IF res.dropped THEN "drop" ELSE "done",
                                                !.tx = t, !.replaced = res.replaced]
            BY <3>3, Zenon DEF LoaderIdle
        <3> QED BY <3>1, <3>2, <3>3, Zenon
    <2>3. Restoring' = {}
        BY <1>2 DEF LoadTx, Unlocked, NothingToRestore, workerVars, Restoring, Range
    <2>4. LoaderInv'
        BY <1>2, <2>1, <2>2, <2>3, Zenon DEF LoaderInv, workerVars
    <2>5. TypeOK'
        BY <1>2, <2>1, Zenon DEF LoadTx, TypeOK, workerVars, poolVars, chainVars
    <2> QED BY <1>2, <2>4, <2>5, QueuesUnchanged, Zenon DEF LoadTx, workerVars, FinInv
<1>3. CASE /\ AddToQueue(wpool[From[t]], t)
           /\ loader' = [LoaderIdle EXCEPT !.pc = IF res.dropped THEN "drop" ELSE "done",
                                           !.tx = t, !.replaced = res.replaced]
           /\ UNCHANGED <<pendingToStore, reorgedTxs, wipTx, restore>>
    <2>1. /\ res.queue \in AddrQueueType /\ res.newReady \in TxOrNil /\ res.prevReady \in TxOrNil
          /\ res.replaced \in TxOrNil /\ QueueOK(From[t], res.queue)
          /\ ReadyMoves(wpool[From[t]], res.queue, res.prevReady, res.newReady)
        BY <1>1, AddTxQueue, Zenon
    <2>2. SetQueue(From[t], res.queue) /\ Relist(From[t], res.prevReady, res.newReady)
        BY <1>3, Zenon DEF AddToQueue
    <2> HIDE DEF res
    <2>3. /\ wpool' \in [Addrs -> AddrQueueType]
          /\ txSortedList' \subseteq Txs /\ readyTxCounter' \subseteq Addrs
          /\ QueuesOK' /\ ReadyTxsListed'
        BY <1>1, <2>1, <2>2, RelistOne, Zenon DEF TypeOK
    <2>4. found' = found \cup {From[t]} /\ found' \subseteq Addrs
        BY <1>1, <1>3, Zenon DEF AddToQueue, TypeOK
    <2>5. loader' \in LoaderType /\ loader'.tx = t /\ loader'.pc \in {"drop", "done"}
        BY <1>3, <2>1, Zenon DEF LoaderIdle, TxOrNil
    <2>6. TypeOK'
        BY <1>3, <2>3, <2>4, <2>5, Zenon DEF LoadTx, TypeOK, poolVars, chainVars
    <2>7. AbsentEmpty'
        BY <1>1, <2>2, <2>4, Zenon DEF AbsentEmpty, SetQueue, TypeOK
    <2>8. PendingFound' /\ LoaderInv' /\ FinInv'
        BY <1>3, <2>4, <2>5, Zenon DEF LoadTx, PendingFound, LoaderInv, FinInv
    <2> QED BY <2>3, <2>6, <2>7, <2>8, Zenon
<1> QED BY <1>2, <1>3, Zenon DEF LoadTx

\* The loader creates the queue it looked up before: there is still none.
LEMMA LoaderCreateQueueStep ==
    ASSUME WorkerInv, LoaderCreateQueue
    PROVE  WorkerInv'
<1> USE TxAssumption, WorkerAssumption DEF WorkerInv
<1> DEFINE t == loader.tx
           q == newAddrQueue(loader.nonce, loader.balance)
           res == addTx(q, t)
           LoaderType == [pc : {"idle", "read", "create", "done", "drop"}, tx : TxOrNil,
                          nonce : Nat, balance : Nat, replaced : TxOrNil]
<1>1. t \in Txs /\ From[t] \in Addrs /\ From[t] \notin found
    BY Zenon DEF LoaderCreateQueue, LoaderInv
<1>2. loader.nonce \in Nat /\ loader.balance \in Nat
    BY Zenon DEF TypeOK
<1>3. q \in AddrQueueType /\ QueueOK(From[t], q) /\ q.readyTx = NoTx
    BY <1>1, <1>2, NewQueue, Zenon
<1>4. wpool[From[t]].readyTx = NoTx
    BY <1>1 DEF AbsentEmpty, NoQueue, newAddrQueue
<1> HIDE DEF q
<1>5. /\ res.queue \in AddrQueueType /\ res.newReady \in TxOrNil /\ res.prevReady \in TxOrNil
      /\ res.replaced \in TxOrNil /\ QueueOK(From[t], res.queue)
      /\ ReadyMoves(q, res.queue, res.prevReady, res.newReady)
    BY <1>1, <1>3, AddTxQueue, Zenon
<1>6. /\ SetQueue(From[t], res.queue) /\ Relist(From[t], res.prevReady, res.newReady)
      /\ found' = found \cup {From[t]}
    BY Zenon DEF LoaderCreateQueue, AddToQueue, q
<1>7. loader' = [LoaderIdle EXCEPT !.pc = IF res.dropped THEN "drop" ELSE "done",
                                   !.tx = t, !.replaced = res.replaced]
    BY Zenon DEF LoaderCreateQueue, q
<1> HIDE DEF res
<1>8. ReadyMoves(wpool[From[t]], res.queue, res.prevReady, res.newReady)
    BY <1>3, <1>4, <1>5, Zenon DEF ReadyMoves
<1> HIDE DEF t
<1>9. /\ wpool' \in [Addrs -> AddrQueueType]
      /\ txSortedList' \subseteq Txs /\ readyTxCounter' \subseteq Addrs
      /\ QueuesOK' /\ ReadyTxsListed'
    BY <1>1, <1>5, <1>6, <1>8, RelistOne, Zenon DEF TypeOK
<1>10. found' \subseteq Addrs
    BY <1>1, <1>6, Zenon DEF TypeOK
<1>11. loader' \in LoaderType /\ loader'.tx = t /\ loader'.pc \in {"drop", "done"}
    BY <1>1, <1>5, <1>7, Zenon DEF LoaderIdle, TxOrNil
<1>12. TypeOK'
    BY <1>9, <1>10, <1>11, Zenon DEF LoaderCreateQueue, TypeOK, poolVars, chainVars
<1>13. AbsentEmpty'
    BY <1>1, <1>6, Zenon DEF AbsentEmpty, SetQueue, TypeOK
<1>14. PendingFound' /\ LoaderInv' /\ FinInv'
    BY <1>1, <1>6, <1>11, Zenon DEF LoaderCreateQueue, PendingFound, LoaderInv, FinInv
<1> QED BY <1>9, <1>12, <1>13, <1>14, Zenon

\* The expirer takes old transactions out of all the queues at once.
LEMMA ExpireWorkerTxsStep ==
    ASSUME WorkerInv, ExpireWorkerTxs
    PROVE  WorkerInv'
<1> USE TxAssumption, WorkerAssumption DEF WorkerInv
<1> DEFINE Q(a) == ExpireTransactions(wpool[a], old).queue
           X(a) == ExpireTransactions(wpool[a], old).expired
<1>1. \A a \in Addrs : /\ Q(a) \in AddrQueueType /\ QueueOK(a, Q(a)) /\ X(a) \in SUBSET Txs
                       /\ Q(a).readyTx = IF wpool[a].readyTx \in old THEN NoTx ELSE wpool[a].readyTx
    BY ExpireQueue DEF TypeOK, QueuesOK
<1>2. /\ wpool' = [a \in Addrs |-> Q(a)]
      /\ expired' = UNION {X(a) : a \in Addrs}
      /\ txSortedList' = txSortedList \ {wpool[a].readyTx : a \in {b \in Addrs : wpool[b].readyTx \in old}}
      /\ readyTxCounter' = {a \in readyTxCounter : wpool[a].readyTx \notin old}
    BY Zenon DEF ExpireWorkerTxs
<1> HIDE DEF Q, X
<1>3. wpool' \in [Addrs -> AddrQueueType] /\ expired' \subseteq Txs
    BY <1>1, <1>2
<1>4. NoTx \notin old
    BY Zenon DEF TypeOK
<1>5. txSortedList' = ReadyTxs'
    BY <1>1, <1>2, <1>4, Zenon DEF ReadyTxsListed, ReadyTxs
<1>6. \A a \in Addrs : wpool'[a].readyTx # NoTx => a \in readyTxCounter'
    BY <1>1, <1>2, Zenon DEF ReadyTxsListed
<1>7. QueuesOK' /\ ReadyTxsListed'
    <2>1. \A a \in Addrs : wpool'[a] = Q(a)
        BY <1>2, Zenon
    <2>2. \A a \in Addrs : QueueOK(a, wpool'[a])
        BY <1>1, <2>1, Zenon
    <2> QED BY <1>5, <1>6, <2>2, Zenon DEF QueuesOK, QueueOK, ReadyTxsListed
<1>8. txSortedList' \subseteq Txs /\ readyTxCounter' \subseteq Addrs
    BY <1>2, Zenon DEF TypeOK
<1>9. TypeOK'
    BY <1>3, <1>8, Zenon DEF ExpireWorkerTxs, TypeOK, poolVars, chainVars
<1>10. AbsentEmpty'
    <2>1. ExpireTransactions(NoQueue, old).queue = NoQueue
        BY Zenon DEF ExpireTransactions, NoQueue, newAddrQueue
    <2> QED BY <1>2, <2>1, Zenon DEF ExpireWorkerTxs, AbsentEmpty, TypeOK, Q
<1>11. PendingFound' /\ LoaderInv' /\ FinInv'
    BY Zenon DEF ExpireWorkerTxs, PendingFound, LoaderInv, FinInv, Restoring, Range
<1> QED BY <1>7, <1>9, <1>10, <1>11, Zenon

\* The finalizer chooses a transaction.
LEMMA SelectSteps ==
    ASSUME WorkerInv,
           \/ GetReorgedTx
           \/ GetNoTx
           \/ \E tx \in TxOrNil, fits, ooc \in SUBSET txSortedList : GetBestFittingTx(tx, fits, ooc)
    PROVE  WorkerInv'
<1> USE TxAssumption, WorkerAssumption DEF WorkerInv
<1> DEFINE FinType == [pc : {"idle", "ooc", "exec", "oog", "moved"}, tx : TxOrNil, ooc : SUBSET Txs,
                       touched : SUBSET Addrs, balance : Nat]
<1>1. CASE GetReorgedTx
    <2>1. PICK i \in DOMAIN reorgedTxs :
              /\ fin' = [FinIdle EXCEPT !.pc = "exec", !.tx = reorgedTxs[i]]
              /\ reorgedTxs' = SubSeq(reorgedTxs, i + 1, Len(reorgedTxs))
        BY <1>1, Zenon DEF GetReorgedTx
    <2>2. reorgedTxs[i] \in Txs /\ reorgedTxs' \in Seq(Txs)
        <3>1. i \in 1 .. Len(reorgedTxs) /\ Len(reorgedTxs) \in Nat
            BY LenProperties, Zenon DEF TypeOK
        <3>2. \A j \in (i + 1) .. Len(reorgedTxs) : reorgedTxs[j] \in Txs
            BY <3>1, ElementOfSeq DEF TypeOK
        <3>3. i + 1 \in Int /\ Len(reorgedTxs) \in Int
            BY <3>1
        <3>4. SubSeq(reorgedTxs, i + 1, Len(reorgedTxs)) \in Seq(Txs)
            BY <3>2, <3>3, SubSeqProperties, Zenon
        <3>5. reorgedTxs[i] \in Txs
            BY <3>1, ElementOfSeq, Zenon DEF TypeOK
        <3> QED BY <2>1, <3>4, <3>5, Zenon
    <2>3. fin' \in FinType /\ fin'.tx \in Txs
        BY <2>1, <2>2, Zenon DEF FinIdle, TxOrNil
    <2>4. TypeOK'
        BY <1>1, <2>2, <2>3, Zenon DEF GetReorgedTx, TypeOK, poolVars, chainVars, TxOrNil
    <2>5. LoaderInv' /\ FinInv'
        BY <1>1, <2>3, Zenon DEF GetReorgedTx, LoaderInv, FinInv, Restoring
    <2> QED BY <1>1, <2>4, <2>5, QueuesUnchanged, Zenon DEF GetReorgedTx
<1>2. CASE GetNoTx
    <2>1. TypeOK'
        <3>1. wipTx' \in TxOrNil /\ reorgedTxs' \in Seq(Txs)
            BY <1>2, EmptySeq, Zenon DEF GetNoTx, TxOrNil
        <3> QED BY <1>2, <3>1, Zenon DEF GetNoTx, TypeOK, poolVars, chainVars
    <2>2. LoaderInv' /\ FinInv'
        BY <1>2, Zenon DEF GetNoTx, LoaderInv, FinInv, Restoring
    <2> QED BY <1>2, <2>1, <2>2, QueuesUnchanged, Zenon DEF GetNoTx
<1>3. ASSUME NEW tx \in TxOrNil, NEW fits \in SUBSET txSortedList, NEW ooc \in SUBSET txSortedList,
             GetBestFittingTx(tx, fits, ooc)
      PROVE  WorkerInv'
    <2>1. ooc \in SUBSET Txs
        BY Zenon DEF TypeOK
    <2>2. fin' \in FinType /\ (fin'.pc \in {"exec", "oog", "moved"} => fin'.tx \in Txs)
        BY <1>3, <2>1, Zenon DEF GetBestFittingTx, FinIdle, TxOrNil
    <2>3. TypeOK'
        <3>1. wipTx' \in TxOrNil /\ reorgedTxs' \in Seq(Txs)
            BY <1>3, EmptySeq, Zenon DEF GetBestFittingTx
        <3> QED BY <1>3, <2>2, <3>1, Zenon DEF GetBestFittingTx, TypeOK, poolVars, chainVars
    <2>4. LoaderInv' /\ FinInv'
        BY <1>3, <2>2, Zenon DEF GetBestFittingTx, LoaderInv, FinInv, Restoring
    <2> QED BY <1>3, <2>3, <2>4, QueuesUnchanged, Zenon DEF GetBestFittingTx
<1> QED BY <1>1, <1>2, <1>3, Zenon

\* DeleteTx keeps the queues and the sorted list in step.
LEMMA DeleteTxOp ==
    ASSUME WorkerInv, NEW t \in Txs, DeleteTx(t)
    PROVE  /\ wpool' \in [Addrs -> AddrQueueType]
           /\ txSortedList' \subseteq Txs /\ readyTxCounter' \subseteq Addrs /\ wipTx' \in TxOrNil
           /\ QueuesOK' /\ ReadyTxsListed' /\ AbsentEmpty' /\ PendingFound'
           /\ UNCHANGED <<found, pendingToStore, reorgedTxs, restore>>
<1> USE TxAssumption DEF WorkerInv
<1> DEFINE a == From[t]
           q == deleteTx(wpool[a], t)
<1>1. a \in Addrs /\ wpool[a] \in AddrQueueType /\ QueueOK(a, wpool[a])
    BY Zenon DEF TypeOK, QueuesOK
<1>2. q \in AddrQueueType /\ QueueOK(a, q) /\ q.readyTx = IF wpool[a].readyTx = t THEN NoTx ELSE wpool[a].readyTx
    BY <1>1, DeleteTxQueue, Zenon
<1>3. SetQueue(a, q)
    BY Zenon DEF DeleteTx, DeleteFromQueue
<1> DEFINE prev == IF wpool[a].readyTx = t THEN t ELSE NoTx
<1>4. Relist(a, prev, NoTx)
    BY DEF DeleteTx, DeleteFromQueue, Relist, TypeOK
<1>5. ReadyMoves(wpool[a], q, prev, NoTx)
    BY <1>2, Zenon DEF ReadyMoves
<1>6. prev \in TxOrNil /\ NoTx \in TxOrNil
    BY Zenon DEF TxOrNil
<1> HIDE DEF q, prev
<1>7. /\ wpool' \in [Addrs -> AddrQueueType]
      /\ txSortedList' \subseteq Txs /\ readyTxCounter' \subseteq Addrs
      /\ QueuesOK' /\ ReadyTxsListed'
    BY <1>1, <1>2, <1>3, <1>4, <1>5, <1>6, RelistOne, Zenon DEF TypeOK
<1>8. AbsentEmpty'
    <2>1. deleteTx(NoQueue, t) = NoQueue
        BY Zenon DEF deleteTx, NoQueue, newAddrQueue
    <2> QED BY <1>1, <1>3, <2>1, Zenon DEF AbsentEmpty, SetQueue, DeleteTx, TypeOK, q
<1>9. PendingFound' /\ wipTx' \in TxOrNil /\ UNCHANGED <<found, pendingToStore, reorgedTxs, restore>>
    BY Zenon DEF DeleteTx, ResetWipTx, PendingFound, TypeOK, TxOrNil
<1> QED BY <1>7, <1>8, <1>9, Zenon

\* The finalizer gives up a transaction.
LEMMA DiscardSteps ==
    ASSUME WorkerInv, NEW t \in Txs,
           \/ DiscardOOCTx(t) \/ SkipTx(t) \/ InvalidateTx(t)
           \/ \E s \in {"failed", "invalid"} : RejectTx(t, s)
    PROVE  WorkerInv'
<1> USE TxAssumption DEF WorkerInv
<1> DEFINE FinType == [pc : {"idle", "ooc", "exec", "oog", "moved"}, tx : TxOrNil, ooc : SUBSET Txs,
                       touched : SUBSET Addrs, balance : Nat]
<1>1. FinIdle \in FinType /\ FinIdle.pc = "idle"
    BY Zenon DEF FinIdle, TxOrNil
<1>2. CASE SkipTx(t)
    <2>1. TypeOK'
        BY <1>1, <1>2, Zenon DEF SkipTx, TypeOK, workerVars, poolVars, chainVars
    <2>2. LoaderInv' /\ FinInv'
        BY <1>1, <1>2, Zenon DEF SkipTx, workerVars, LoaderInv, FinInv, Restoring
    <2> QED BY <1>2, <2>1, <2>2, QueuesUnchanged, Zenon DEF SkipTx, workerVars
<1>3. ASSUME DeleteTx(t), UNCHANGED <<chainVars, loader, expired, old, budget>>,
             status' \in [Txs -> Status], isWIP' \in [Txs -> BOOLEAN],
             inflight' \subseteq (Txs \X Status),
             fin' \in FinType, FinInv'
      PROVE  WorkerInv'
    <2>1. TypeOK'
        BY <1>3, DeleteTxOp, Zenon DEF TypeOK, chainVars
    <2>2. LoaderInv'
        BY <1>3, DeleteTxOp, Zenon DEF LoaderInv, Restoring
    <2> QED BY <1>3, <2>1, <2>2, DeleteTxOp, Zenon
<1>4. CASE DiscardOOCTx(t)
    <2>1. status' \in [Txs -> Status] /\ isWIP' \in [Txs -> BOOLEAN]
        BY <1>4, SetStatusType, Zenon DEF DiscardOOCTx, TypeOK, Status
    <2>2. fin' \in FinType /\ FinInv'
        BY <1>4, Zenon DEF DiscardOOCTx, TypeOK, FinInv, TxOrNil
    <2> QED BY <1>3, <1>4, <2>1, <2>2, Zenon DEF DiscardOOCTx, TypeOK
<1>5. CASE InvalidateTx(t)
    <2>1. status' \in [Txs -> Status] /\ isWIP' \in [Txs -> BOOLEAN]
        BY <1>5, SetStatusType, Zenon DEF InvalidateTx, TypeOK, Status
    <2> QED BY <1>1, <1>3, <1>5, <2>1, Zenon DEF InvalidateTx, TypeOK, FinInv
<1>6. ASSUME NEW s \in {"failed", "invalid"}, RejectTx(t, s) PROVE WorkerInv'
    <2>1. inflight' \subseteq (Txs \X Status)
        BY <1>6 DEF RejectTx, TypeOK, Status
    <2> QED BY <1>1, <1>3, <1>6, <2>1, Zenon DEF RejectTx, TypeOK, FinInv
<1> QED BY <1>2, <1>4, <1>5, <1>6, Zenon

\* A transaction that cannot be executed: its queue takes the actual nonce and
\* balance.
LEMMA MoveTxToNotReadyStep ==
    ASSUME WorkerInv, NEW t \in Txs, NEW reported \in BOOLEAN, MoveTxToNotReady(t, reported)
    PROVE  WorkerInv'
<1> USE TxAssumption DEF WorkerInv
<1> DEFINE a == From[t]
           q == wpool[a]
           res == IF reported THEN updateCurrentNonceBalance(q, wipState[a].nonce, wipState[a].balance)
                  ELSE updateCurrentNonceBalance(q, q.currentNonce, q.currentBalance)
<1>1. a \in Addrs /\ q \in AddrQueueType /\ QueueOK(a, q)
    BY Zenon DEF TypeOK, QueuesOK
<1>2. /\ q.currentNonce \in Nat /\ q.currentBalance \in Nat
      /\ wipState[a].nonce \in Nat /\ wipState[a].balance \in Nat
    BY <1>1, Zenon DEF TypeOK, AddrQueueType, States, Account
<1>3. /\ res.queue \in AddrQueueType /\ res.newReady \in TxOrNil /\ res.prevReady \in TxOrNil
      /\ res.toDelete \in SUBSET Txs /\ QueueOK(a, res.queue)
      /\ ReadyMoves(q, res.queue, res.prevReady, res.newReady)
    BY <1>1, <1>2, UpdateQueue, Zenon
<1>4. \/ /\ a \in found
         /\ SetQueue(a, res.queue)
         /\ Relist(a, res.prevReady, res.newReady)
         /\ inflight' = inflight \cup (res.toDelete \X {"failed"})
      \/ UNCHANGED <<wpool, txSortedList, readyTxCounter, inflight>>
    BY Zenon DEF MoveTxToNotReady
<1> HIDE DEF res
<1>5. /\ wpool' \in [Addrs -> AddrQueueType]
      /\ txSortedList' \subseteq Txs /\ readyTxCounter' \subseteq Addrs
      /\ QueuesOK' /\ ReadyTxsListed'
    <2>1. CASE SetQueue(a, res.queue) /\ Relist(a, res.prevReady, res.newReady)
        BY <1>1, <1>3, <2>1, RelistOne, Zenon DEF TypeOK
    <2>2. CASE UNCHANGED <<wpool, txSortedList, readyTxCounter, inflight>>
        BY <2>2, SMTT(30) DEF TypeOK, QueuesOK, QueueOK, ReadyTxsListed, ReadyTxs
    <2> QED BY <1>4, <2>1, <2>2, Zenon
<1>6. inflight' \subseteq (Txs \X Status)
    BY <1>3, <1>4, Zenon DEF TypeOK, Status
<1>7. fin' \in [pc : {"idle", "ooc", "exec", "oog", "moved"}, tx : TxOrNil, ooc : SUBSET Txs,
                touched : SUBSET Addrs, balance : Nat]
      /\ FinInv'
    BY Zenon DEF MoveTxToNotReady, FinIdle, FinInv, TxOrNil
<1>8. wipTx' \in TxOrNil /\ UNCHANGED <<found, pendingToStore, reorgedTxs, restore>>
    BY Zenon DEF MoveTxToNotReady, ResetWipTx, TypeOK, TxOrNil
<1>9. TypeOK'
    BY <1>5, <1>6, <1>7, <1>8, Zenon DEF MoveTxToNotReady, TypeOK, chainVars
<1>10. AbsentEmpty'
    BY <1>1, <1>4, <1>8, Zenon DEF AbsentEmpty, SetQueue, TypeOK
<1>11. PendingFound' /\ LoaderInv'
    BY <1>8, Zenon DEF MoveTxToNotReady, PendingFound, LoaderInv, Restoring
<1> QED BY <1>5, <1>7, <1>9, <1>10, <1>11, Zenon

\* An executed transaction becomes pending to store.
LEMMA ExecuteTxStep ==
    ASSUME WorkerInv, NEW t \in Txs, NEW amount \in 0 .. Cost[t], NEW receiver \in Addrs,
           NEW outOfGas \in BOOLEAN, ExecuteTx(t, amount, receiver, outOfGas)
    PROVE  WorkerInv'
<1> USE TxAssumption DEF WorkerInv
<1> DEFINE a == From[t]
           q == deleteTx(wpool[a], t)
           r == IF a \in found THEN addPendingTxToStore(q, t) ELSE wpool[a]
           prev == IF IsReadyTx(t) THEN t ELSE NoTx
           paid  == [wipState EXCEPT ![a] = [nonce |-> @.nonce + 1, balance |-> @.balance - amount]]
           after == IF receiver = a THEN paid ELSE [paid EXCEPT ![receiver] = [nonce |-> @.nonce, balance |-> @.balance + amount]]
<1>1. a \in Addrs /\ wpool[a] \in AddrQueueType /\ QueueOK(a, wpool[a])
    BY Zenon DEF TypeOK, QueuesOK
<1>2. a \notin found => wpool[a].readyTx = NoTx /\ getTransactions(wpool[a]) = {}
    BY <1>1 DEF AbsentEmpty, NoQueue, newAddrQueue, getTransactions
<1>3. /\ r \in AddrQueueType /\ QueueOK(a, r)
      /\ r.readyTx = IF wpool[a].readyTx = t THEN NoTx ELSE wpool[a].readyTx
    BY <1>1, <1>2, DeleteTxQueue, PendingQueue
<1>4. SetQueue(a, r)
    <2>1. IF a \in found THEN SetQueue(a, addPendingTxToStore(q, t)) ELSE UNCHANGED wpool
        BY Zenon DEF ExecuteTx
    <2> QED BY <1>1, <2>1, Zenon DEF SetQueue, TypeOK
<1>5. Relist(a, prev, NoTx)
    BY SMTT(30) DEF ExecuteTx, Relist, TypeOK
<1>6. ReadyMoves(wpool[a], r, prev, NoTx) /\ prev \in TxOrNil /\ NoTx \in TxOrNil
    BY <1>3, Zenon DEF ReadyMoves, IsReadyTx, TxOrNil
<1> HIDE DEF r, prev
<1>7. /\ wpool' \in [Addrs -> AddrQueueType]
      /\ txSortedList' \subseteq Txs /\ readyTxCounter' \subseteq Addrs
      /\ QueuesOK' /\ ReadyTxsListed'
    BY <1>1, <1>3, <1>4, <1>5, <1>6, RelistOne, Zenon DEF TypeOK
<1>8. after \in States
    <2>1. /\ wipState[a].nonce \in Nat /\ wipState[a].balance \in Nat /\ amount \in Nat
          /\ wipState[a].balance - amount \in Nat
        <3>1. wipState[a] \in Account
            BY <1>1, Zenon DEF TypeOK, States
        <3>2. Cost[t] <= wipState[a].balance /\ Cost[t] \in Nat
            BY Zenon DEF ExecuteTx, Executable
        <3> QED BY <3>1, <3>2 DEF Account
    <2>2. paid \in States
        <3>1. [nonce |-> wipState[a].nonce + 1, balance |-> wipState[a].balance - amount] \in Account
            BY <2>1 DEF Account
        <3> QED BY <1>1, <3>1, Zenon DEF TypeOK, States
    <2> HIDE DEF paid
    <2> QED BY <2>1, <2>2 DEF States, Account
<1>9. wipState' = after /\ processed' = Append(processed, [tx |-> t, state |-> after])
    BY Zenon DEF ExecuteTx
<1> HIDE DEF after
<1>10. wipState' \in States /\ processed' \in Seq([tx : Txs, state : States])
    BY <1>8, <1>9 DEF TypeOK
<1>11. pendingToStore' \in Seq(Txs) /\ PendingFound'
    <2>1. pendingToStore' = IF t \in getTransactions(wpool[a]) THEN Append(pendingToStore, t) ELSE pendingToStore
        BY Zenon DEF ExecuteTx
    <2>2. found' = found
        BY Zenon DEF ExecuteTx
    <2>3. CASE t \in getTransactions(wpool[a])
        <3>1. a \in found /\ pendingToStore' = Append(pendingToStore, t)
            BY <1>2, <2>1, <2>3, Zenon
        <3>2. /\ Append(pendingToStore, t) \in Seq(Txs)
              /\ Len(Append(pendingToStore, t)) = Len(pendingToStore) + 1
              /\ \A i \in 1 .. Len(pendingToStore) : Append(pendingToStore, t)[i] = pendingToStore[i]
              /\ Append(pendingToStore, t)[Len(pendingToStore) + 1] = t
            BY AppendProperties DEF TypeOK
        <3>3. \A i \in DOMAIN pendingToStore' : From[pendingToStore'[i]] \in found
            <4>1. /\ DOMAIN pendingToStore' = 1 .. (Len(pendingToStore) + 1)
                  /\ DOMAIN pendingToStore = 1 .. Len(pendingToStore) /\ Len(pendingToStore) \in Nat
                BY <3>1, <3>2, LenProperties, Zenon DEF TypeOK
            <4> QED BY <3>1, <3>2, <4>1 DEF PendingFound
        <3> QED BY <2>2, <3>1, <3>2, <3>3, Zenon DEF PendingFound
    <2>4. CASE t \notin getTransactions(wpool[a])
        BY <2>1, <2>2, <2>4, Zenon DEF PendingFound, TypeOK
    <2> QED BY <2>3, <2>4, Zenon
<1>12. fin' \in [pc : {"idle", "ooc", "exec", "oog", "moved"}, tx : TxOrNil, ooc : SUBSET Txs,
                 touched : SUBSET Addrs, balance : Nat]
       /\ FinInv'
    <2>1. wipState'[a].balance \in Nat
        BY <1>1, <1>10, Zenon DEF States, Account
    <2>2. fin' = [fin EXCEPT !.pc = IF outOfGas THEN "oog" ELSE "moved", !.touched = {a, receiver},
                             !.balance = wipState'[a].balance]
          /\ fin.tx = t
        BY Zenon DEF ExecuteTx, Executing
    <2> QED BY <1>1, <2>1, <2>2, Zenon DEF TypeOK, FinInv
<1>13. TypeOK'
    BY <1>7, <1>10, <1>11, <1>12, Zenon DEF ExecuteTx, TypeOK, poolVars
<1>14. AbsentEmpty' /\ LoaderInv'
    BY <1>1, <1>4, Zenon DEF ExecuteTx, AbsentEmpty, LoaderInv, Restoring, SetQueue, TypeOK, r
<1> QED BY <1>7, <1>11, <1>12, <1>13, <1>14, Zenon

\* After an out of gas error the balance is read again.
LEMMA ReadOOGBalanceStep ==
    ASSUME WorkerInv, ReadOOGBalance
    PROVE  WorkerInv'
<1> USE TxAssumption DEF WorkerInv
<1>1. fin.tx \in Txs /\ From[fin.tx] \in Addrs
    BY Zenon DEF ReadOOGBalance, FinInv
<1>2. dbState[From[fin.tx]].balance \in Nat /\ wpool[From[fin.tx]].currentBalance \in Nat
    BY <1>1, Zenon DEF TypeOK, States, Account, AddrQueueType
<1>3. fin' \in [pc : {"idle", "ooc", "exec", "oog", "moved"}, tx : TxOrNil, ooc : SUBSET Txs,
                touched : SUBSET Addrs, balance : Nat]
      /\ fin'.tx = fin.tx
    BY <1>2, Zenon DEF ReadOOGBalance, TypeOK
<1>4. TypeOK'
    BY <1>3, Zenon DEF ReadOOGBalance, TypeOK, workerVars, poolVars, chainVars
<1>5. LoaderInv' /\ FinInv'
    BY <1>1, <1>3, Zenon DEF ReadOOGBalance, workerVars, LoaderInv, FinInv, Restoring
<1> QED BY <1>4, <1>5, QueuesUnchanged, Zenon DEF ReadOOGBalance, workerVars

\* The queues of the sender and of the other touched addresses are updated.
LEMMA UpdateAfterStep ==
    ASSUME WorkerInv, UpdateAfterSingleSuccessfulTxExecution
    PROVE  WorkerInv'
<1> USE TxAssumption DEF WorkerInv
<1> DEFINE a == From[fin.tx]
           U(b) == IF b = a
                   THEN updateCurrentNonceBalance(wpool[b], wipState[b].nonce, fin.balance)
                   ELSE updateCurrentNonceBalance(wpool[b], wpool[b].currentNonce, wipState[b].balance)
           hit == fin.touched \cap found
           prev == {U(b).prevReady : b \in hit}
           new == {U(b).newReady : b \in hit} \ {NoTx}
<1>1. fin.tx \in Txs /\ a \in Addrs /\ fin.balance \in Nat /\ hit \subseteq Addrs
    BY Zenon DEF UpdateAfterSingleSuccessfulTxExecution, FinInv, TypeOK
<1>2. \A b \in Addrs : /\ wpool[b] \in AddrQueueType /\ QueueOK(b, wpool[b])
                       /\ wpool[b].currentNonce \in Nat
                       /\ wipState[b].nonce \in Nat /\ wipState[b].balance \in Nat
    BY Zenon DEF TypeOK, QueuesOK, AddrQueueType, States, Account
<1>3. ASSUME NEW b \in Addrs
      PROVE  /\ U(b).queue \in AddrQueueType /\ QueueOK(b, U(b).queue)
             /\ U(b).newReady \in TxOrNil /\ U(b).prevReady \in TxOrNil /\ U(b).toDelete \in SUBSET Txs
             /\ ReadyMoves(wpool[b], U(b).queue, U(b).prevReady, U(b).newReady)
             /\ U(b).queue.readyTx = U(b).newReady
    <2>0. /\ wpool[b] \in AddrQueueType /\ QueueOK(b, wpool[b]) /\ wpool[b].currentNonce \in Nat
          /\ wipState[b].nonce \in Nat /\ wipState[b].balance \in Nat
        BY <1>2, Zenon
    <2>1. CASE b = a
        <3>1. PICK q \in AddrQueueType, n \in Nat, m \in Nat :
                 q = wpool[b] /\ n = wipState[b].nonce /\ m = fin.balance
            BY <1>1, <2>0, Zenon
        <3>2. U(b) = updateCurrentNonceBalance(q, n, m) /\ QueueOK(b, q)
            BY <2>0, <2>1, <3>1, Zenon
        <3> HIDE DEF U
        <3>3. /\ U(b).queue \in AddrQueueType /\ QueueOK(b, U(b).queue)
              /\ U(b).newReady \in TxOrNil /\ U(b).prevReady \in TxOrNil
              /\ U(b).toDelete \in SUBSET Txs
              /\ ReadyMoves(q, U(b).queue, U(b).prevReady, U(b).newReady)
              /\ U(b).queue.readyTx = U(b).newReady
            BY <3>2, UpdateQueue
        <3> QED BY <3>1, <3>3, Zenon
    <2>2. CASE b # a
        <3>1. PICK q \in AddrQueueType, n \in Nat, m \in Nat :
                 q = wpool[b] /\ n = wpool[b].currentNonce /\ m = wipState[b].balance
            BY <2>0, Zenon
        <3>2. U(b) = updateCurrentNonceBalance(q, n, m) /\ QueueOK(b, q)
            BY <2>0, <2>2, <3>1, Zenon
        <3> HIDE DEF U
        <3>3. /\ U(b).queue \in AddrQueueType /\ QueueOK(b, U(b).queue)
              /\ U(b).newReady \in TxOrNil /\ U(b).prevReady \in TxOrNil
              /\ U(b).toDelete \in SUBSET Txs
              /\ ReadyMoves(q, U(b).queue, U(b).prevReady, U(b).newReady)
              /\ U(b).queue.readyTx = U(b).newReady
            BY <3>2, UpdateQueue
        <3> QED BY <3>1, <3>3, Zenon
    <2> QED BY <2>1, <2>2, Zenon
<1>4. /\ wpool' = [b \in Addrs |-> IF b \in hit THEN U(b).queue ELSE wpool[b]]
      /\ txSortedList' = (txSortedList \ prev) \cup new
      /\ readyTxCounter' = (readyTxCounter \ {b \in hit : U(b).prevReady # NoTx})
                           \cup {b \in hit : U(b).newReady # NoTx}
      /\ SetStatus(UNION {U(b).toDelete : b \in hit}, "failed")
    BY Zenon DEF UpdateAfterSingleSuccessfulTxExecution
<1> HIDE DEF U, hit
<1>5. wpool' \in [Addrs -> AddrQueueType]
    BY <1>2, <1>3, <1>4, Zenon
<1>6. QueuesOK'
    <2>1. \A b \in Addrs : QueueOK(b, wpool'[b])
        BY <1>2, <1>3, <1>4, Zenon
    <2> QED BY <2>1, Zenon DEF QueuesOK, QueueOK
<1>7. \A b \in Addrs : /\ wpool[b].readyTx \in TxOrNil /\ wpool'[b].readyTx \in TxOrNil
                       /\ wpool[b].readyTx # NoTx => From[wpool[b].readyTx] = b
                       /\ wpool'[b].readyTx # NoTx => From[wpool'[b].readyTx] = b
    BY <1>2, <1>5, <1>6, Zenon DEF AddrQueueType, QueuesOK, QueueOK
<1>8. \A b \in Addrs : IF b \in hit
                       THEN /\ wpool'[b].readyTx = U(b).newReady
                            /\ \/ U(b).prevReady = wpool[b].readyTx
                               \/ U(b).prevReady = NoTx /\ wpool'[b].readyTx = wpool[b].readyTx
                       ELSE wpool'[b].readyTx = wpool[b].readyTx
    BY <1>3, <1>4, Zenon DEF ReadyMoves
<1>9. txSortedList' = ReadyTxs'
    <2>1. ASSUME NEW x \in ReadyTxs' PROVE x \in txSortedList'
        <3>1. PICK b \in Addrs : x = wpool'[b].readyTx /\ x # NoTx
            BY <2>1, Zenon DEF ReadyTxs
        <3>2. CASE b \in hit
            BY <1>4, <1>8, <3>1, <3>2, Zenon
        <3>3. CASE b \notin hit
            <4>1. x \in txSortedList /\ From[x] = b
                BY <1>7, <1>8, <3>1, <3>3, Zenon DEF ReadyTxsListed, ReadyTxs
            <4>2. x \notin prev
                BY <1>1, <1>7, <1>8, <3>1, <3>3, <4>1
            <4> QED BY <1>4, <4>1, <4>2, Zenon
        <3> QED BY <3>2, <3>3, Zenon
    <2>2. ASSUME NEW x \in txSortedList' PROVE x \in ReadyTxs'
        <3>1. CASE x \in new
            BY <1>1, <1>8, <3>1 DEF ReadyTxs
        <3>2. CASE x \notin new
            <4>1. x \in txSortedList /\ x \notin prev
                BY <1>4, <2>2, <3>2, Zenon
            <4>2. PICK b \in Addrs : x = wpool[b].readyTx /\ x # NoTx
                BY <4>1, Zenon DEF ReadyTxsListed, ReadyTxs
            <4>3. wpool'[b].readyTx = x
                BY <1>8, <4>1, <4>2, Zenon
            <4> QED BY <4>2, <4>3, Zenon DEF ReadyTxs
        <3> QED BY <3>1, <3>2, Zenon
    <2> QED BY <2>1, <2>2, Zenon
<1>10. txSortedList' \subseteq Txs
    BY <1>7, <1>9, Zenon DEF ReadyTxs, TxOrNil
<1>11. readyTxCounter' \subseteq Addrs /\ \A b \in Addrs : wpool'[b].readyTx # NoTx => b \in readyTxCounter'
    BY <1>1, <1>4, <1>8, Zenon DEF ReadyTxsListed, TypeOK
<1>12. status' \in [Txs -> Status] /\ isWIP' \in [Txs -> BOOLEAN]
    BY <1>4, SetStatusType, Zenon DEF TypeOK, Status
<1>13. fin' \in [pc : {"idle", "ooc", "exec", "oog", "moved"}, tx : TxOrNil, ooc : SUBSET Txs,
                 touched : SUBSET Addrs, balance : Nat]
       /\ FinInv'
    BY Zenon DEF UpdateAfterSingleSuccessfulTxExecution, FinIdle, FinInv, TxOrNil
<1>14. TypeOK'
    BY <1>5, <1>10, <1>11, <1>12, <1>13, Zenon DEF UpdateAfterSingleSuccessfulTxExecution, TypeOK, chainVars
<1>15. AbsentEmpty' /\ PendingFound' /\ LoaderInv'
    BY <1>4, Zenon DEF UpdateAfterSingleSuccessfulTxExecution, AbsentEmpty, PendingFound, LoaderInv, Restoring, hit
<1> QED BY <1>6, <1>9, <1>11, <1>13, <1>14, <1>15, Zenon DEF ReadyTxsListed

\* Removing a transaction from a sequence leaves a sequence of the others.
LEMMA RemoveTxSeq ==
    ASSUME NEW s \in Seq(Txs), NEW t \in Txs
    PROVE  /\ RemoveTx(s, t) \in Seq(Txs)
           /\ \A i \in DOMAIN RemoveTx(s, t) : \E j \in DOMAIN s : RemoveTx(s, t)[i] = s[j]
<1>1. Len(s) \in Nat /\ DOMAIN s = 1 .. Len(s) /\ \A j \in 1 .. Len(s) : s[j] \in Txs
    BY LenProperties, ElementOfSeq, Zenon
<1>2. CASE t \notin Range(s)
    BY <1>2, Zenon DEF RemoveTx
<1>3. CASE t \in Range(s)
    <2> DEFINE k == CHOOSE j \in DOMAIN s : s[j] = t
               r == [j \in 1 .. (Len(s) - 1) |-> IF j < k THEN s[j] ELSE s[j + 1]]
    <2>1. k \in 1 .. Len(s)
        BY <1>1, <1>3, Zenon DEF Range
    <2>2. RemoveTx(s, t) = r
        BY <1>3, Zenon DEF RemoveTx
    <2> HIDE DEF k
    <2>3. Len(s) - 1 \in Nat
        BY <1>1, <2>1
    <2>4. \A j \in 1 .. (Len(s) - 1) : r[j] \in Txs /\ \E i \in DOMAIN s : r[j] = s[i]
        BY <1>1, <2>1
    <2>5. DOMAIN r = 1 .. (Len(s) - 1) /\ r \in [1 .. (Len(s) - 1) -> Txs]
        BY <2>4, Zenon
    <2>6. r \in Seq(Txs)
        BY <2>3, <2>5, SeqDef, Zenon
    <2> HIDE DEF r
    <2> QED BY <2>2, <2>4, <2>5, <2>6, Zenon
<1> QED BY <1>2, <1>3, Zenon

\* A function on 1 .. k is a sequence.
LEMMA FunctionIsSeq ==
    ASSUME NEW S, NEW k \in Nat, NEW s \in [1 .. k -> S]
    PROVE  s \in Seq(S)
BY SeqDef

\* The commit of an L2 block touches the chain and the storer only.
LEMMA CommitL2BlockStep ==
    ASSUME WorkerInv, NEW n \in 1 .. Len(processed), CommitL2Block(n)
    PROVE  WorkerInv'
<1> USE DEF WorkerInv
<1> DEFINE R == [tx : Txs, state : States]
           O == [op : {"select", "delete"}, tx : Txs]
<1>0. processed \in Seq(R)
    BY Zenon DEF TypeOK
<1>1. /\ processed \in Seq(R) /\ Len(processed) \in Nat /\ n \in Nat /\ n >= 1 /\ n <= Len(processed)
      /\ \A i \in 1 .. Len(processed) : processed[i] \in R
    <2> HIDE DEF R
    <2>1. Len(processed) \in Nat
        BY <1>0, LenProperties, Zenon
    <2>2. \A i \in 1 .. Len(processed) : processed[i] \in R
        BY <1>0, ElementOfSeq, Zenon
    <2> QED BY <1>0, <2>1, <2>2
<1>2. dbState' \in States
    BY <1>1, Zenon DEF CommitL2Block
<1>3. \A i \in 1 .. n : processed[i].tx \in Txs
    BY <1>1
<1>4. storing' \in [1 .. (2 * n) -> O]
    <2>1. ASSUME NEW i \in 1 .. (2 * n)
          PROVE  (IF i <= n THEN [op |-> "select", tx |-> processed[i].tx]
                  ELSE [op |-> "delete", tx |-> processed[i - n].tx]) \in O
        <3>1. CASE i <= n
            BY <1>1, <1>3, <3>1
        <3>2. CASE ~ (i <= n)
            <4>1. i - n \in 1 .. n
                BY <1>1, <3>2
            <4> QED BY <1>3, <3>2, <4>1, Zenon
        <3> QED BY <3>1, <3>2, Zenon
    <2> QED BY <2>1, Zenon DEF CommitL2Block
<1>5. storing' \in Seq(O)
    <2> HIDE DEF O
    <2>1. 2 * n \in Nat
        BY <1>1
    <2> QED BY <1>4, <2>1, FunctionIsSeq, Zenon
<1>6. processed' \in Seq(R)
    <2>1. processed' = SubSeq(processed, n + 1, Len(processed))
        BY Zenon DEF CommitL2Block
    <2>2. n + 1 \in 1 .. (Len(processed) + 1) /\ Len(processed) \in 0 .. Len(processed)
        BY <1>1
    <2> QED BY <1>1, <2>1, <2>2, SubSeqProperties
<1>7. stored' \subseteq Txs
    BY <1>3 DEF CommitL2Block, TypeOK
<1>8. TypeOK'
    BY <1>2, <1>5, <1>6, <1>7, Zenon DEF CommitL2Block, TypeOK, workerVars, poolVars
<1> QED BY <1>8, QueuesUnchanged, Zenon DEF CommitL2Block, workerVars, LoaderInv, FinInv, Restoring

\* The pool update of a stored transaction.
LEMMA StoreSelectStep ==
    ASSUME WorkerInv, StoreSelect
    PROVE  WorkerInv'
<1> USE DEF WorkerInv
<1>1. storing' \in Seq([op : {"select", "delete"}, tx : Txs])
    BY HeadTailProperties, Zenon DEF StoreSelect, TypeOK
<1>2. status' \in [Txs -> Status] /\ isWIP' \in [Txs -> BOOLEAN]
    BY SetStatusType, Zenon DEF StoreSelect, TypeOK, Status
<1>3. TypeOK'
    BY <1>1, <1>2, Zenon DEF StoreSelect, TypeOK, workerVars
<1> QED BY <1>3, QueuesUnchanged, Zenon DEF StoreSelect, workerVars, LoaderInv, FinInv, Restoring

\* A stored transaction is forgotten by the worker.
LEMMA StoreDeleteStep ==
    ASSUME WorkerInv, StoreDelete
    PROVE  WorkerInv'
<1> USE TxAssumption DEF WorkerInv
<1>1. /\ storing' \in Seq([op : {"select", "delete"}, tx : Txs])
      /\ Head(storing) \in [op : {"select", "delete"}, tx : Txs]
    BY HeadTailProperties, Zenon DEF StoreDelete, TypeOK
<1>2. PICK t \in Txs : t = Head(storing).tx
    BY <1>1, Zenon
<1>3. From[t] \in Addrs /\ wpool[From[t]] \in AddrQueueType /\ QueueOK(From[t], wpool[From[t]])
    BY Zenon DEF TypeOK, QueuesOK
<1>4. /\ pendingToStore' \in Seq(Txs)
      /\ \A i \in DOMAIN pendingToStore' : \E j \in DOMAIN pendingToStore : pendingToStore'[i] = pendingToStore[j]
    <2>1. pendingToStore \in Seq(Txs) /\ pendingToStore' = RemoveTx(pendingToStore, t)
        BY <1>2, Zenon DEF StoreDelete, TypeOK
    <2> QED BY <2>1, RemoveTxSeq
<1>5. PendingFound'
    BY <1>4, Zenon DEF StoreDelete, PendingFound
<1> DEFINE q == deletePendingTxToStore(wpool[From[t]], t)
<1>6. /\ q \in AddrQueueType /\ QueueOK(From[t], q) /\ q.readyTx = wpool[From[t]].readyTx
    BY <1>3, Zenon DEF deletePendingTxToStore, AddrQueueType, QueueOK
<1>7. IF From[t] \in found THEN wpool' = [wpool EXCEPT ![From[t]] = q] ELSE wpool' = wpool
    BY <1>2, Zenon DEF StoreDelete, SetQueue
<1> HIDE DEF q
<1>8. /\ wpool' \in [Addrs -> AddrQueueType]
      /\ \A b \in Addrs : wpool'[b].readyTx = wpool[b].readyTx /\ QueueOK(b, wpool'[b])
      /\ \A b \in Addrs \ found : wpool'[b] = wpool[b]
    <2>1. CASE From[t] \in found
        <3>1. wpool' = [wpool EXCEPT ![From[t]] = q]
            BY <1>7, <2>1, Zenon
        <3> QED BY <1>3, <1>6, <2>1, <3>1, Zenon DEF TypeOK, QueuesOK
    <2>2. CASE From[t] \notin found
        BY <1>7, <2>2, Zenon DEF TypeOK, QueuesOK
    <2> QED BY <2>1, <2>2, Zenon
<1>9. QueuesOK'
    BY <1>8, Zenon DEF QueuesOK, QueueOK
<1>10. ReadyTxsListed'
    BY <1>8, Zenon DEF StoreDelete, ReadyTxsListed, ReadyTxs
<1>11. AbsentEmpty'
    BY <1>8, Zenon DEF StoreDelete, AbsentEmpty
<1>12. TypeOK'
    BY <1>1, <1>4, <1>8, Zenon DEF StoreDelete, TypeOK, poolVars
<1>13. LoaderInv' /\ FinInv'
    BY Zenon DEF StoreDelete, LoaderInv, FinInv, Restoring
<1> QED BY <1>5, <1>9, <1>10, <1>11, <1>12, <1>13, Zenon

\* The start of a restore: the queues of the senders of unstored transactions
\* disappear, and so do their ready transactions from the list.
LEMMA StartRestoreStep ==
    ASSUME WorkerInv, RestoreTxsPendingToStore
    PROVE  WorkerInv'
<1> USE TxAssumption DEF WorkerInv
<1> DEFINE gone == RestoredAddrs
           ready == {wpool[a].readyTx : a \in gone} \ {NoTx}
           notReady == UNION {wpool[a].notReadyTxs : a \in gone}
<1>1. /\ txSortedList' = txSortedList \ ready
      /\ wpool' = [a \in Addrs |-> IF a \in gone THEN NoQueue ELSE wpool[a]]
      /\ found' = found \ gone
      /\ restore' = [txs |-> pendingToStore, ready |-> ready, notReady |-> notReady]
      /\ reorgedTxs' = pendingToStore /\ pendingToStore' = <<>> /\ wipTx' = NoTx
      /\ wipState' = dbState /\ processed' = <<>>
      /\ budget' = [budget EXCEPT !.reorgs = budget.reorgs - 1] /\ budget.reorgs > 0
      /\ UNCHANGED <<readyTxCounter, poolVars, dbState, storing, stored, loader, expired, fin, old>>
    BY Zenon DEF RestoreTxsPendingToStore, StartRestore, CanRestore
<1>2. gone \subseteq found /\ found \subseteq Addrs
    BY Zenon DEF RestoredAddrs, TypeOK
<1> HIDE DEF gone
<1>3. \A a \in Addrs : /\ wpool[a] \in AddrQueueType /\ QueueOK(a, wpool[a])
                       /\ wpool[a].readyTx \in TxOrNil /\ wpool[a].notReadyTxs \subseteq Txs
    BY Zenon DEF TypeOK, QueuesOK, AddrQueueType
<1>4. NoQueue \in AddrQueueType /\ NoQueue.readyTx = NoTx /\ \A a \in Addrs : QueueOK(a, NoQueue)
    BY NewQueue, Zenon DEF NoQueue
<1>5. /\ wpool' \in [Addrs -> AddrQueueType]
      /\ \A a \in Addrs : wpool'[a] = IF a \in gone THEN NoQueue ELSE wpool[a]
    BY <1>1, <1>3, <1>4, Zenon
<1>6. QueuesOK'
    <2>1. \A a \in Addrs : QueueOK(a, wpool'[a])
        BY <1>3, <1>4, <1>5, Zenon
    <2> QED BY <2>1, Zenon DEF QueuesOK, QueueOK
<1>7. ReadyTxsListed'
    <2>1. \A a \in Addrs : wpool[a].readyTx # NoTx => From[wpool[a].readyTx] = a
        BY <1>3, Zenon DEF QueueOK
    <2>2. txSortedList' = ReadyTxs'
        BY <1>1, <1>2, <1>4, <1>5, <2>1 DEF ReadyTxsListed, ReadyTxs
    <2> QED BY <1>1, <1>4, <1>5, <2>2, Zenon DEF ReadyTxsListed
<1>8. AbsentEmpty' /\ PendingFound'
    BY <1>1, <1>5 DEF AbsentEmpty, PendingFound
<1>9. ready \subseteq Txs /\ notReady \subseteq Txs
    BY <1>2, <1>3, Zenon DEF TxOrNil
<1>10. \A t \in ready \cup notReady : From[t] \in found
    BY <1>2, <1>3 DEF QueueOK
<1> HIDE DEF ready, notReady
<1>11. restore' \in [txs : Seq(Txs), ready : SUBSET Txs, notReady : SUBSET Txs]
       /\ Restoring' = Range(pendingToStore) \cup ready \cup notReady
    BY <1>1, <1>9, Zenon DEF TypeOK, Restoring
<1>12. LoaderInv' /\ FinInv'
    <2>1. \A t \in Restoring' : From[t] \in found
        BY <1>10, <1>11, Zenon DEF PendingFound, Range
    <2>2. found' \subseteq found
        BY <1>1, Zenon
    <2> QED BY <1>1, <2>1, <2>2, Zenon DEF LoaderInv, FinInv
<1>13. budget' \in [reorgs : Nat, crashes : Nat, resubmits : Nat]
    <2>1. budget.reorgs \in Nat
        BY Zenon DEF TypeOK
    <2>2. budget.reorgs - 1 \in Nat
        BY <1>1, <2>1
    <2> QED BY <1>1, <2>2, Zenon DEF TypeOK
<1>14. found' \subseteq Addrs /\ txSortedList' \subseteq Txs
    BY <1>1, <1>2, Zenon DEF TypeOK
<1>15. TypeOK'
    <2>1. /\ pendingToStore' \in Seq(Txs) /\ reorgedTxs' \in Seq(Txs) /\ wipTx' \in TxOrNil
          /\ wipState' \in States /\ processed' \in Seq([tx : Txs, state : States])
        BY <1>1 DEF TypeOK, TxOrNil
    <2>2. /\ readyTxCounter' \subseteq Addrs /\ status' \in [Txs -> Status]
          /\ isWIP' \in [Txs -> BOOLEAN] /\ inflight' \subseteq (Txs \X Status)
        BY <1>1, Zenon DEF TypeOK, poolVars
    <2> QED BY <1>1, <1>5, <1>11, <1>13, <1>14, <2>1, <2>2, Zenon DEF TypeOK
<1> QED BY <1>6, <1>7, <1>8, <1>12, <1>15, Zenon

\* One transaction is added again, to its queue or to a new one.
LEMMA RestoreTxStep ==
    ASSUME WorkerInv, NEW t \in Txs, RestoreTx(t)
    PROVE  WorkerInv'
<1> USE TxAssumption DEF WorkerInv
<1> DEFINE a == From[t]
           q == IF a \in found THEN wpool[a] ELSE newAddrQueue(dbState[a].nonce, dbState[a].balance)
           res == addTx(q, t)
<1>1. /\ restore' \in [txs : Seq(Txs), ready : SUBSET Txs, notReady : SUBSET Txs]
      /\ t \in Restoring /\ Restoring' \subseteq Restoring
    <2>1. restore \in [txs : Seq(Txs), ready : SUBSET Txs, notReady : SUBSET Txs]
        BY Zenon DEF TypeOK
    <2>2. CASE restore.txs # <<>>
        <3>1. t = Head(restore.txs) /\ restore' = [restore EXCEPT !.txs = Tail(restore.txs)]
            BY <2>2, Zenon DEF RestoreTx
        <3>2. PICK s \in Seq(Txs) : s = restore.txs
            BY <2>1, Zenon
        <3>3. /\ Tail(s) \in Seq(Txs) /\ Len(s) \in Nat /\ Len(s) >= 1
              /\ Len(Tail(s)) = Len(s) - 1 /\ DOMAIN s = 1 .. Len(s)
              /\ DOMAIN Tail(s) = 1 .. Len(Tail(s))
              /\ \A i \in 1 .. Len(Tail(s)) : Tail(s)[i] = s[i + 1]
              /\ Head(s) = s[1]
            BY <2>2, <3>2, HeadTailProperties, LenProperties, EmptySeq, SMTT(30)
        <3>4. Head(s) \in Range(s) /\ Range(Tail(s)) \subseteq Range(s)
            <4>1. 1 \in DOMAIN s /\ \A i \in DOMAIN Tail(s) : i + 1 \in DOMAIN s /\ Tail(s)[i] = s[i + 1]
                <5>1. 1 \in DOMAIN s
                    BY <3>3
                <5>2. ASSUME NEW i \in DOMAIN Tail(s)
                      PROVE  i + 1 \in DOMAIN s /\ Tail(s)[i] = s[i + 1]
                    <6>1. i \in 1 .. (Len(s) - 1) /\ i \in 1 .. Len(Tail(s))
                        BY <3>3, Zenon
                    <6>2. i + 1 \in 1 .. Len(s)
                        <7> DEFINE n == Len(s)
                        <7>1. n \in Nat /\ i \in 1 .. (n - 1)
                            BY <3>3, <6>1, Zenon
                        <7> HIDE DEF n
                        <7>2. i + 1 \in 1 .. n
                            BY <7>1
                        <7> QED BY <7>2, Zenon DEF n
                    <6> QED BY <3>3, <6>1, <6>2, Zenon
                <5> QED BY <5>1, <5>2, Zenon
            <4>2. Head(s) \in Range(s)
                BY <3>3, <4>1, Zenon DEF Range
            <4>3. \A i \in DOMAIN Tail(s) : Tail(s)[i] \in Range(s)
                BY <4>1, Zenon DEF Range
            <4> QED BY <4>2, <4>3, Zenon DEF Range
        <3> QED BY <2>1, <3>1, <3>2, <3>3, <3>4, Zenon DEF Restoring
    <2>3. CASE restore.txs = <<>>
        <3>1. /\ t \in restore.ready \cup restore.notReady
              /\ restore' = [restore EXCEPT !.ready = restore.ready \ {t},
                                            !.notReady = restore.notReady \ {t}]
            BY <2>3, Zenon DEF RestoreTx
        <3>2. /\ restore'.txs = restore.txs /\ restore'.ready = restore.ready \ {t}
              /\ restore'.notReady = restore.notReady \ {t}
              /\ restore' \in [txs : Seq(Txs), ready : SUBSET Txs, notReady : SUBSET Txs]
            BY <2>1, <3>1, Zenon
        <3> QED BY <3>1, <3>2, Zenon DEF Restoring
    <2> QED BY <2>2, <2>3, Zenon
<1>2. a \in Addrs /\ wpool[a] \in AddrQueueType /\ QueueOK(a, wpool[a]) /\ dbState[a].nonce \in Nat
      /\ dbState[a].balance \in Nat
    BY Zenon DEF TypeOK, QueuesOK, States, Account
<1>3. q \in AddrQueueType /\ QueueOK(a, q) /\ q.readyTx = wpool[a].readyTx
    <2>1. CASE a \in found
        BY <1>2, <2>1, Zenon
    <2>2. CASE a \notin found
        BY <1>2, <2>2, NewQueue, Zenon DEF AbsentEmpty, NoQueue
    <2> QED BY <2>1, <2>2, Zenon
<1>4. LoaderInv' /\ FinInv'
    <2>1. found' \subseteq found \cup {a} /\ UNCHANGED <<loader, fin>>
        BY Zenon DEF RestoreTx, AddToQueue
    <2> QED BY <1>1, <2>1, Zenon DEF LoaderInv, FinInv
<1>5. CASE AddToQueue(q, t)
    <2>1. /\ SetQueue(a, res.queue) /\ Relist(a, res.prevReady, res.newReady)
          /\ found' = found \cup {a}
        BY <1>5, Zenon DEF AddToQueue
    <2> HIDE DEF q
    <2>2. /\ res.queue \in AddrQueueType /\ res.newReady \in TxOrNil /\ res.prevReady \in TxOrNil
          /\ QueueOK(a, res.queue)
          /\ ReadyMoves(q, res.queue, res.prevReady, res.newReady)
        BY <1>3, AddTxQueue, Zenon
    <2> HIDE DEF res
    <2>3. ReadyMoves(wpool[a], res.queue, res.prevReady, res.newReady)
        BY <1>3, <2>2, Zenon DEF ReadyMoves
    <2> HIDE DEF a
    <2>4. /\ wpool' \in [Addrs -> AddrQueueType]
          /\ txSortedList' \subseteq Txs /\ readyTxCounter' \subseteq Addrs
          /\ QueuesOK' /\ ReadyTxsListed'
        BY <1>2, <2>1, <2>2, <2>3, RelistOne, Zenon DEF TypeOK
    <2>5. TypeOK'
        BY <1>1, <1>2, <2>1, <2>4, Zenon DEF RestoreTx, TypeOK, poolVars, chainVars
    <2>6. AbsentEmpty' /\ PendingFound'
        BY <1>2, <2>1, Zenon DEF RestoreTx, AbsentEmpty, PendingFound, SetQueue, TypeOK
    <2> QED BY <1>4, <2>4, <2>5, <2>6, Zenon
<1>6. CASE UNCHANGED <<wpool, found, txSortedList, readyTxCounter>>
    <2>1. TypeOK'
        BY <1>1, <1>6, Zenon DEF RestoreTx, TypeOK, poolVars, chainVars
    <2> QED BY <1>4, <1>6, <2>1, QueuesUnchanged, Zenon DEF RestoreTx
<1> QED BY <1>5, <1>6, Zenon DEF RestoreTx

\* A restarted node has an empty worker.
LEMMA RestartStep ==
    ASSUME WorkerInv, Restart
    PROVE  WorkerInv'
<1> USE TxAssumption DEF WorkerInv
<1>1. NoQueue \in AddrQueueType /\ NoQueue.readyTx = NoTx /\ \A a \in Addrs : QueueOK(a, NoQueue)
    BY NewQueue, Zenon DEF NoQueue
<1>2. budget' \in [reorgs : Nat, crashes : Nat, resubmits : Nat]
    <2>1. budget.crashes \in Nat /\ budget.crashes > 0
        BY Zenon DEF Restart, TypeOK
    <2>2. budget.crashes - 1 \in Nat
        BY <2>1
    <2>3. budget' = [budget EXCEPT !.crashes = budget.crashes - 1]
        BY Zenon DEF Restart
    <2> QED BY <2>2, <2>3, Zenon DEF TypeOK
<1>3. TypeOK'
    <2>1. /\ wpool' \in [Addrs -> AddrQueueType] /\ isWIP' \in [Txs -> BOOLEAN]
          /\ restore' \in [txs : Seq(Txs), ready : SUBSET Txs, notReady : SUBSET Txs]
        BY <1>1 DEF Restart, NothingToRestore
    <2>2. /\ loader' \in [pc : {"idle", "read", "create", "done", "drop"}, tx : TxOrNil,
                           nonce : Nat, balance : Nat, replaced : TxOrNil]
          /\ fin' \in [pc : {"idle", "ooc", "exec", "oog", "moved"}, tx : TxOrNil, ooc : SUBSET Txs,
                        touched : SUBSET Addrs, balance : Nat]
        BY Zenon DEF Restart, LoaderIdle, FinIdle, TxOrNil
    <2>3. /\ processed' \in Seq([tx : Txs, state : States])
          /\ storing' \in Seq([op : {"select", "delete"}, tx : Txs])
          /\ pendingToStore' \in Seq(Txs) /\ reorgedTxs' \in Seq(Txs) /\ wipTx' \in TxOrNil
        BY DEF Restart, TxOrNil
    <2> QED BY <1>2, <2>1, <2>2, <2>3, Zenon DEF Restart, TypeOK
<1>4. ReadyTxsListed' /\ QueuesOK'
    <2>1. \A a \in Addrs : wpool'[a] = NoQueue
        BY Zenon DEF Restart
    <2>2. \A a \in Addrs : QueueOK(a, wpool'[a])
        BY <1>1, <2>1, Zenon
    <2>3. QueuesOK'
        BY <2>2, Zenon DEF QueuesOK, QueueOK
    <2> QED BY <1>1, <2>1, <2>3, Zenon DEF Restart, ReadyTxsListed, ReadyTxs
<1>5. AbsentEmpty' /\ PendingFound' /\ LoaderInv' /\ FinInv'
    BY DEF Restart, AbsentEmpty, PendingFound, LoaderInv, FinInv, LoaderIdle, FinIdle
<1> QED BY <1>3, <1>4, <1>5, Zenon

\* Every step keeps the invariant.
LEMMA NextInv == WorkerInv /\ [Next]_vars => WorkerInv'
<1> SUFFICES ASSUME WorkerInv, [Next]_vars PROVE WorkerInv'
    BY Zenon
<1>1. CASE UNCHANGED vars
    <2>1. UNCHANGED <<workerVars, poolVars, chainVars, loader, expired, fin, old, budget>>
        BY <1>1, Zenon DEF vars
    <2>2. TypeOK' /\ LoaderInv' /\ FinInv'
        BY <2>1, Zenon DEF WorkerInv, TypeOK, LoaderInv, FinInv, Restoring, workerVars, poolVars, chainVars
    <2> QED BY <2>1, <2>2, QueuesUnchanged, Zenon DEF workerVars
<1>2. CASE \E t \in Txs : AddTx(t) \/ Age(t)
    BY <1>2, PoolSteps, Zenon
<1>3. CASE PoolUpdate
    BY <1>3, PoolSteps, Zenon
<1>4. CASE LoaderStep
    BY <1>4, PoolSteps, LoadTxStep, LoaderCreateQueueStep, Zenon DEF LoaderStep
<1>5. CASE SelectStep
    BY <1>5, SelectSteps, Zenon DEF SelectStep
<1>6. CASE ExecStep
    BY <1>6, DiscardSteps, MoveTxToNotReadyStep, ExecuteTxStep, ReadOOGBalanceStep, UpdateAfterStep, Zenon
       DEF ExecStep
<1>7. CASE ReorgStep
    BY <1>7, StartRestoreStep, RestoreTxStep, Zenon DEF ReorgStep
<1>8. CASE StoreStep
    BY <1>8, CommitL2BlockStep, StoreSelectStep, StoreDeleteStep, Zenon DEF StoreStep
<1>9. CASE ExpireStep
    BY <1>9, PoolSteps, ExpireWorkerTxsStep, Zenon DEF ExpireStep
<1>10. CASE Restart
    BY <1>10, RestartStep, Zenon
<1> QED BY <1>1, <1>2, <1>3, <1>4, <1>5, <1>6, <1>7, <1>8, <1>9, <1>10, Zenon DEF Next

-----------------------------------------------------------------------------
(* Transactions pending to store have left their queue for good: their     *)
(* nonce is below the one the state and, once it is told, the queue are at. *)

Told(t) == ~(fin.pc \in {"oog", "moved"} /\ fin.tx = t)

PendingPast ==
    \A i \in DOMAIN pendingToStore :
        /\ Nonce[pendingToStore[i]] < wipState[From[pendingToStore[i]]].nonce
        /\ Told(pendingToStore[i]) =>
              Nonce[pendingToStore[i]] < wpool[From[pendingToStore[i]]].currentNonce

PendingOnce == \A i, j \in DOMAIN pendingToStore : pendingToStore[i] = pendingToStore[j] => i = j

SenderTouched == fin.pc \in {"oog", "moved"} => From[fin.tx] \in fin.touched

PlaceInv == PendingPast /\ PendingOnce /\ SenderTouched

\* what addTx and the other operations do to the nonce of a queue
LEMMA QueueNonces ==
    ASSUME NEW q \in AddrQueueType, NEW tx \in Txs, NEW S
    PROVE  /\ addTx(q, tx).queue.currentNonce = q.currentNonce
           /\ deleteTx(q, tx).currentNonce = q.currentNonce
           /\ addPendingTxToStore(deleteTx(q, tx), tx).currentNonce = q.currentNonce
           /\ deletePendingTxToStore(q, tx).currentNonce = q.currentNonce
           /\ ExpireTransactions(q, S).queue.currentNonce = q.currentNonce
<1> USE TxAssumption
<1>1. addTx(q, tx).queue.currentNonce = q.currentNonce
    <2>1. /\ addAsReady(q, tx).queue.currentNonce = q.currentNonce
          /\ addAsNotReady(q, tx).queue.currentNonce = q.currentNonce
          /\ Dropped(q).queue.currentNonce = q.currentNonce
        BY Zenon DEF addAsReady, addAsNotReady, Dropped, AddrQueueType
    <2>2. addTx(q, tx) \in {addAsReady(q, tx), addAsNotReady(q, tx), Dropped(q)}
        BY DEF addTx, AddrQueueType
    <2> QED BY <2>1, <2>2, Zenon
<1>2. deleteTx(q, tx).currentNonce = q.currentNonce /\ deleteTx(q, tx) \in AddrQueueType
    BY Zenon DEF deleteTx, AddrQueueType, TxOrNil
<1>3. \A r \in AddrQueueType : addPendingTxToStore(r, tx).currentNonce = r.currentNonce
    BY Zenon DEF addPendingTxToStore, AddrQueueType
<1>4. deletePendingTxToStore(q, tx).currentNonce = q.currentNonce
    BY Zenon DEF deletePendingTxToStore, AddrQueueType
<1>5. ExpireTransactions(q, S).queue.currentNonce = q.currentNonce
    BY Zenon DEF ExpireTransactions, AddrQueueType
<1> QED BY <1>1, <1>2, <1>3, <1>4, <1>5, Zenon

LEMMA UpdatedNonce ==
    ASSUME NEW q \in AddrQueueType, NEW nonce, NEW balance
    PROVE  updateCurrentNonceBalance(q, nonce, balance).queue.currentNonce = nonce
    BY Zenon DEF updateCurrentNonceBalance, AddrQueueType

\* A step that leaves the transactions pending to store and the state of the
\* finalizer alone, and the nonces of their queues.
LEMMA PlaceStays ==
    ASSUME WorkerInv, PlaceInv, UNCHANGED <<pendingToStore, wipState>>,
           \A a \in found : wpool'[a].currentNonce = wpool[a].currentNonce,
           \/ fin' = fin
           \/ fin.pc \notin {"oog", "moved"} /\ fin'.pc \notin {"oog", "moved"}
           \/ fin'.pc \in {"oog", "moved"} /\ fin.pc \in {"oog", "moved"}
              /\ fin'.tx = fin.tx /\ fin'.touched = fin.touched
    PROVE  PlaceInv'
<1>1. PendingOnce' /\ SenderTouched'
    BY Zenon DEF PlaceInv, PendingOnce, SenderTouched
<1>2. \A t : Told(t)' = Told(t)
    BY Zenon DEF Told
<1>3. ASSUME NEW i \in DOMAIN pendingToStore
      PROVE  /\ Nonce[pendingToStore[i]] < wipState[From[pendingToStore[i]]].nonce
             /\ Told(pendingToStore[i])' =>
                   Nonce[pendingToStore[i]] < wpool'[From[pendingToStore[i]]].currentNonce
    <2>1. From[pendingToStore[i]] \in found
        BY Zenon DEF WorkerInv, PendingFound
    <2>2. /\ Nonce[pendingToStore[i]] < wipState[From[pendingToStore[i]]].nonce
          /\ Told(pendingToStore[i]) =>
                Nonce[pendingToStore[i]] < wpool[From[pendingToStore[i]]].currentNonce
        BY Zenon DEF PlaceInv, PendingPast
    <2>3. Told(pendingToStore[i])' => Told(pendingToStore[i])
        BY Zenon DEF Told
    <2> QED BY <2>1, <2>2, <2>3, Zenon
<1> QED BY <1>1, <1>3, Zenon DEF PlaceInv, PendingPast, Told

\* The steps that leave the queues alone.
LEMMA PlaceOther ==
    ASSUME WorkerInv, PlaceInv,
           \/ \E t \in Txs : AddTx(t) \/ Age(t) \/ LoadRejected(t) \/ ExpireUpdatePool(t) \/ SkipTx(t)
           \/ PoolUpdate \/ LoaderReadState \/ LoaderUpdatePool \/ GetReorgedTx \/ GetNoTx \/ StoreSelect
           \/ \E tx \in TxOrNil, fits, ooc \in SUBSET txSortedList : GetBestFittingTx(tx, fits, ooc)
           \/ \E n \in 1 .. Len(processed) : CommitL2Block(n)
    PROVE  PlaceInv'
<1>1. UNCHANGED <<pendingToStore, wipState, wpool>>
    BY Zenon DEF AddTx, Age, LoadRejected, ExpireUpdatePool, SkipTx, PoolUpdate, LoaderReadState, LoaderUpdatePool,
           GetReorgedTx, GetNoTx, StoreSelect, GetBestFittingTx, CommitL2Block, workerVars, chainVars
<1>2. \/ fin' = fin
      \/ \E t \in Txs : SkipTx(t)
      \/ GetReorgedTx
      \/ \E tx \in TxOrNil, fits, ooc \in SUBSET txSortedList : GetBestFittingTx(tx, fits, ooc)
    BY Zenon DEF AddTx, Age, LoadRejected, ExpireUpdatePool, PoolUpdate, LoaderReadState, LoaderUpdatePool,
           GetNoTx, StoreSelect, CommitL2Block
<1>3. ASSUME NEW t \in Txs, SkipTx(t) PROVE fin.pc = "exec" /\ fin'.pc = "idle"
    BY <1>3, Zenon DEF SkipTx, Executing, FinIdle
<1>4. ASSUME GetReorgedTx PROVE fin.pc = "idle" /\ fin'.pc = "exec"
    BY <1>4, Zenon DEF GetReorgedTx, FinIdle
<1>5. ASSUME NEW tx \in TxOrNil, NEW fits \in SUBSET txSortedList, NEW ooc \in SUBSET txSortedList,
             GetBestFittingTx(tx, fits, ooc)
      PROVE  fin.pc = "idle" /\ fin'.pc \in {"ooc", "exec", "idle"}
    BY <1>5, Zenon DEF GetBestFittingTx, FinIdle
<1>6. \/ fin' = fin
      \/ fin.pc \in {"idle", "exec"} /\ fin'.pc \in {"idle", "ooc", "exec"}
    BY <1>2, <1>3, <1>4, <1>5, Zenon
<1> QED BY <1>1, <1>6, PlaceStays, Zenon

\* The steps that change a queue without telling it a nonce.
LEMMA PlaceQueues ==
    ASSUME WorkerInv, PlaceInv,
           \/ \E t \in Txs : \/ LoadTx(t) \/ DiscardOOCTx(t) \/ InvalidateTx(t) \/ RestoreTx(t)
                             \/ \E s \in {"failed", "invalid"} : RejectTx(t, s)
           \/ LoaderCreateQueue \/ ExpireWorkerTxs
    PROVE  PlaceInv'
<1> USE TxAssumption
<1>0. /\ \A a \in Addrs : wpool[a] \in AddrQueueType
      /\ \A t \in Txs : From[t] \in Addrs
      /\ found \subseteq Addrs /\ wpool \in [Addrs -> AddrQueueType]
    BY Zenon DEF WorkerInv, TypeOK
<1>1. ASSUME NEW t \in Txs, NEW q \in AddrQueueType, AddToQueue(q, t), From[t] \in found => q = wpool[From[t]]
      PROVE  \A a \in found : wpool'[a].currentNonce = wpool[a].currentNonce
    <2>1. addTx(q, t).queue.currentNonce = q.currentNonce
        BY QueueNonces, Zenon
    <2> QED BY <1>0, <1>1, <2>1, Zenon DEF AddToQueue, SetQueue
<1>2. ASSUME NEW t \in Txs, DeleteTx(t)
      PROVE  \A a \in found : wpool'[a].currentNonce = wpool[a].currentNonce
    <2>1. deleteTx(wpool[From[t]], t).currentNonce = wpool[From[t]].currentNonce
        BY <1>0, QueueNonces, Zenon
    <2> QED BY <1>0, <1>2, <2>1, Zenon DEF DeleteTx, DeleteFromQueue, SetQueue
<1>3. ASSUME NEW t \in Txs, LoadTx(t) PROVE PlaceInv'
    <2>1. UNCHANGED <<pendingToStore, wipState, fin>>
          /\ (UNCHANGED wpool \/ AddToQueue(wpool[From[t]], t))
        BY <1>3, Zenon DEF LoadTx, workerVars, chainVars
    <2>2. \A a \in found : wpool'[a].currentNonce = wpool[a].currentNonce
        BY <1>0, <1>1, <2>1, Zenon
    <2> QED BY <2>1, <2>2, PlaceStays, Zenon
<1>4. ASSUME NEW t \in Txs, DiscardOOCTx(t) PROVE PlaceInv'
    <2>1. UNCHANGED <<pendingToStore, wipState>> /\ DeleteTx(t) /\ fin.pc = "ooc"
        BY <1>4, Zenon DEF DiscardOOCTx, DeleteTx, chainVars
    <2>2. fin'.pc \in {"ooc", "exec", "idle"}
        BY <1>4, Zenon DEF DiscardOOCTx, WorkerInv, TypeOK
    <2> QED BY <1>2, <2>1, <2>2, PlaceStays, Zenon
<1>5. ASSUME NEW t \in Txs, InvalidateTx(t) \/ \E s \in {"failed", "invalid"} : RejectTx(t, s)
      PROVE  PlaceInv'
    <2>1. UNCHANGED <<pendingToStore, wipState>> /\ DeleteTx(t) /\ fin.pc = "exec" /\ fin'.pc = "idle"
        BY <1>5 DEF InvalidateTx, RejectTx, DeleteTx, chainVars, Executing, FinIdle
    <2> QED BY <1>2, <2>1, PlaceStays, Zenon
<1>6. ASSUME NEW t \in Txs, RestoreTx(t) PROVE PlaceInv'
    <2> DEFINE q == IF From[t] \in found THEN wpool[From[t]]
                    ELSE newAddrQueue(dbState[From[t]].nonce, dbState[From[t]].balance)
    <2>1. UNCHANGED <<pendingToStore, wipState, fin>> /\ (UNCHANGED wpool \/ AddToQueue(q, t))
        BY <1>6, Zenon DEF RestoreTx, chainVars
    <2>2. q \in AddrQueueType
        <3>1. dbState[From[t]].nonce \in Nat /\ dbState[From[t]].balance \in Nat
            BY <1>0, Zenon DEF WorkerInv, TypeOK, States, Account
        <3> QED BY <1>0, <3>1, NewQueue, Zenon
    <2>3. From[t] \in found => q = wpool[From[t]]
        BY Zenon
    <2> HIDE DEF q
    <2>4. \A a \in found : wpool'[a].currentNonce = wpool[a].currentNonce
        BY <1>0, <1>1, <2>1, <2>2, <2>3, Zenon
    <2> QED BY <2>1, <2>4, PlaceStays, Zenon
<1>7. CASE LoaderCreateQueue
    <2> DEFINE q == newAddrQueue(loader.nonce, loader.balance)
    <2>1. UNCHANGED <<pendingToStore, wipState, fin>> /\ AddToQueue(q, loader.tx) /\ loader.pc = "create"
        BY <1>7, Zenon DEF LoaderCreateQueue, chainVars
    <2>2. loader.tx \in Txs /\ From[loader.tx] \notin found
        BY <2>1, Zenon DEF WorkerInv, LoaderInv
    <2>3. q \in AddrQueueType
        <3>1. loader.nonce \in Nat /\ loader.balance \in Nat
            BY Zenon DEF WorkerInv, TypeOK
        <3> QED BY <3>1, NewQueue, Zenon
    <2> HIDE DEF q
    <2>4. \A a \in found : wpool'[a].currentNonce = wpool[a].currentNonce
        BY <1>1, <2>1, <2>2, <2>3, Zenon
    <2> QED BY <2>1, <2>4, PlaceStays, Zenon
<1>8. CASE ExpireWorkerTxs
    <2>1. UNCHANGED <<pendingToStore, wipState, fin>>
          /\ wpool' = [a \in Addrs |-> ExpireTransactions(wpool[a], old).queue]
        BY <1>8, Zenon DEF ExpireWorkerTxs, chainVars
    <2>2. \A a \in found : ExpireTransactions(wpool[a], old).queue.currentNonce = wpool[a].currentNonce
        BY <1>0, Zenon DEF ExpireTransactions, AddrQueueType
    <2>3. \A a \in found : wpool'[a].currentNonce = wpool[a].currentNonce
        BY <1>0, <2>1, <2>2, Zenon
    <2> QED BY <2>1, <2>3, PlaceStays, Zenon
<1> QED BY <1>3, <1>4, <1>5, <1>6, <1>7, <1>8, Zenon

\* An executed transaction moves the nonce of its sender's account, and no
\* queue's.
LEMMA ExecuteNonces ==
    ASSUME WorkerInv, NEW t \in Txs, NEW amount \in 0 .. Cost[t], NEW receiver \in Addrs,
           NEW outOfGas \in BOOLEAN, ExecuteTx(t, amount, receiver, outOfGas)
    PROVE  /\ wipState'[From[t]].nonce = wipState[From[t]].nonce + 1
           /\ \A b \in Addrs \ {From[t]} : wipState'[b].nonce = wipState[b].nonce
           /\ \A b \in Addrs : wpool'[b].currentNonce = wpool[b].currentNonce
<1> USE TxAssumption
<1> DEFINE a == From[t]
           paid  == [wipState EXCEPT ![a] = [nonce |-> @.nonce + 1, balance |-> @.balance - amount]]
           after == IF receiver = a THEN paid
                    ELSE [paid EXCEPT ![receiver] = [nonce |-> @.nonce, balance |-> @.balance + amount]]
<1>1. /\ a \in Addrs /\ wpool[a] \in AddrQueueType /\ wpool \in [Addrs -> AddrQueueType]
      /\ wipState \in States
    BY Zenon DEF WorkerInv, TypeOK
<1>2. wipState' = after
    BY Zenon DEF ExecuteTx
<1>3. \A b \in Addrs : wpool'[b].currentNonce = wpool[b].currentNonce
    <2>1. addPendingTxToStore(deleteTx(wpool[a], t), t).currentNonce = wpool[a].currentNonce
        BY <1>1, QueueNonces, Zenon
    <2>2. \/ wpool' = wpool
          \/ wpool' = [wpool EXCEPT ![a] = addPendingTxToStore(deleteTx(wpool[a], t), t)]
        BY Zenon DEF ExecuteTx, SetQueue
    <2> QED BY <1>1, <2>1, <2>2, Zenon
<1>4. paid[a].nonce = wipState[a].nonce + 1 /\ \A b \in Addrs \ {a} : paid[b] = wipState[b]
    BY <1>1, Zenon DEF States
<1>5. DOMAIN paid = Addrs
    BY <1>1, Zenon DEF States
<1> HIDE DEF paid
<1>6. \A b \in Addrs : after[b].nonce = paid[b].nonce
    BY <1>5, Zenon
<1> HIDE DEF after
<1> QED BY <1>1, <1>2, <1>3, <1>4, <1>6, Zenon

\* The transaction that is executed has the nonce of the state, the ones that
\* are pending to store have smaller ones.
LEMMA PlaceExecute ==
    ASSUME WorkerInv, PlaceInv, NEW t \in Txs, NEW amount \in 0 .. Cost[t], NEW receiver \in Addrs,
           NEW outOfGas \in BOOLEAN, ExecuteTx(t, amount, receiver, outOfGas)
    PROVE  PlaceInv'
<1> USE TxAssumption
<1> DEFINE a == From[t]
           n == Len(pendingToStore)
<1>1. /\ a \in Addrs /\ wpool[a] \in AddrQueueType /\ wpool \in [Addrs -> AddrQueueType]
      /\ \A b \in Addrs : wipState[b].nonce \in Nat
      /\ wipState \in States /\ pendingToStore \in Seq(Txs)
    BY Zenon DEF WorkerInv, TypeOK, States, Account
<1>2. fin.pc = "exec" /\ fin.tx = t /\ Nonce[t] = wipState[a].nonce
    BY Zenon DEF ExecuteTx, Executing, Executable
<1>3. fin'.pc \in {"oog", "moved"} /\ fin'.tx = t /\ a \in fin'.touched
    BY <1>2, Zenon DEF ExecuteTx, WorkerInv, TypeOK
<1>4. wipState'[a].nonce = wipState[a].nonce + 1
      /\ \A b \in Addrs : wipState'[b].nonce >= wipState[b].nonce
    <2>1. /\ wipState'[a].nonce = wipState[a].nonce + 1
          /\ \A b \in Addrs \ {a} : wipState'[b].nonce = wipState[b].nonce
        BY ExecuteNonces
    <2> HIDE DEF a
    <2>2. ASSUME NEW b \in Addrs PROVE wipState'[b].nonce >= wipState[b].nonce
        <3>1. wipState[b].nonce \in Nat
            BY <1>1, Zenon
        <3> QED BY <2>1, <3>1
    <2> QED BY <2>1, <2>2, Zenon
<1>5. \A b \in Addrs : wpool'[b].currentNonce = wpool[b].currentNonce
    BY ExecuteNonces
<1>5a. \A b \in Addrs : wipState'[b].nonce \in Nat
    <2>1. WorkerInv'
        BY ExecuteTxStep
    <2> QED BY <2>1, Zenon DEF WorkerInv, TypeOK, States, Account
<1>6. ASSUME NEW i \in DOMAIN pendingToStore
      PROVE  /\ pendingToStore[i] # t /\ From[pendingToStore[i]] \in Addrs /\ Nonce[pendingToStore[i]] \in Nat
             /\ Nonce[pendingToStore[i]] < wipState'[From[pendingToStore[i]]].nonce
             /\ Nonce[pendingToStore[i]] < wpool'[From[pendingToStore[i]]].currentNonce
    <2>1. pendingToStore[i] \in Txs
        BY <1>1, ElementOfSeq
    <2>2. /\ Nonce[pendingToStore[i]] < wipState[From[pendingToStore[i]]].nonce
          /\ Nonce[pendingToStore[i]] < wpool[From[pendingToStore[i]]].currentNonce
        BY <1>2, Zenon DEF PlaceInv, PendingPast, Told
    <2>3. pendingToStore[i] # t
        BY <1>1, <1>2, <2>2
    <2>4. From[pendingToStore[i]] \in Addrs /\ Nonce[pendingToStore[i]] \in Nat
        BY <2>1, Zenon
    <2>5. Nonce[pendingToStore[i]] < wipState'[From[pendingToStore[i]]].nonce
        <3>1. /\ wipState[From[pendingToStore[i]]].nonce \in Nat
              /\ wipState'[From[pendingToStore[i]]].nonce >= wipState[From[pendingToStore[i]]].nonce
              /\ wipState'[From[pendingToStore[i]]].nonce \in Nat
            BY <1>1, <1>4, <1>5a, <2>4, Zenon
        <3> QED BY <2>2, <2>4, <3>1
    <2> QED BY <1>5, <2>2, <2>3, <2>4, <2>5, Zenon
<1>7. CASE pendingToStore' = pendingToStore
    BY <1>3, <1>6, <1>7, Zenon DEF PlaceInv, PendingPast, PendingOnce, SenderTouched
<1>8. CASE pendingToStore' = Append(pendingToStore, t)
    <2>1. /\ n \in Nat /\ DOMAIN pendingToStore = 1 .. n /\ DOMAIN pendingToStore' = 1 .. (n + 1)
          /\ \A i \in 1 .. n : pendingToStore'[i] = pendingToStore[i]
          /\ pendingToStore'[n + 1] = t
        BY <1>1, <1>8, AppendProperties, LenProperties
    <2> HIDE DEF n
    <2>2. \A i \in 1 .. (n + 1) : i \in 1 .. n \/ i = n + 1
        BY <2>1
    <2>3. PendingOnce'
        <3>1. SUFFICES ASSUME NEW i \in 1 .. (n + 1), NEW j \in 1 .. (n + 1),
                              pendingToStore'[i] = pendingToStore'[j]
                       PROVE  i = j
            BY <2>1, Zenon DEF PendingOnce
        <3>2. CASE i \in 1 .. n /\ j \in 1 .. n
            BY <2>1, <3>1, <3>2, Zenon DEF PlaceInv, PendingOnce
        <3>3. CASE ~(i \in 1 .. n /\ j \in 1 .. n)
            BY <1>6, <2>1, <2>2, <3>1, <3>3, Zenon
        <3> QED BY <3>2, <3>3, Zenon
    <2>4. PendingPast'
        <3>1. SUFFICES ASSUME NEW i \in 1 .. (n + 1)
                       PROVE  /\ Nonce[pendingToStore'[i]] < wipState'[From[pendingToStore'[i]]].nonce
                              /\ Told(pendingToStore[i])' =>
                                    Nonce[pendingToStore'[i]] < wpool'[From[pendingToStore'[i]]].currentNonce
            BY <2>1, Zenon DEF PendingPast
        <3>2. CASE i \in 1 .. n
            BY <1>6, <2>1, <3>2, Zenon
        <3>3. CASE i = n + 1
            <4>1. Nonce[t] < wipState'[a].nonce
                BY <1>1, <1>2, <1>4
            <4> QED BY <1>3, <2>1, <3>3, <4>1, Zenon DEF Told
        <3> QED BY <2>2, <3>2, <3>3, Zenon
    <2> QED BY <1>3, <2>3, <2>4, Zenon DEF PlaceInv, SenderTouched
<1> QED BY <1>7, <1>8, Zenon DEF ExecuteTx

\* MoveTxToNotReady tells the queue the nonce of the state, or its own.
LEMMA NotReadyNonces ==
    ASSUME WorkerInv, NEW t \in Txs, NEW reported \in BOOLEAN, MoveTxToNotReady(t, reported)
    PROVE  \A b \in Addrs : wpool'[b].currentNonce \in {wpool[b].currentNonce, wipState[b].nonce}
<1> DEFINE a == From[t]
<1>1. a \in Addrs /\ wpool[a] \in AddrQueueType /\ wpool \in [Addrs -> AddrQueueType]
    BY TxAssumption, Zenon DEF WorkerInv, TypeOK
<1>2. \/ wpool' = wpool
      \/ wpool' = [wpool EXCEPT ![a] = updateCurrentNonceBalance(wpool[a], wipState[a].nonce, wipState[a].balance).queue]
      \/ wpool' = [wpool EXCEPT ![a] = updateCurrentNonceBalance(wpool[a], wpool[a].currentNonce, wpool[a].currentBalance).queue]
    BY Zenon DEF MoveTxToNotReady, SetQueue
<1>3. \A n, m : updateCurrentNonceBalance(wpool[a], n, m).queue.currentNonce = n
    BY <1>1, UpdatedNonce, Zenon
<1>4. CASE wpool' = wpool
    BY <1>4, Zenon
<1>5. ASSUME NEW n, NEW m, n \in {wpool[a].currentNonce, wipState[a].nonce},
             wpool' = [wpool EXCEPT ![a] = updateCurrentNonceBalance(wpool[a], n, m).queue]
      PROVE  \A b \in Addrs : wpool'[b].currentNonce \in {wpool[b].currentNonce, wipState[b].nonce}
    BY <1>1, <1>3, <1>5, Zenon
<1> QED BY <1>2, <1>4, <1>5

LEMMA PlaceNotReady ==
    ASSUME WorkerInv, PlaceInv, NEW t \in Txs, NEW reported \in BOOLEAN, MoveTxToNotReady(t, reported)
    PROVE  PlaceInv'
<1> USE TxAssumption
<1> DEFINE a == From[t]
<1>1. /\ a \in Addrs /\ wpool[a] \in AddrQueueType /\ wpool \in [Addrs -> AddrQueueType]
      /\ pendingToStore \in Seq(Txs)
    BY Zenon DEF WorkerInv, TypeOK
<1>2. UNCHANGED <<pendingToStore, wipState>> /\ fin.pc = "exec" /\ fin'.pc = "idle"
    BY Zenon DEF MoveTxToNotReady, Executing, FinIdle, chainVars
<1>4. \A b \in Addrs : wpool'[b].currentNonce \in {wpool[b].currentNonce, wipState[b].nonce}
    BY NotReadyNonces, Zenon
<1>5. ASSUME NEW i \in DOMAIN pendingToStore
      PROVE  /\ Nonce[pendingToStore[i]] < wipState[From[pendingToStore[i]]].nonce
             /\ Nonce[pendingToStore[i]] < wpool'[From[pendingToStore[i]]].currentNonce
    <2>1. From[pendingToStore[i]] \in Addrs
        BY <1>1, ElementOfSeq
    <2>2. /\ Nonce[pendingToStore[i]] < wipState[From[pendingToStore[i]]].nonce
          /\ Nonce[pendingToStore[i]] < wpool[From[pendingToStore[i]]].currentNonce
        BY <1>2, Zenon DEF PlaceInv, PendingPast, Told
    <2> QED BY <1>4, <2>1, <2>2, Zenon
<1> QED BY <1>2, <1>5, Zenon DEF PlaceInv, PendingPast, PendingOnce, SenderTouched

\* UpdateAfterSingleSuccessfulTxExecution tells the queue of the sender.
LEMMA UpdateNonces ==
    ASSUME WorkerInv, UpdateAfterSingleSuccessfulTxExecution
    PROVE  \A b \in Addrs : wpool'[b].currentNonce =
               IF b = From[fin.tx] /\ b \in fin.touched \cap found THEN wipState[b].nonce
               ELSE wpool[b].currentNonce
<1> DEFINE a == From[fin.tx]
           U(b) == IF b = a
                   THEN updateCurrentNonceBalance(wpool[b], wipState[b].nonce, fin.balance)
                   ELSE updateCurrentNonceBalance(wpool[b], wpool[b].currentNonce, wipState[b].balance)
           hit == fin.touched \cap found
<1>1. wpool \in [Addrs -> AddrQueueType]
    BY Zenon DEF WorkerInv, TypeOK
<1>2. wpool' = [b \in Addrs |-> IF b \in hit THEN U(b).queue ELSE wpool[b]]
    BY Zenon DEF UpdateAfterSingleSuccessfulTxExecution
<1>3. \A b \in Addrs : U(b).queue.currentNonce = IF b = a THEN wipState[b].nonce ELSE wpool[b].currentNonce
    BY <1>1, UpdatedNonce
<1> HIDE DEF U
<1> QED BY <1>2, <1>3, Zenon

LEMMA PlaceUpdate ==
    ASSUME WorkerInv, PlaceInv, UpdateAfterSingleSuccessfulTxExecution
    PROVE  PlaceInv'
<1> USE TxAssumption
<1> DEFINE a == From[fin.tx]
           hit == fin.touched \cap found
<1>1. /\ wpool \in [Addrs -> AddrQueueType] /\ pendingToStore \in Seq(Txs) /\ found \subseteq Addrs
      /\ fin.pc = "moved"
    BY Zenon DEF WorkerInv, TypeOK, UpdateAfterSingleSuccessfulTxExecution
<1>2. UNCHANGED <<pendingToStore, wipState>> /\ fin'.pc = "idle"
    BY Zenon DEF UpdateAfterSingleSuccessfulTxExecution, FinIdle, chainVars
<1>3. \A b \in Addrs : wpool'[b].currentNonce =
          IF b = a /\ b \in hit THEN wipState[b].nonce ELSE wpool[b].currentNonce
    BY UpdateNonces, Zenon
<1>4. ASSUME NEW i \in DOMAIN pendingToStore
      PROVE  /\ Nonce[pendingToStore[i]] < wipState[From[pendingToStore[i]]].nonce
             /\ Nonce[pendingToStore[i]] < wpool'[From[pendingToStore[i]]].currentNonce
    <2> DEFINE p == pendingToStore[i]
               b == From[p]
    <2>1. b \in found /\ b \in Addrs
        BY <1>1, Zenon DEF WorkerInv, PendingFound
    <2>2. Nonce[p] < wipState[b].nonce /\ (Told(p) => Nonce[p] < wpool[b].currentNonce)
        BY Zenon DEF PlaceInv, PendingPast
    <2>3. p = fin.tx => b \in hit /\ b = a
        BY <1>1, <2>1, Zenon DEF PlaceInv, SenderTouched
    <2>4. p # fin.tx => Told(p)
        BY Zenon DEF Told
    <2>5. wpool'[b].currentNonce = IF b = a /\ b \in hit THEN wipState[b].nonce ELSE wpool[b].currentNonce
        BY <1>3, <2>1, Zenon
    <2> HIDE DEF p, b, hit, a
    <2>6. Nonce[p] < wpool'[b].currentNonce
        BY <2>2, <2>3, <2>4, <2>5, Zenon
    <2> QED BY <2>2, <2>6, Zenon DEF p, b
<1> QED BY <1>2, <1>4, Zenon DEF PlaceInv, PendingPast, PendingOnce, SenderTouched

LEMMA RemoveTxOnce ==
    ASSUME NEW s \in Seq(Txs), NEW t \in Txs, \A i, j \in DOMAIN s : s[i] = s[j] => i = j
    PROVE  LET r == RemoveTx(s, t)
           IN  /\ \A i, j \in DOMAIN r : r[i] = r[j] => i = j
               /\ \A i \in DOMAIN r : \E j \in DOMAIN s : r[i] = s[j]
<1>1. Len(s) \in Nat /\ DOMAIN s = 1 .. Len(s)
    BY LenProperties, Zenon
<1>2. \A i \in DOMAIN RemoveTx(s, t) : \E j \in DOMAIN s : RemoveTx(s, t)[i] = s[j]
    BY RemoveTxSeq, Zenon
<1>3. CASE t \notin Range(s)
    BY <1>3, Zenon DEF RemoveTx
<1>4. CASE t \in Range(s)
    <2> DEFINE k == CHOOSE j \in DOMAIN s : s[j] = t
               at(j) == IF j < k THEN j ELSE j + 1
               r == [j \in 1 .. (Len(s) - 1) |-> IF j < k THEN s[j] ELSE s[j + 1]]
    <2>1. k \in 1 .. Len(s)
        BY <1>1, <1>4, Zenon DEF Range
    <2>2. RemoveTx(s, t) = r
        BY <1>4, Zenon DEF RemoveTx
    <2> HIDE DEF k
    <2>3. \A j \in 1 .. (Len(s) - 1) : at(j) \in 1 .. Len(s) /\ r[j] = s[at(j)]
        BY <1>1, <2>1
    <2>4. \A i, j \in 1 .. (Len(s) - 1) : at(i) = at(j) => i = j
        BY <1>1, <2>1
    <2>5. DOMAIN r = 1 .. (Len(s) - 1)
        BY Zenon
    <2> HIDE DEF r, at
    <2>6. \A i, j \in DOMAIN r : r[i] = r[j] => i = j
        BY <1>1, <2>3, <2>4, <2>5, Zenon
    <2> QED BY <1>2, <2>2, <2>6, Zenon
<1> QED BY <1>3, <1>4, Zenon

LEMMA PlaceStoreDelete ==
    ASSUME WorkerInv, PlaceInv, StoreDelete
    PROVE  PlaceInv'
<1> USE TxAssumption
<1> DEFINE t == Head(storing).tx
<1>1. /\ t \in Txs /\ wpool \in [Addrs -> AddrQueueType] /\ pendingToStore \in Seq(Txs) /\ From[t] \in Addrs
    <2>1. storing \in Seq([op : {"select", "delete"}, tx : Txs]) /\ storing # <<>>
        BY Zenon DEF WorkerInv, TypeOK, StoreDelete
    <2>2. Head(storing) \in [op : {"select", "delete"}, tx : Txs]
        BY <2>1, HeadTailProperties, Zenon
    <2> QED BY <2>2, Zenon DEF WorkerInv, TypeOK
<1>2. /\ UNCHANGED <<wipState, fin>> /\ pendingToStore' = RemoveTx(pendingToStore, t)
      /\ wpool' = wpool \/ wpool' = [wpool EXCEPT ![From[t]] = deletePendingTxToStore(wpool[From[t]], t)]
    BY Zenon DEF StoreDelete, SetQueue
<1> HIDE DEF t
<1>3. \A b \in Addrs : wpool'[b].currentNonce = wpool[b].currentNonce
    <2>1. deletePendingTxToStore(wpool[From[t]], t).currentNonce = wpool[From[t]].currentNonce
        BY <1>1, QueueNonces, Zenon
    <2> QED BY <1>1, <1>2, <2>1, Zenon
<1>4. /\ PendingOnce'
      /\ \A i \in DOMAIN pendingToStore' : \E j \in DOMAIN pendingToStore : pendingToStore'[i] = pendingToStore[j]
    <2>1. \A i, j \in DOMAIN pendingToStore : pendingToStore[i] = pendingToStore[j] => i = j
        BY Zenon DEF PlaceInv, PendingOnce
    <2>2. /\ \A i, j \in DOMAIN RemoveTx(pendingToStore, t) :
                RemoveTx(pendingToStore, t)[i] = RemoveTx(pendingToStore, t)[j] => i = j
          /\ \A i \in DOMAIN RemoveTx(pendingToStore, t) :
                \E j \in DOMAIN pendingToStore : RemoveTx(pendingToStore, t)[i] = pendingToStore[j]
        BY <1>1, <2>1, RemoveTxOnce, Zenon
    <2> QED BY <1>2, <2>2, Zenon DEF PendingOnce
<1>5. \A j \in DOMAIN pendingToStore :
          /\ Nonce[pendingToStore[j]] < wipState[From[pendingToStore[j]]].nonce
          /\ Told(pendingToStore[j]) => Nonce[pendingToStore[j]] < wpool'[From[pendingToStore[j]]].currentNonce
    <2>1. \A j \in DOMAIN pendingToStore : From[pendingToStore[j]] \in Addrs
        BY <1>1, ElementOfSeq, LenProperties, Zenon
    <2> QED BY <1>3, <2>1, Zenon DEF PlaceInv, PendingPast
<1>6. PendingPast'
    BY <1>2, <1>4, <1>5, Zenon DEF PendingPast, Told
<1> QED BY <1>2, <1>4, <1>6, Zenon DEF PlaceInv, SenderTouched

LEMMA PlaceNext == WorkerInv /\ PlaceInv /\ [Next]_vars => PlaceInv'
<1> SUFFICES ASSUME WorkerInv, PlaceInv, [Next]_vars PROVE PlaceInv'
    BY Zenon
<1>1. ASSUME pendingToStore' = <<>>, fin'.pc = "idle" PROVE PlaceInv'
    BY <1>1 DEF PlaceInv, PendingPast, PendingOnce, SenderTouched
<1>2. CASE UNCHANGED vars
    BY <1>2, PlaceStays, Zenon DEF vars, workerVars, chainVars
<1>3. CASE RestoreTxsPendingToStore \/ Restart
    <2>1. pendingToStore' = <<>> /\ fin'.pc = "idle"
        BY <1>3 DEF RestoreTxsPendingToStore, StartRestore, CanRestore, Restart, FinIdle
    <2> QED BY <1>1, <2>1, Zenon
<1>4. CASE ReadOOGBalance
    <2>1. UNCHANGED <<pendingToStore, wipState, wpool>> /\ fin.pc = "oog"
          /\ \E b : fin' = [fin EXCEPT !.pc = "moved", !.balance = b]
        BY <1>4, Zenon DEF ReadOOGBalance, workerVars, chainVars
    <2>2. fin'.pc = "moved" /\ fin'.tx = fin.tx /\ fin'.touched = fin.touched
        BY <2>1, Zenon DEF WorkerInv, TypeOK
    <2> QED BY <2>1, <2>2, PlaceStays, Zenon
<1>5. CASE \/ \E t \in Txs : AddTx(t) \/ Age(t)
           \/ PoolUpdate \/ LoaderStep \/ SelectStep \/ ExpireStep
    BY <1>5, PlaceOther, PlaceQueues, Zenon DEF LoaderStep, SelectStep, ExpireStep
<1>6. CASE ExecStep
    BY <1>4, <1>6, PlaceUpdate, PlaceOther, PlaceQueues, PlaceNotReady, PlaceExecute, Zenon DEF ExecStep
<1>7. CASE ReorgStep \/ StoreStep
    BY <1>3, <1>7, PlaceOther, PlaceQueues, PlaceStoreDelete, Zenon DEF ReorgStep, StoreStep
<1> QED BY <1>2, <1>3, <1>5, <1>6, <1>7, Zenon DEF Next

\* What is pending to store is too old for its queue.
LEMMA PlaceImplies == WorkerInv /\ PlaceInv => OnePlace
<1> SUFFICES ASSUME WorkerInv, PlaceInv PROVE OnePlace
    BY Zenon
<1> USE TxAssumption
<1>1. \A a \in Addrs : /\ wpool[a] \in AddrQueueType /\ QueueOK(a, wpool[a])
    BY Zenon DEF WorkerInv, QueuesOK, TypeOK
<1>2. \A a \in Addrs : \A t \in getTransactions(wpool[a]) : From[t] = a /\ Nonce[t] >= wpool[a].currentNonce
    BY <1>1 DEF QueueOK, getTransactions, AddrQueueType
<1>3. ASSUME NEW t \in Range(pendingToStore), t \in getTransactions(wpool[From[t]])
      PROVE  fin.pc \in {"oog", "moved"} /\ fin.tx = t
    <2>1. PICK i \in DOMAIN pendingToStore : pendingToStore[i] = t
        BY Zenon DEF Range
    <2>2. t \in Txs /\ From[t] \in Addrs /\ Nonce[t] \in Nat /\ wpool[From[t]].currentNonce \in Nat
        <3>1. t \in Txs
            BY <2>1, ElementOfSeq, LenProperties DEF WorkerInv, TypeOK
        <3> QED BY <1>1, <3>1, Zenon DEF AddrQueueType
    <2>3. Told(t) => Nonce[t] < wpool[From[t]].currentNonce
        BY <2>1, Zenon DEF PlaceInv, PendingPast
    <2>4. ~Told(t)
        BY <1>2, <1>3, <2>2, <2>3
    <2> QED BY <2>4, Zenon DEF Told
<1> QED BY <1>2, <1>3, Zenon DEF OnePlace, PlaceInv, PendingOnce

-----------------------------------------------------------------------------
(* The nonces of the queues, when transactions of a sender differ in their *)
(* nonces and do not expire.  Then the transaction that is executed is the *)
(* ready one of its queue, the executed ones are all pending to store, and *)
(* a reorg recreates the queues of exactly those whose nonce it turns back. *)

OneTxPerNonce == \A t, u \in Txs : From[t] = From[u] /\ Nonce[t] = Nonce[u] => t = u

Window == {"oog", "moved"}

FinReady ==
    (fin.pc \in {"ooc", "exec"} /\ fin.tx # NoTx) => IsReadyTx(fin.tx) /\ fin.tx \notin fin.ooc

QueueSync ==
    \A a \in found : \/ wpool[a].currentNonce = wipState[a].nonce
                     \/ fin.pc \in Window /\ From[fin.tx] = a

LoaderSync == loader.pc = "create" => loader.nonce = dbState[From[loader.tx]].nonce

QueueSide == FinReady /\ QueueSync /\ LoaderSync /\ old = {}

ProcessedPending ==
    /\ \A i \in DOMAIN processed : \E j \in DOMAIN pendingToStore : pendingToStore[j] = processed[i].tx
    /\ \A i, j \in DOMAIN processed : processed[i].tx = processed[j].tx => i = j

StoringPast ==
    \A i \in DOMAIN storing :
        /\ Nonce[storing[i].tx] < wipState[From[storing[i].tx]].nonce
        /\ \A j \in DOMAIN processed : processed[j].tx # storing[i].tx

\* s is the state before the executed transactions after the k-th one: it has
\* the nonces of wipState but for their senders
StateAt(s, k) ==
    \A a \in Addrs : (\A i \in DOMAIN processed : i > k => From[processed[i].tx] # a)
                     => s[a].nonce = wipState[a].nonce

Chain == StateAt(dbState, 0) /\ \A k \in DOMAIN processed : StateAt(processed[k].state, k)

ChainSide == ProcessedPending /\ StoringPast /\ Chain

LEMMA ChainStays ==
    ASSUME ChainSide, UNCHANGED <<processed, pendingToStore, storing, wipState, dbState>>
    PROVE  ChainSide'
<1>1. ProcessedPending' /\ StoringPast'
    BY Zenon DEF ChainSide, ProcessedPending, StoringPast
<1>2. Chain'
    BY Zenon DEF ChainSide, Chain, StateAt
<1> QED BY <1>1, <1>2, Zenon DEF ChainSide

\* an address without a queue has no executed transaction that is not stored
LEMMA FreeAddress ==
    ASSUME WorkerInv, ChainSide, NEW a \in Addrs \ found
    PROVE  /\ \A i \in DOMAIN processed : From[processed[i].tx] # a
           /\ dbState[a].nonce = wipState[a].nonce
<1>1. \A i \in DOMAIN processed : From[processed[i].tx] \in found
    BY Zenon DEF WorkerInv, PendingFound, ChainSide, ProcessedPending
<1>2. \A i \in DOMAIN processed : From[processed[i].tx] # a
    BY <1>1, Zenon
<1> QED BY <1>2, Zenon DEF ChainSide, Chain, StateAt

LEMMA QueueStays ==
    ASSUME WorkerInv, QueueSide, UNCHANGED wipState,
           \A a \in found : wpool'[a].currentNonce = wpool[a].currentNonce,
           \A a \in found' \ found : wpool'[a].currentNonce = wipState[a].nonce,
           \/ fin' = fin
           \/ fin.pc \notin Window /\ fin'.pc \notin Window
           \/ fin.pc \in Window /\ fin'.pc \in Window /\ fin'.tx = fin.tx,
           FinReady', LoaderSync', old' = {}
    PROVE  QueueSide'
<1>1. QueueSync'
    BY Zenon DEF QueueSide, QueueSync
<1> QED BY <1>1, Zenon DEF QueueSide

\* a ready transaction stays ready when another one, of another nonce, is added
LEMMA AddKeepsReady ==
    ASSUME OneTxPerNonce, NEW q \in AddrQueueType, NEW tx \in Txs, QueueOK(From[tx], q), q.readyTx # NoTx
    PROVE  addTx(q, tx).queue.readyTx = q.readyTx
<1> USE TxAssumption
<1>1. q.readyTx \in Txs /\ q.currentNonce \in Nat
    BY Zenon DEF AddrQueueType, TxOrNil
<1>2. From[q.readyTx] = From[tx] /\ Nonce[q.readyTx] = q.currentNonce /\ Cost[q.readyTx] <= q.currentBalance
    BY Zenon DEF QueueOK
<1>3. CASE Nonce[tx] < q.currentNonce
    BY <1>1, <1>3 DEF addTx, Dropped
<1>4. CASE Nonce[tx] > q.currentNonce
    <2>1. addTx(q, tx) = addAsNotReady(q, tx)
        BY <1>1, <1>4 DEF addTx
    <2>2. addAsNotReady(q, tx).queue.readyTx = q.readyTx
        BY Zenon DEF addAsNotReady, Dropped, AddrQueueType
    <2> QED BY <2>1, <2>2, Zenon
<1>5. CASE Nonce[tx] = q.currentNonce
    <2>1. tx = q.readyTx
        BY <1>1, <1>2, <1>5, Zenon DEF OneTxPerNonce
    <2>2. GasPrice[tx] >= GasPrice[q.readyTx]
        BY <2>1
    <2>3. addTx(q, tx) = addAsReady(q, tx)
        BY <1>1, <1>5, <2>2 DEF addTx
    <2>4. addAsReady(q, tx).queue = [q EXCEPT !.readyTx = tx]
        BY <1>2, <2>1, Zenon DEF addAsReady
    <2> QED BY <2>1, <2>3, <2>4, Zenon DEF AddrQueueType
<1> QED BY <1>1, <1>3, <1>4, <1>5

\* what adding to a queue, new or not, does to the ready transactions
LEMMA AddSync ==
    ASSUME OneTxPerNonce, WorkerInv, NEW t \in Txs, NEW q \in AddrQueueType, QueueOK(From[t], q),
           From[t] \in found => q = wpool[From[t]], AddToQueue(q, t)
    PROVE  /\ \A a \in Addrs : wpool[a].readyTx # NoTx => wpool'[a].readyTx = wpool[a].readyTx
           /\ \A a \in found : wpool'[a].currentNonce = wpool[a].currentNonce
           /\ \A a \in found' \ found : wpool'[a].currentNonce = q.currentNonce /\ a = From[t]
<1> USE TxAssumption
<1>1. wpool \in [Addrs -> AddrQueueType] /\ From[t] \in Addrs /\ found \subseteq Addrs
    BY Zenon DEF WorkerInv, TypeOK
<1>2. wpool' = [wpool EXCEPT ![From[t]] = addTx(q, t).queue] /\ found' = found \cup {From[t]}
    BY Zenon DEF AddToQueue, SetQueue
<1>3. addTx(q, t).queue.currentNonce = q.currentNonce
    BY QueueNonces, Zenon
<1>4. ASSUME NEW a \in Addrs, wpool[a].readyTx # NoTx PROVE wpool'[a].readyTx = wpool[a].readyTx
    <2>1. CASE a # From[t]
        BY <1>1, <1>2, <2>1, Zenon
    <2>2. CASE a = From[t]
        <3>1. a \in found
            BY <1>4 DEF WorkerInv, AbsentEmpty, NoQueue, newAddrQueue
        <3>2. addTx(q, t).queue.readyTx = q.readyTx /\ q = wpool[a]
            BY <1>4, <2>2, <3>1, AddKeepsReady, Zenon
        <3> QED BY <1>1, <1>2, <2>2, <3>2, Zenon
    <2> QED BY <2>1, <2>2, Zenon
<1> QED BY <1>1, <1>2, <1>3, <1>4, Zenon

LEMMA ReadyStays ==
    ASSUME WorkerInv, FinReady, UNCHANGED fin,
           \A a \in Addrs : wpool[a].readyTx # NoTx => wpool'[a].readyTx = wpool[a].readyTx
    PROVE  FinReady'
<1>1. fin.tx # NoTx => From[fin.tx] \in Addrs
    BY TxAssumption, Zenon DEF WorkerInv, TypeOK, TxOrNil
<1> QED BY <1>1, Zenon DEF FinReady, IsReadyTx

\* The steps of the pool, the loader and the choice of a transaction.
LEMMA SyncOther ==
    ASSUME Expirable = {}, WorkerInv, QueueSide, ChainSide,
           \/ \E t \in Txs : AddTx(t) \/ Age(t) \/ LoadRejected(t) \/ ExpireUpdatePool(t) \/ SkipTx(t)
           \/ PoolUpdate \/ LoaderReadState \/ LoaderUpdatePool \/ GetNoTx \/ ExpireWorkerTxs \/ ReadOOGBalance
    PROVE  QueueSide' /\ ChainSide'
<1> USE TxAssumption
<1>1. ~ExpireWorkerTxs
    BY Zenon DEF QueueSide, ExpireWorkerTxs, ExpireTransactions
<1>2. /\ UNCHANGED <<wpool, found, wipState, dbState, processed, storing, pendingToStore>>
      /\ old' = {}
    BY <1>1, Zenon DEF AddTx, Age, LoadRejected, ExpireUpdatePool, SkipTx, PoolUpdate, LoaderReadState, LoaderUpdatePool,
           GetNoTx, ReadOOGBalance, QueueSide, workerVars, chainVars
<1>3. ChainSide'
    BY <1>2, ChainStays, Zenon
<1>4. LoaderSync'
    <2>1. CASE LoaderReadState
        <3>1. \/ loader' = [loader EXCEPT !.pc = "create", !.nonce = dbState[From[loader.tx]].nonce,
                                          !.balance = dbState[From[loader.tx]].balance]
              \/ loader' = [loader EXCEPT !.pc = "drop"]
            BY <2>1, Zenon DEF LoaderReadState
        <3> QED BY <1>2, <3>1, Zenon DEF LoaderSync, WorkerInv, TypeOK
    <2>2. CASE ~LoaderReadState
        <3>1. ASSUME NEW t \in Txs, LoadRejected(t) PROVE loader'.pc = "drop"
            BY <3>1, Zenon DEF LoadRejected, LoaderIdle
        <3>2. ASSUME LoaderUpdatePool PROVE loader'.pc = "idle"
            BY <3>2, Zenon DEF LoaderUpdatePool, LoaderIdle
        <3>3. loader' = loader \/ LoaderUpdatePool \/ \E t \in Txs : LoadRejected(t)
            BY <1>1, <2>2, Zenon DEF AddTx, Age, ExpireUpdatePool, SkipTx, PoolUpdate, GetNoTx, ReadOOGBalance
        <3> QED BY <1>2, <3>1, <3>2, <3>3, Zenon DEF QueueSide, LoaderSync
    <2> QED BY <2>1, <2>2, Zenon
<1>5. \/ fin' = fin
      \/ fin.pc \notin Window /\ fin'.pc = "idle"
      \/ fin.pc \in Window /\ fin'.pc \in Window /\ fin'.tx = fin.tx
    <2>1. ASSUME NEW t \in Txs, SkipTx(t) PROVE fin.pc \notin Window /\ fin'.pc = "idle"
        BY <2>1, Zenon DEF SkipTx, Executing, FinIdle, Window
    <2>2. ASSUME ReadOOGBalance PROVE fin.pc \in Window /\ fin'.pc \in Window /\ fin'.tx = fin.tx
        <3>1. fin.pc = "oog" /\ \E b : fin' = [fin EXCEPT !.pc = "moved", !.balance = b]
            BY <2>2, Zenon DEF ReadOOGBalance
        <3> QED BY <3>1, Zenon DEF Window, WorkerInv, TypeOK
    <2>3. fin' = fin \/ ReadOOGBalance \/ \E t \in Txs : SkipTx(t)
        BY <1>1, Zenon DEF AddTx, Age, LoadRejected, ExpireUpdatePool, PoolUpdate, LoaderReadState, LoaderUpdatePool, GetNoTx
    <2> QED BY <2>1, <2>2, <2>3, Zenon
<1>6. FinReady'
    <2>1. CASE fin' = fin
        BY <1>2, <2>1, Zenon DEF QueueSide, FinReady, IsReadyTx
    <2>2. CASE fin' # fin
        BY <1>5, <2>2, Zenon DEF FinReady, Window
    <2> QED BY <2>1, <2>2, Zenon
<1>7. \/ fin' = fin
      \/ fin.pc \notin Window /\ fin'.pc \notin Window
      \/ fin.pc \in Window /\ fin'.pc \in Window /\ fin'.tx = fin.tx
    BY <1>5, Zenon DEF Window
<1>8. /\ \A a \in found : wpool'[a].currentNonce = wpool[a].currentNonce
      /\ \A a \in found' \ found : wpool'[a].currentNonce = wipState[a].nonce
    BY <1>2, Zenon
<1>9. QueueSide'
    BY <1>2, <1>4, <1>6, <1>7, <1>8, QueueStays, Zenon
<1> QED BY <1>3, <1>9, Zenon

LEMMA SyncSelect ==
    ASSUME WorkerInv, QueueSide, ChainSide,
           \/ GetReorgedTx
           \/ \E tx \in TxOrNil, fits, ooc \in SUBSET txSortedList : GetBestFittingTx(tx, fits, ooc)
    PROVE  QueueSide' /\ ChainSide'
<1> USE TxAssumption
<1>1. /\ UNCHANGED <<wpool, found, wipState, dbState, processed, storing, pendingToStore, loader, old>>
      /\ fin.pc = "idle"
    BY Zenon DEF GetReorgedTx, GetBestFittingTx, chainVars
<1>2. ChainSide' /\ LoaderSync' /\ old' = {}
    BY <1>1, ChainStays, Zenon DEF QueueSide, LoaderSync
<1>3. FinReady' /\ fin'.pc \notin Window
    <2>1. CASE GetReorgedTx
        <3>1. PICK i \in DOMAIN reorgedTxs :
                 IsReadyTx(reorgedTxs[i]) /\ fin' = [FinIdle EXCEPT !.pc = "exec", !.tx = reorgedTxs[i]]
            BY <2>1, Zenon DEF GetReorgedTx
        <3>2. fin'.pc = "exec" /\ fin'.tx = reorgedTxs[i] /\ fin'.ooc = {}
            BY <3>1, Zenon DEF FinIdle
        <3> QED BY <1>1, <3>1, <3>2, Zenon DEF FinReady, IsReadyTx, Window
    <2>2. ASSUME NEW tx \in TxOrNil, NEW fits \in SUBSET txSortedList, NEW ooc \in SUBSET txSortedList,
                 GetBestFittingTx(tx, fits, ooc)
          PROVE  FinReady' /\ fin'.pc \notin Window
        <3>1. fin'.pc \in {"ooc", "exec", "idle"} /\ fin'.tx = tx /\ fin'.ooc = ooc
            BY <2>2, Zenon DEF GetBestFittingTx, FinIdle
        <3>2. tx # NoTx => tx \in fits /\ ooc \subseteq txSortedList \ fits
            BY <2>2, Zenon DEF GetBestFittingTx
        <3>3. tx # NoTx => tx \in ReadyTxs /\ tx \notin ooc
            BY <3>2, Zenon DEF WorkerInv, ReadyTxsListed
        <3>4. tx # NoTx => IsReadyTx(tx)
            BY <3>3 DEF ReadyTxs, IsReadyTx, WorkerInv, QueuesOK, QueueOK
        <3> QED BY <1>1, <3>1, <3>3, <3>4, Zenon DEF FinReady, IsReadyTx, Window
    <2> QED BY <2>1, <2>2, Zenon
<1>4. fin.pc \notin Window
    BY <1>1, Zenon DEF Window
<1> QED BY <1>1, <1>2, <1>3, <1>4, QueueStays, Zenon

\* The steps that add to a queue.
LEMMA SyncAdd ==
    ASSUME OneTxPerNonce, WorkerInv, QueueSide, ChainSide,
           LoaderCreateQueue \/ \E t \in Txs : LoadTx(t) \/ RestoreTx(t)
    PROVE  QueueSide' /\ ChainSide'
<1> USE TxAssumption
<1>1. UNCHANGED <<wipState, dbState, processed, storing, pendingToStore, fin, old>>
    BY Zenon DEF LoaderCreateQueue, LoadTx, RestoreTx, workerVars, chainVars
<1>2. ChainSide' /\ old' = {}
    BY <1>1, ChainStays, Zenon DEF QueueSide
<1>3. LoaderSync'
    <2>1. ASSUME NEW t \in Txs, LoadTx(t) PROVE loader'.pc # "create"
        <3>1. \E pc \in {"drop", "read", "done"} : loader'.pc = pc
            BY <2>1, Zenon DEF LoadTx, LoaderIdle
        <3> QED BY <3>1, Zenon
    <2>2. ASSUME LoaderCreateQueue PROVE loader'.pc # "create"
        BY <2>2, Zenon DEF LoaderCreateQueue, LoaderIdle
    <2>3. ASSUME NEW t \in Txs, RestoreTx(t) PROVE loader' = loader
        BY <2>3, Zenon DEF RestoreTx
    <2> QED BY <1>1, <2>1, <2>2, <2>3, Zenon DEF QueueSide, LoaderSync
<1>4. ASSUME UNCHANGED <<wpool, found>> PROVE QueueSide'
    <2>1. FinReady'
        BY <1>1, <1>4, ReadyStays, Zenon DEF QueueSide
    <2> QED BY <1>1, <1>2, <1>3, <1>4, <2>1, QueueStays, Zenon
<1>5. ASSUME NEW t \in Txs, NEW q \in AddrQueueType, QueueOK(From[t], q), AddToQueue(q, t),
             From[t] \in found => q = wpool[From[t]],
             From[t] \notin found => q.currentNonce = dbState[From[t]].nonce
      PROVE  QueueSide'
    <2>1. /\ \A a \in Addrs : wpool[a].readyTx # NoTx => wpool'[a].readyTx = wpool[a].readyTx
          /\ \A a \in found : wpool'[a].currentNonce = wpool[a].currentNonce
          /\ \A a \in found' \ found : wpool'[a].currentNonce = q.currentNonce /\ a = From[t]
        BY <1>5, AddSync, Zenon
    <2>2. FinReady'
        BY <1>1, <2>1, ReadyStays, Zenon DEF QueueSide
    <2>3. \A a \in found' \ found : wpool'[a].currentNonce = wipState[a].nonce
        <3>1. From[t] \notin found => dbState[From[t]].nonce = wipState[From[t]].nonce
            BY FreeAddress, Zenon
        <3> QED BY <1>5, <2>1, <3>1, Zenon
    <2> QED BY <1>1, <1>2, <1>3, <2>1, <2>2, <2>3, QueueStays, Zenon
<1>6. \A a \in Addrs : wpool[a] \in AddrQueueType /\ QueueOK(a, wpool[a])
    BY Zenon DEF WorkerInv, TypeOK, QueuesOK
<1>7. \A n, m \in Nat : newAddrQueue(n, m).currentNonce = n
    BY Zenon DEF newAddrQueue
<1>8. ASSUME NEW t \in Txs, LoadTx(t) PROVE QueueSide'
    <2>1. \/ UNCHANGED <<wpool, found>>
          \/ AddToQueue(wpool[From[t]], t) /\ From[t] \in found
        BY <1>8, Zenon DEF LoadTx, workerVars
    <2> QED BY <1>4, <1>5, <1>6, <2>1, Zenon
<1>9. ASSUME NEW t \in Txs, RestoreTx(t) PROVE QueueSide'
    <2> DEFINE new == newAddrQueue(dbState[From[t]].nonce, dbState[From[t]].balance)
    <2>1. \/ UNCHANGED <<wpool, found>>
          \/ AddToQueue(wpool[From[t]], t) /\ From[t] \in found
          \/ AddToQueue(new, t) /\ From[t] \notin found
        BY <1>9, Zenon DEF RestoreTx
    <2>2. dbState[From[t]].nonce \in Nat /\ dbState[From[t]].balance \in Nat
        BY Zenon DEF WorkerInv, TypeOK, States, Account
    <2>3. new \in AddrQueueType /\ QueueOK(From[t], new) /\ new.currentNonce = dbState[From[t]].nonce
        BY <1>7, <2>2, NewQueue, Zenon
    <2> HIDE DEF new
    <2> QED BY <1>4, <1>5, <1>6, <2>1, <2>3, Zenon
<1>10. CASE LoaderCreateQueue
    <2>1. loader.tx \in Txs /\ From[loader.tx] \notin found /\ loader.nonce = dbState[From[loader.tx]].nonce
        BY <1>10, Zenon DEF LoaderCreateQueue, WorkerInv, LoaderInv, QueueSide, LoaderSync
    <2>2. PICK tx \in Txs : tx = loader.tx
        BY <2>1, Zenon
    <2>3. loader.nonce \in Nat /\ loader.balance \in Nat
        BY Zenon DEF WorkerInv, TypeOK
    <2>4. PICK q \in AddrQueueType : q = newAddrQueue(loader.nonce, loader.balance)
        BY <2>2, <2>3, NewQueue, Zenon
    <2>5. AddToQueue(q, tx)
        BY <1>10, <2>2, <2>4, Zenon DEF LoaderCreateQueue
    <2>6. QueueOK(From[tx], q) /\ q.currentNonce = loader.nonce
        BY <1>7, <2>3, <2>4, NewQueue, Zenon
    <2>7. From[tx] \notin found /\ q.currentNonce = dbState[From[tx]].nonce
        BY <2>1, <2>2, <2>6, Zenon
    <2> QED BY <1>2, <1>5, <2>5, <2>6, <2>7, Zenon
<1> QED BY <1>2, <1>8, <1>9, <1>10, Zenon

\* The steps that take a transaction out of its queue.
LEMMA SyncDelete ==
    ASSUME WorkerInv, QueueSide, ChainSide,
           \E t \in Txs : \/ DiscardOOCTx(t) \/ InvalidateTx(t)
                          \/ \E s \in {"failed", "invalid"} : RejectTx(t, s)
    PROVE  QueueSide' /\ ChainSide'
<1> USE TxAssumption
<1>1. PICK t \in Txs : DiscardOOCTx(t) \/ InvalidateTx(t) \/ \E s \in {"failed", "invalid"} : RejectTx(t, s)
    BY Zenon
<1>2. /\ UNCHANGED <<found, wipState, dbState, processed, storing, pendingToStore, loader, old>>
      /\ DeleteTx(t)
    BY <1>1, Zenon DEF DiscardOOCTx, InvalidateTx, RejectTx, DeleteTx, chainVars
<1>3. ChainSide' /\ LoaderSync' /\ old' = {}
    BY <1>2, ChainStays, Zenon DEF QueueSide, LoaderSync
<1>4. wpool \in [Addrs -> AddrQueueType] /\ From[t] \in Addrs /\ found \subseteq Addrs
    BY Zenon DEF WorkerInv, TypeOK
<1>5. wpool' = [wpool EXCEPT ![From[t]] = deleteTx(wpool[From[t]], t)]
    BY <1>2, Zenon DEF DeleteTx, DeleteFromQueue, SetQueue
<1>6. \A a \in found : wpool'[a].currentNonce = wpool[a].currentNonce
    <2>1. deleteTx(wpool[From[t]], t).currentNonce = wpool[From[t]].currentNonce
        BY <1>4, QueueNonces, Zenon
    <2> QED BY <1>4, <1>5, <2>1, Zenon
<1>7. FinReady' /\ fin'.pc \notin Window /\ fin.pc \notin Window
    <2>1. CASE DiscardOOCTx(t)
        <3>1. fin.pc = "ooc" /\ t \in fin.ooc /\ fin'.tx = fin.tx /\ fin'.ooc = fin.ooc \ {t}
              /\ fin'.pc \in {"ooc", "exec", "idle"}
            BY <2>1, Zenon DEF DiscardOOCTx, WorkerInv, TypeOK
        <3>2. ASSUME fin.tx # NoTx PROVE wpool'[From[fin.tx]].readyTx = fin.tx /\ fin.tx \notin fin.ooc
            <4>1. wpool[From[fin.tx]].readyTx = fin.tx /\ fin.tx \notin fin.ooc
                BY <3>1, <3>2, Zenon DEF QueueSide, FinReady, IsReadyTx
            <4>2. fin.tx \in Txs /\ fin.tx # t
                BY <3>1, <3>2, <4>1, Zenon DEF WorkerInv, TypeOK, TxOrNil
            <4>3. wpool[From[t]].readyTx # t => deleteTx(wpool[From[t]], t).readyTx = wpool[From[t]].readyTx
                BY <1>4, Zenon DEF deleteTx, AddrQueueType
            <4> QED BY <1>4, <1>5, <4>1, <4>2, <4>3, Zenon
        <3> QED BY <3>1, <3>2, Zenon DEF FinReady, IsReadyTx, Window
    <2>2. CASE ~DiscardOOCTx(t)
        <3>1. fin.pc = "exec" /\ fin'.pc = "idle"
            BY <1>1, <2>2 DEF InvalidateTx, RejectTx, Executing, FinIdle
        <3> QED BY <3>1, Zenon DEF FinReady, Window
    <2> QED BY <2>1, <2>2, Zenon
<1> QED BY <1>2, <1>3, <1>6, <1>7, QueueStays, Zenon

\* The execution of the ready transaction of a queue: the transaction is neither
\* among the executed ones nor among those being stored.
LEMMA SyncExecute ==
    ASSUME WorkerInv, PlaceInv, QueueSide, ChainSide, NEW t \in Txs, NEW amount \in 0 .. Cost[t],
           NEW receiver \in Addrs, NEW outOfGas \in BOOLEAN, ExecuteTx(t, amount, receiver, outOfGas)
    PROVE  QueueSide' /\ ChainSide'
<1> USE TxAssumption
<1> DEFINE a == From[t]
           n == Len(processed)
           m == Len(pendingToStore)
           R == [tx : Txs, state : States]
           O == [op : {"select", "delete"}, tx : Txs]
<1>1. /\ a \in Addrs /\ wpool[a] \in AddrQueueType /\ found \subseteq Addrs
      /\ \A b \in Addrs : wipState[b].nonce \in Nat
      /\ pendingToStore \in Seq(Txs) /\ processed \in Seq(R)
      /\ storing \in Seq(O)
    BY Zenon DEF WorkerInv, TypeOK, States, Account
<1>2. fin.pc = "exec" /\ fin.tx = t /\ Nonce[t] = wipState[a].nonce
    BY Zenon DEF ExecuteTx, Executing, Executable
<1>3. fin'.pc \in Window /\ fin'.tx = t
    BY <1>2, Zenon DEF ExecuteTx, WorkerInv, TypeOK, Window
<1>4. wpool[a].readyTx = t /\ t \in getTransactions(wpool[a])
    BY <1>2, Zenon DEF QueueSide, FinReady, IsReadyTx, getTransactions
<1>5. /\ pendingToStore' = Append(pendingToStore, t)
      /\ processed' = Append(processed, [tx |-> t, state |-> wipState'])
      /\ UNCHANGED <<found, storing, dbState, loader, old>>
    BY <1>4, Zenon DEF ExecuteTx
<1>6. /\ wipState'[a].nonce = wipState[a].nonce + 1
      /\ \A b \in Addrs \ {a} : wipState'[b].nonce = wipState[b].nonce
      /\ \A b \in Addrs : wpool'[b].currentNonce = wpool[b].currentNonce
    BY ExecuteNonces
<1>7. QueueSide'
    <2>1. QueueSync'
        <3>1. SUFFICES ASSUME NEW b \in found
                       PROVE  \/ wpool'[b].currentNonce = wipState'[b].nonce
                              \/ fin'.pc \in Window /\ From[fin'.tx] = b
            BY <1>5, Zenon DEF QueueSync
        <3>2. b \in Addrs
            BY <1>1, Zenon
        <3>3. CASE b = a
            BY <1>3, <3>3, Zenon
        <3>4. CASE b # a
            <4>1. wpool[b].currentNonce = wipState[b].nonce
                BY <1>2, <3>1, Zenon DEF QueueSide, QueueSync, Window
            <4>2. wpool'[b].currentNonce = wpool[b].currentNonce
                BY <1>6, <3>2, Zenon
            <4>3. wipState'[b].nonce = wipState[b].nonce
                BY <1>6, <3>2, <3>4, Zenon
            <4> QED BY <4>1, <4>2, <4>3, Zenon
        <3> QED BY <3>3, <3>4, Zenon
    <2>2. FinReady' /\ LoaderSync' /\ old' = {}
        BY <1>3, <1>5, Zenon DEF QueueSide, FinReady, LoaderSync, Window
    <2> QED BY <2>1, <2>2, Zenon DEF QueueSide
<1>8. /\ n \in Nat /\ DOMAIN processed = 1 .. n /\ DOMAIN processed' = 1 .. (n + 1)
      /\ \A i \in 1 .. n : processed'[i] = processed[i] /\ processed[i].tx \in Txs
      /\ processed'[n + 1].tx = t /\ processed'[n + 1].state = wipState'
    <2>1. [tx |-> t, state |-> wipState'] \in R
        <3>1. WorkerInv'
            BY ExecuteTxStep
        <3> QED BY <3>1, Zenon DEF WorkerInv, TypeOK
    <2>2. \A i \in 1 .. n : processed[i] \in R
        BY <1>1, ElementOfSeq, Zenon
    <2>3. \A i \in 1 .. n : processed[i].tx \in Txs
        BY <2>2, Zenon
    <2> HIDE DEF R
    <2> QED BY <1>1, <1>5, <2>1, <2>3, AppendProperties, LenProperties
<1>9. /\ m \in Nat /\ DOMAIN pendingToStore = 1 .. m /\ DOMAIN pendingToStore' = 1 .. (m + 1)
      /\ \A i \in 1 .. m : pendingToStore'[i] = pendingToStore[i]
      /\ pendingToStore'[m + 1] = t
    BY <1>1, <1>5, AppendProperties, LenProperties
<1>10. \A i \in 1 .. m : pendingToStore[i] # t
    <2>1. \A i \in 1 .. m : Nonce[pendingToStore[i]] < wipState[From[pendingToStore[i]]].nonce
        BY <1>9, Zenon DEF PlaceInv, PendingPast
    <2> QED BY <1>1, <1>2, <2>1, SMTT(30)
<1>11. \A i \in 1 .. n : processed[i].tx # t
    BY <1>8, <1>9, <1>10 DEF ChainSide, ProcessedPending
<1> HIDE DEF n, m, R, O
<1>12. \A i \in 1 .. (n + 1) : i \in 1 .. n \/ i = n + 1
    BY <1>8
<1>13. ProcessedPending'
    <2>1. ASSUME NEW i \in 1 .. (n + 1)
          PROVE  \E j \in 1 .. (m + 1) : pendingToStore'[j] = processed'[i].tx
        <3>1. CASE i \in 1 .. n
            <4>1. PICK j \in 1 .. m : pendingToStore[j] = processed[i].tx
                BY <1>8, <1>9, <3>1, Zenon DEF ChainSide, ProcessedPending
            <4>2. j \in 1 .. (m + 1)
                BY <1>9
            <4> QED BY <1>8, <1>9, <3>1, <4>1, <4>2, Zenon
        <3>2. CASE i = n + 1
            <4>1. m + 1 \in 1 .. (m + 1)
                BY <1>9
            <4> QED BY <1>8, <1>9, <3>2, <4>1, Zenon
        <3> QED BY <1>12, <3>1, <3>2, Zenon
    <2>2. ASSUME NEW i \in 1 .. (n + 1), NEW j \in 1 .. (n + 1), processed'[i].tx = processed'[j].tx
          PROVE  i = j
        <3>1. CASE i \in 1 .. n /\ j \in 1 .. n
            BY <1>8, <2>2, <3>1, Zenon DEF ChainSide, ProcessedPending
        <3>2. CASE ~(i \in 1 .. n /\ j \in 1 .. n)
            BY <1>8, <1>11, <1>12, <2>2, <3>2, Zenon
        <3> QED BY <3>1, <3>2, Zenon
    <2> QED BY <1>8, <1>9, <2>1, <2>2, Zenon DEF ProcessedPending
<1>14. StoringPast'
    <2>1. SUFFICES ASSUME NEW i \in DOMAIN storing
                   PROVE  /\ Nonce[storing[i].tx] < wipState'[From[storing[i].tx]].nonce
                          /\ \A j \in 1 .. (n + 1) : processed'[j].tx # storing[i].tx
        BY <1>5, <1>8, Zenon DEF StoringPast
    <2> DEFINE u == storing[i].tx
    <2>2. /\ Nonce[u] < wipState[From[u]].nonce
          /\ \A j \in 1 .. n : processed[j].tx # u
        BY <1>8, Zenon DEF ChainSide, StoringPast
    <2>3. u \in Txs
        <3>1. DOMAIN storing = 1 .. Len(storing)
            BY <1>1, LenProperties, Zenon
        <3>2. storing[i] \in O
            BY <1>1, <3>1, ElementOfSeq, Zenon
        <3> QED BY <3>2, Zenon DEF O
    <2>4. From[u] \in Addrs /\ Nonce[u] \in Nat
        BY <2>3, Zenon
    <2> HIDE DEF u, a
    <2>5. u # t
        BY <1>1, <1>2, <2>2, <2>4 DEF a
    <2>6. Nonce[u] < wipState'[From[u]].nonce
        <3>1. CASE From[u] = a
            <4>1. wipState[a].nonce \in Nat /\ Nonce[u] < wipState[a].nonce
                BY <1>1, <2>2, <3>1, Zenon
            <4>2. Nonce[u] < wipState'[a].nonce
                BY <1>6, <2>4, <4>1
            <4> QED BY <3>1, <4>2, Zenon
        <3>2. CASE From[u] # a
            BY <1>6, <2>2, <2>4, <3>2, Zenon
        <3> QED BY <3>1, <3>2, Zenon
    <2>7. \A j \in 1 .. (n + 1) : processed'[j].tx # u
        BY <1>8, <1>12, <2>2, <2>5, Zenon
    <2> QED BY <2>6, <2>7, Zenon DEF u
<1>15. Chain'
    <2>1. ASSUME NEW s, NEW k, k < n + 1, StateAt(s, k)
          PROVE  \A b \in Addrs : (\A i \in 1 .. (n + 1) : i > k => From[processed'[i].tx] # b)
                                  => s[b].nonce = wipState'[b].nonce
        <3>1. SUFFICES ASSUME NEW b \in Addrs, \A i \in 1 .. (n + 1) : i > k => From[processed'[i].tx] # b
                       PROVE  s[b].nonce = wipState'[b].nonce
            BY Zenon
        <3>2. n + 1 \in 1 .. (n + 1) /\ n + 1 > k
            BY <1>8, <2>1
        <3>3. b # a
            BY <1>8, <3>1, <3>2, Zenon
        <3>4. \A i \in 1 .. n : i \in 1 .. (n + 1)
            BY <1>8
        <3>5. \A i \in 1 .. n : i > k => From[processed[i].tx] # b
            BY <1>8, <3>1, <3>4, Zenon
        <3> QED BY <1>6, <1>8, <2>1, <3>3, <3>5, Zenon DEF StateAt
    <2>2. StateAt(dbState, 0)'
        <3>1. StateAt(dbState, 0) /\ 0 < n + 1
            BY <1>8 DEF ChainSide, Chain
        <3>2. \A b \in Addrs : (\A i \in 1 .. (n + 1) : i > 0 => From[processed'[i].tx] # b)
                               => dbState[b].nonce = wipState'[b].nonce
            BY <2>1, <3>1, Zenon
        <3> QED BY <1>5, <1>8, <3>2, Zenon DEF StateAt
    <2>3. ASSUME NEW k \in 1 .. (n + 1) PROVE StateAt(processed[k].state, k)'
        <3>1. CASE k \in 1 .. n
            <4>1. StateAt(processed[k].state, k) /\ k < n + 1 /\ processed'[k].state = processed[k].state
                BY <1>8, <3>1 DEF ChainSide, Chain
            <4>2. \A b \in Addrs : (\A i \in 1 .. (n + 1) : i > k => From[processed'[i].tx] # b)
                                   => processed[k].state[b].nonce = wipState'[b].nonce
                BY <2>1, <4>1, Zenon
            <4> QED BY <1>8, <4>1, <4>2, Zenon DEF StateAt
        <3>2. CASE k = n + 1
            BY <1>8, <3>2, Zenon DEF StateAt
        <3> QED BY <1>12, <3>1, <3>2, Zenon
    <2> QED BY <1>8, <2>2, <2>3, Zenon DEF Chain
<1> QED BY <1>7, <1>13, <1>14, <1>15, Zenon DEF ChainSide

\* The queue of a transaction that is not executable, or was executed, is told
\* the nonce of the state.
LEMMA SyncUpdate ==
    ASSUME WorkerInv, PlaceInv, QueueSide, ChainSide,
           \/ UpdateAfterSingleSuccessfulTxExecution
           \/ \E t \in Txs, reported \in BOOLEAN : MoveTxToNotReady(t, reported)
    PROVE  QueueSide' /\ ChainSide'
<1>1. /\ UNCHANGED <<found, wipState, dbState, processed, storing, pendingToStore, loader, old>>
      /\ fin'.pc = "idle"
    <2>1. CASE UpdateAfterSingleSuccessfulTxExecution
        BY <2>1, Zenon DEF UpdateAfterSingleSuccessfulTxExecution, chainVars, FinIdle
    <2>2. ASSUME NEW t \in Txs, NEW reported \in BOOLEAN, MoveTxToNotReady(t, reported)
          PROVE  /\ UNCHANGED <<found, wipState, dbState, processed, storing, pendingToStore, loader, old>>
                 /\ fin'.pc = "idle"
        BY <2>2, Zenon DEF MoveTxToNotReady, chainVars, FinIdle
    <2> QED BY <2>1, <2>2, Zenon
<1>2. ChainSide' /\ FinReady' /\ LoaderSync' /\ old' = {}
    BY <1>1, ChainStays, Zenon DEF QueueSide, LoaderSync, FinReady
<1>3. found \subseteq Addrs
    BY Zenon DEF WorkerInv, TypeOK
<1>4. \A b \in found : wpool'[b].currentNonce = wipState[b].nonce
    <2>1. CASE UpdateAfterSingleSuccessfulTxExecution
        <3>1. fin.pc = "moved"
            BY <2>1, Zenon DEF UpdateAfterSingleSuccessfulTxExecution
        <3>2. From[fin.tx] \in fin.touched
            BY <3>1, Zenon DEF PlaceInv, SenderTouched
        <3>3. \A b \in found : b # From[fin.tx] => wpool[b].currentNonce = wipState[b].nonce
            BY Zenon DEF QueueSide, QueueSync
        <3>4. \A b \in Addrs : wpool'[b].currentNonce =
                  IF b = From[fin.tx] /\ b \in fin.touched \cap found THEN wipState[b].nonce
                  ELSE wpool[b].currentNonce
            BY <2>1, UpdateNonces, Zenon
        <3> QED BY <1>3, <3>2, <3>3, <3>4, Zenon
    <2>2. ASSUME NEW t \in Txs, NEW reported \in BOOLEAN, MoveTxToNotReady(t, reported)
          PROVE  \A b \in found : wpool'[b].currentNonce = wipState[b].nonce
        <3>1. fin.pc = "exec"
            BY <2>2, Zenon DEF MoveTxToNotReady, Executing
        <3>2. \A b \in found : wpool[b].currentNonce = wipState[b].nonce
            BY <3>1, Zenon DEF QueueSide, QueueSync, Window
        <3>3. \A b \in Addrs : wpool'[b].currentNonce \in {wpool[b].currentNonce, wipState[b].nonce}
            BY <2>2, NotReadyNonces, Zenon
        <3> QED BY <1>3, <3>2, <3>3, Zenon
    <2> QED BY <2>1, <2>2, Zenon
<1>5. QueueSync'
    BY <1>1, <1>4, Zenon DEF QueueSync
<1> QED BY <1>2, <1>5, Zenon DEF QueueSide

\* The commit of an L2 block: the chain of states starts at the stored one.
LEMMA SyncCommit ==
    ASSUME WorkerInv, PlaceInv, QueueSide, ChainSide, NEW n \in 1 .. Len(processed), CommitL2Block(n)
    PROVE  QueueSide' /\ ChainSide'
<1> USE TxAssumption
<1> DEFINE L == Len(processed)
           R == [tx : Txs, state : States]
<1>1. /\ UNCHANGED <<wpool, found, wipState, pendingToStore, loader, fin, old>>
      /\ dbState' = processed[n].state
      /\ storing' = [i \in 1 .. (2 * n) |-> IF i <= n THEN [op |-> "select", tx |-> processed[i].tx]
                                            ELSE [op |-> "delete", tx |-> processed[i - n].tx]]
      /\ processed' = SubSeq(processed, n + 1, L)
    BY Zenon DEF CommitL2Block, workerVars
<1>2. L \in Nat /\ n \in Nat /\ 1 <= n /\ n <= L /\ DOMAIN processed = 1 .. L /\ processed \in Seq(R)
    BY LenProperties DEF WorkerInv, TypeOK
<1>2a. n \in DOMAIN processed /\ StateAt(processed[n].state, n)
    BY <1>2, Zenon DEF ChainSide, Chain
<1>3. DOMAIN processed' = 1 .. (L - n) /\ \A i \in 1 .. (L - n) : processed'[i] = processed[n + i]
    <2>1. \A i \in 1 .. L : processed[i] \in R
        BY <1>2, ElementOfSeq, Zenon
    <2> HIDE DEF R, L
    <2>2. n + 1 \in Int /\ L \in Int /\ \A i \in (n + 1) .. L : processed[i] \in R
        BY <1>2, <2>1
    <2>3. /\ SubSeq(processed, n + 1, L) \in Seq(R)
          /\ Len(SubSeq(processed, n + 1, L)) = IF n + 1 <= L THEN L - (n + 1) + 1 ELSE 0
          /\ \A i \in 1 .. L - (n + 1) + 1 : SubSeq(processed, n + 1, L)[i] = processed[n + 1 + i - 1]
        BY <2>2, SubSeqProperties
    <2>4. L - (n + 1) + 1 = L - n /\ (n + 1 > L => L - n = 0) /\ \A i \in 1 .. (L - n) : n + 1 + i - 1 = n + i
        BY <1>2
    <2>5. Len(processed') = L - n /\ processed' \in Seq(R)
        BY <1>1, <1>2, <2>3, <2>4
    <2> QED BY <1>1, <2>3, <2>4, <2>5, LenProperties, Zenon
<1> HIDE DEF L, R
<1>4. \A i \in 1 .. (L - n) : n + i \in 1 .. L /\ n + i > n
    BY <1>2
<1>5. \A i \in 1 .. L : i > n => i - n \in 1 .. (L - n) /\ n + (i - n) = i
    BY <1>2
<1>6. ProcessedPending'
    <2>1. \A i \in 1 .. (L - n) : \E j \in DOMAIN pendingToStore' : pendingToStore'[j] = processed'[i].tx
        <3>1. ASSUME NEW i \in 1 .. (L - n)
              PROVE  \E j \in DOMAIN pendingToStore : pendingToStore[j] = processed'[i].tx
            <4>1. n + i \in DOMAIN processed /\ processed'[i] = processed[n + i]
                BY <1>2, <1>3, <1>4, Zenon
            <4> QED BY <4>1, Zenon DEF ChainSide, ProcessedPending
        <3> QED BY <1>1, <3>1, Zenon
    <2>2. ASSUME NEW i \in 1 .. (L - n), NEW j \in 1 .. (L - n), processed'[i].tx = processed'[j].tx PROVE i = j
        <3>1. n + i = n + j
            <4>1. n + i \in DOMAIN processed /\ n + j \in DOMAIN processed
                BY <1>2, <1>4, Zenon
            <4>2. processed[n + i].tx = processed[n + j].tx
                BY <1>3, <2>2, Zenon
            <4> QED BY <4>1, <4>2, Zenon DEF ChainSide, ProcessedPending
        <3> QED BY <1>2, <3>1
    <2> QED BY <1>3, <2>1, <2>2, Zenon DEF ProcessedPending
<1>7. StoringPast'
    <2>1. SUFFICES ASSUME NEW i \in 1 .. (2 * n)
                   PROVE  /\ Nonce[storing'[i].tx] < wipState[From[storing'[i].tx]].nonce
                          /\ \A j \in 1 .. (L - n) : processed'[j].tx # storing'[i].tx
        BY <1>1, <1>3, Zenon DEF StoringPast
    <2>2. PICK k \in 1 .. n : storing'[i].tx = processed[k].tx
        <3>1. CASE i <= n
            <4>1. i \in 1 .. n /\ storing'[i] = [op |-> "select", tx |-> processed[i].tx]
                BY <1>1, <1>2, <3>1
            <4> QED BY <4>1
        <3>2. CASE ~(i <= n)
            <4>1. i - n \in 1 .. n /\ storing'[i] = [op |-> "delete", tx |-> processed[i - n].tx]
                BY <1>1, <1>2, <3>2
            <4> QED BY <4>1
        <3> QED BY <3>1, <3>2, Zenon
    <2>3. k \in 1 .. L /\ \A j \in 1 .. (L - n) : n + j # k
        BY <1>2, <1>4
    <2>4. Nonce[processed[k].tx] < wipState[From[processed[k].tx]].nonce
        BY <1>2, <2>3, Zenon DEF ChainSide, ProcessedPending, PlaceInv, PendingPast
    <2>5. \A j \in 1 .. (L - n) : processed'[j].tx # processed[k].tx
        BY <1>2, <1>3, <1>4, <2>3, Zenon DEF ChainSide, ProcessedPending
    <2> QED BY <2>2, <2>4, <2>5, Zenon
<1>8. ASSUME NEW s, NEW k \in 0 .. (L - n), StateAt(s, n + k)
      PROVE  \A b \in Addrs : (\A i \in 1 .. (L - n) : i > k => From[processed'[i].tx] # b)
                              => s[b].nonce = wipState[b].nonce
    <2>1. SUFFICES ASSUME NEW b \in Addrs, \A i \in 1 .. (L - n) : i > k => From[processed'[i].tx] # b
                   PROVE  s[b].nonce = wipState[b].nonce
        BY Zenon
    <2>2. ASSUME NEW i \in 1 .. L, i > n + k PROVE From[processed[i].tx] # b
        <3>1. i > n /\ i - n > k
            BY <1>2, <2>2
        <3>2. i - n \in 1 .. (L - n) /\ processed'[i - n] = processed[i]
            BY <1>3, <1>5, <3>1, Zenon
        <3> QED BY <2>1, <3>1, <3>2, Zenon
    <2> QED BY <1>2, <1>8, <2>1, <2>2, Zenon DEF StateAt
<1>9. Chain'
    <2>1. StateAt(dbState, 0)'
        <3>1. StateAt(processed[n].state, n + 0) /\ 0 \in 0 .. (L - n)
            <4>1. n + 0 = n /\ 0 \in 0 .. (L - n)
                BY <1>2
            <4> QED BY <1>2a, <4>1, Zenon
        <3>2. \A b \in Addrs : (\A i \in 1 .. (L - n) : i > 0 => From[processed'[i].tx] # b)
                               => processed[n].state[b].nonce = wipState[b].nonce
            BY <1>8, <3>1, Zenon
        <3> QED BY <1>1, <1>3, <3>2, Zenon DEF StateAt
    <2>2. ASSUME NEW k \in 1 .. (L - n) PROVE StateAt(processed[k].state, k)'
        <3>1. StateAt(processed[n + k].state, n + k) /\ k \in 0 .. (L - n)
            <4>1. n + k \in DOMAIN processed /\ k \in 0 .. (L - n)
                BY <1>2, <1>4
            <4> QED BY <4>1, Zenon DEF ChainSide, Chain
        <3>2. \A b \in Addrs : (\A i \in 1 .. (L - n) : i > k => From[processed'[i].tx] # b)
                               => processed[n + k].state[b].nonce = wipState[b].nonce
            BY <1>8, <3>1, Zenon
        <3> QED BY <1>1, <1>3, <3>2, Zenon DEF StateAt
    <2> QED BY <1>3, <2>1, <2>2, Zenon DEF Chain
<1>10. QueueSide'
    <2>1. LoaderSync'
        <3>1. SUFFICES ASSUME loader.pc = "create"
                       PROVE  loader.nonce = dbState'[From[loader.tx]].nonce
            BY <1>1, Zenon DEF LoaderSync
        <3>2. loader.tx \in Txs /\ From[loader.tx] \notin found /\ loader.nonce = dbState[From[loader.tx]].nonce
            BY <3>1, Zenon DEF WorkerInv, LoaderInv, QueueSide, LoaderSync
        <3>3. PICK b \in Addrs \ found : b = From[loader.tx]
            BY <3>2, Zenon
        <3>4. dbState[b].nonce = wipState[b].nonce /\ \A i \in DOMAIN processed : From[processed[i].tx] # b
            BY FreeAddress, Zenon
        <3>5. processed[n].state[b].nonce = wipState[b].nonce
            BY <1>2a, <3>4, Zenon DEF StateAt
        <3> QED BY <1>1, <3>2, <3>3, <3>4, <3>5, Zenon
    <2>2. FinReady' /\ QueueSync' /\ old' = {}
        BY <1>1, Zenon DEF QueueSide, FinReady, IsReadyTx, QueueSync
    <2> QED BY <2>1, <2>2, Zenon DEF QueueSide
<1> QED BY <1>6, <1>7, <1>9, <1>10, Zenon DEF ChainSide

LEMMA RemoveTxKeeps ==
    ASSUME NEW s \in Seq(Txs), NEW t \in Txs, NEW i \in DOMAIN s, s[i] # t
    PROVE  \E j \in DOMAIN RemoveTx(s, t) : RemoveTx(s, t)[j] = s[i]
<1>1. Len(s) \in Nat /\ DOMAIN s = 1 .. Len(s)
    BY LenProperties, Zenon
<1>2. CASE t \notin Range(s)
    BY <1>2, Zenon DEF RemoveTx
<1>3. CASE t \in Range(s)
    <2> DEFINE k == CHOOSE j \in DOMAIN s : s[j] = t
               r == [j \in 1 .. (Len(s) - 1) |-> IF j < k THEN s[j] ELSE s[j + 1]]
               at == IF i < k THEN i ELSE i - 1
    <2>1. k \in 1 .. Len(s) /\ s[k] = t
        BY <1>1, <1>3, Zenon DEF Range
    <2>2. RemoveTx(s, t) = r
        BY <1>3, Zenon DEF RemoveTx
    <2> HIDE DEF k
    <2>3. i # k
        BY <2>1, Zenon
    <2>4. at \in 1 .. (Len(s) - 1) /\ (IF at < k THEN at ELSE at + 1) = i
        BY <1>1, <2>1, <2>3
    <2> HIDE DEF at
    <2>5. r[at] = s[i] /\ at \in DOMAIN r
        BY <2>4, Zenon
    <2> QED BY <2>2, <2>5, Zenon
<1> QED BY <1>2, <1>3, Zenon

\* The steps of the storage of a committed block: the executed transactions that
\* are not committed stay pending to store.
LEMMA SyncStore ==
    ASSUME WorkerInv, QueueSide, ChainSide, StoreSelect \/ StoreDelete
    PROVE  QueueSide' /\ ChainSide'
<1> USE TxAssumption
<1> DEFINE O == [op : {"select", "delete"}, tx : Txs]
           t == Head(storing).tx
<1>1. /\ UNCHANGED <<found, wipState, dbState, processed, loader, fin, old>>
      /\ storing # <<>> /\ storing' = Tail(storing)
    BY Zenon DEF StoreSelect, StoreDelete, workerVars
<1>2. storing \in Seq(O) /\ pendingToStore \in Seq(Txs) /\ wpool \in [Addrs -> AddrQueueType]
      /\ found \subseteq Addrs
    BY Zenon DEF WorkerInv, TypeOK
<1>3. /\ Len(storing) \in Nat /\ DOMAIN storing = 1 .. Len(storing) /\ Len(storing) >= 1
      /\ DOMAIN storing' = 1 .. (Len(storing) - 1)
      /\ \A i \in 1 .. (Len(storing) - 1) : storing'[i] = storing[i + 1]
      /\ t = storing[1].tx /\ t \in Txs
    <2> HIDE DEF O
    <2>1. Len(storing) \in Nat /\ DOMAIN storing = 1 .. Len(storing) /\ Len(storing) >= 1
        BY <1>1, <1>2, LenProperties, EmptySeq
    <2>2. Head(storing) \in O /\ Tail(storing) \in Seq(O) /\ Len(Tail(storing)) = Len(storing) - 1
          /\ \A i \in 1 .. Len(Tail(storing)) : Tail(storing)[i] = storing[i + 1]
        BY <1>1, <1>2, HeadTailProperties, Zenon
    <2>3. DOMAIN Tail(storing) = 1 .. (Len(storing) - 1)
        BY <2>2, LenProperties, Zenon
    <2>4. Head(storing) = storing[1]
        BY <1>1, <1>2
    <2> QED BY <1>1, <2>1, <2>2, <2>3, <2>4, Zenon DEF O
<1> HIDE DEF O, t
<1>4. StoringPast'
    <2>1. \A i \in 1 .. (Len(storing) - 1) : i + 1 \in 1 .. Len(storing)
        BY <1>3
    <2> QED BY <1>1, <1>3, <2>1 DEF ChainSide, StoringPast
<1>5. \A i \in DOMAIN processed : processed[i].tx # t
    <2>1. 1 \in DOMAIN storing
        BY <1>3
    <2> QED BY <1>3, <2>1, Zenon DEF ChainSide, StoringPast
<1>6. ProcessedPending'
    <2>1. CASE pendingToStore' = pendingToStore
        BY <1>1, <2>1, Zenon DEF ChainSide, ProcessedPending
    <2>2. CASE pendingToStore' = RemoveTx(pendingToStore, t)
        <3>1. ASSUME NEW i \in DOMAIN processed
              PROVE  \E j \in DOMAIN RemoveTx(pendingToStore, t) : RemoveTx(pendingToStore, t)[j] = processed[i].tx
            <4>1. PICK k \in DOMAIN pendingToStore : pendingToStore[k] = processed[i].tx
                BY Zenon DEF ChainSide, ProcessedPending
            <4>2. pendingToStore[k] # t
                BY <1>5, <4>1, Zenon
            <4>3. \E j \in DOMAIN RemoveTx(pendingToStore, t) : RemoveTx(pendingToStore, t)[j] = pendingToStore[k]
                BY <1>2, <1>3, <4>2, RemoveTxKeeps, Zenon
            <4> QED BY <4>1, <4>3, Zenon
        <3> QED BY <1>1, <2>2, <3>1, Zenon DEF ChainSide, ProcessedPending
    <2> QED BY <2>1, <2>2, Zenon DEF StoreSelect, StoreDelete, workerVars, t
<1>7. Chain'
    BY <1>1 DEF ChainSide, Chain, StateAt
<1>8. \A a \in Addrs : wpool'[a].currentNonce = wpool[a].currentNonce /\ wpool'[a].readyTx = wpool[a].readyTx
    <2>1. wpool' = wpool \/ wpool' = [wpool EXCEPT ![From[t]] = deletePendingTxToStore(wpool[From[t]], t)]
        BY Zenon DEF StoreSelect, StoreDelete, workerVars, SetQueue, t
    <2>2. From[t] \in Addrs /\ wpool[From[t]] \in AddrQueueType
        BY <1>2, <1>3, Zenon
    <2>3. /\ deletePendingTxToStore(wpool[From[t]], t).currentNonce = wpool[From[t]].currentNonce
          /\ deletePendingTxToStore(wpool[From[t]], t).readyTx = wpool[From[t]].readyTx
        BY <2>2, Zenon DEF deletePendingTxToStore, AddrQueueType
    <2> QED BY <1>2, <2>1, <2>2, <2>3, Zenon
<1>9. QueueSide'
    <2>1. FinReady'
        BY <1>1, <1>8, ReadyStays, Zenon DEF QueueSide
    <2>2. LoaderSync' /\ old' = {}
        BY <1>1, Zenon DEF QueueSide, LoaderSync
    <2>3. QueueSync'
        BY <1>1, <1>2, <1>8, Zenon DEF QueueSide, QueueSync
    <2> QED BY <2>1, <2>2, <2>3, Zenon DEF QueueSide
<1> QED BY <1>4, <1>6, <1>7, <1>9, Zenon DEF ChainSide

\* A reorg goes back to the stored state and recreates the queues of the senders
\* whose executed transactions it undoes; a crash goes back with no queue left.
LEMMA SyncBack ==
    ASSUME WorkerInv, QueueSide, ChainSide, RestoreTxsPendingToStore \/ Restart
    PROVE  QueueSide' /\ ChainSide'
<1>1. /\ wipState' = dbState /\ processed' = <<>> /\ storing' = <<>> /\ fin'.pc = "idle"
      /\ UNCHANGED <<dbState, old>>
    BY DEF RestoreTxsPendingToStore, StartRestore, CanRestore, Restart, FinIdle
<1>2. ChainSide'
    BY <1>1 DEF ChainSide, ProcessedPending, StoringPast, Chain, StateAt
<1>3. FinReady' /\ LoaderSync' /\ old' = {}
    <2>1. loader' = loader \/ loader'.pc = "idle"
        BY DEF RestoreTxsPendingToStore, StartRestore, Restart, LoaderIdle
    <2> QED BY <1>1, <2>1, Zenon DEF FinReady, LoaderSync, QueueSide
<1>4. QueueSync'
    <2>1. CASE Restart
        BY <2>1, Zenon DEF Restart, QueueSync
    <2>2. CASE RestoreTxsPendingToStore
        <3>1. SUFFICES ASSUME NEW a \in found' PROVE wpool'[a].currentNonce = dbState[a].nonce
            BY <1>1, Zenon DEF QueueSync
        <3>2. found' = found \ RestoredAddrs /\ fin.pc = "idle"
              /\ wpool' = [b \in Addrs |-> IF b \in RestoredAddrs THEN NoQueue ELSE wpool[b]]
            BY <2>2, Zenon DEF RestoreTxsPendingToStore, CanRestore
        <3>3. a \in found /\ a \in Addrs /\ a \notin RestoredAddrs
            BY <3>1, <3>2, Zenon DEF WorkerInv, TypeOK
        <3>4. wpool'[a].currentNonce = wipState[a].nonce
            BY <3>2, <3>3, Zenon DEF QueueSide, QueueSync, Window
        <3>5. \A i \in DOMAIN pendingToStore : From[pendingToStore[i]] # a
            BY <3>3, Zenon DEF RestoredAddrs, Range
        <3>6. \A i \in DOMAIN processed : From[processed[i].tx] # a
            BY <3>5, Zenon DEF ChainSide, ProcessedPending
        <3>7. dbState[a].nonce = wipState[a].nonce
            BY <3>3, <3>6, Zenon DEF ChainSide, Chain, StateAt
        <3> QED BY <3>4, <3>7, Zenon
    <2> QED BY <2>1, <2>2, Zenon
<1> QED BY <1>2, <1>3, <1>4, Zenon DEF QueueSide

LEMMA SyncNext ==
    ASSUME Expirable = {}, OneTxPerNonce, WorkerInv, PlaceInv, QueueSide, ChainSide, [Next]_vars
    PROVE  QueueSide' /\ ChainSide'
<1>1. CASE UNCHANGED vars
    <2>1. UNCHANGED <<wpool, found, fin, wipState, dbState, processed, storing, pendingToStore, loader, old>>
        BY <1>1, Zenon DEF vars, workerVars, chainVars
    <2>2. QueueSide'
        BY <2>1, Zenon DEF QueueSide, FinReady, IsReadyTx, QueueSync, LoaderSync
    <2> QED BY <2>1, <2>2, ChainStays, Zenon
<1>2. CASE \/ \E t \in Txs : AddTx(t) \/ Age(t)
           \/ PoolUpdate \/ LoaderStep \/ ExpireStep
    BY <1>2, SyncOther, SyncAdd, Zenon DEF LoaderStep, ExpireStep
<1>3. CASE SelectStep
    BY <1>3, SyncOther, SyncSelect, Zenon DEF SelectStep
<1>4. CASE ExecStep
    BY <1>4, SyncOther, SyncUpdate, SyncDelete, SyncExecute, Zenon DEF ExecStep
<1>5. CASE ReorgStep
    BY <1>5, SyncBack, SyncAdd, Zenon DEF ReorgStep
<1>6. CASE StoreStep
    BY <1>6, SyncStore, SyncCommit, Zenon DEF StoreStep
<1>7. CASE Restart
    BY <1>7, SyncBack, Zenon
<1> QED BY <1>1, <1>2, <1>3, <1>4, <1>5, <1>6, <1>7, Zenon DEF Next

LEMMA SyncInit == Init => QueueSide /\ ChainSide
<1> SUFFICES ASSUME Init PROVE QueueSide /\ ChainSide
    BY Zenon
<1>1. QueueSide
    BY Zenon DEF Init, QueueSide, FinReady, QueueSync, LoaderSync, FinIdle, LoaderIdle
<1>2. processed = <<>> /\ storing = <<>> /\ dbState = wipState
    BY Zenon DEF Init
<1> QED BY <1>1, <1>2 DEF ChainSide, ProcessedPending, StoringPast, Chain, StateAt

-----------------------------------------------------------------------------
(* The theorems.                                                           *)

\* The invariant holds in every reachable state.
THEOREM WorkerInvariant == Spec => []WorkerInv
    BY InitInv, NextInv, PTL DEF Spec

\* The types of the worker, the pool and the goroutines' local state are kept by
\* every interleaving of the handlers.
THEOREM WorkerTypeCorrect == Spec => []TypeOK
<1>1. WorkerInv => TypeOK
    BY Zenon DEF WorkerInv
<1> QED BY <1>1, WorkerInvariant, PTL

\* txSortedList is exactly the set of ready transactions: every add and delete of
\* addTxTracker, deleteTx, MoveTxToNotReady, applyAddressUpdate, ExpireTransactions
\* and RestoreTxsPendingToStore matches a change of some readyTx.
THEOREM SortedListHoldsReadyTxs == Spec => []ReadyTxsListed
<1>1. WorkerInv => ReadyTxsListed
    BY Zenon DEF WorkerInv
<1> QED BY <1>1, WorkerInvariant, PTL

\* What addTx and updateCurrentNonceBalance keep ready is executable at the nonce
\* and balance of its queue, and a queue has one not-ready transaction per nonce.
THEOREM ReadyTxsAreExecutable == Spec => []ReadyTxExecutable
    BY InvImplies, WorkerInvariant, PTL

\* The queue addTxTracker creates after the unlock never overwrites another.
THEOREM CreatedQueueIsNew == Spec => []NoQueueOverwritten
    BY InvImplies, WorkerInvariant, PTL

\* A transaction is in one place: in the queue of its sender or pending to store,
\* there once; only the one just executed may be in both until its queue is told
\* the new nonce, for every order of loads, resubmissions, expiries and reorgs
\* (MoveTxPendingToStore, DeleteTxPendingToStore, RestoreTxsPendingToStore).
THEOREM TxsInOnePlace == Spec => []OnePlace
<1>1. Init => PlaceInv
    BY DEF Init, PlaceInv, PendingPast, PendingOnce, SenderTouched, FinIdle
<1> QED BY <1>1, PlaceNext, PlaceImplies, WorkerInvariant, PTL DEF Spec

\* Between executions every queue is at the nonce the state of the batch in
\* progress has for its address, across reorgs, crashes and the storing of blocks
\* (AddTxTracker, MoveTxPendingToStore, RestoreTxsPendingToStore), when the
\* transactions of a sender differ in their nonces and none expires: a queue whose
\* transaction in execution is replaced or expires is not told of its execution.
THEOREM QueuesFollowState ==
    ASSUME Expirable = {}, OneTxPerNonce
    PROVE  Spec => []QueueNonceInSync
<1>1. Init => PlaceInv
    BY DEF Init, PlaceInv, PendingPast, PendingOnce, SenderTouched, FinIdle
<1>2. WorkerInv /\ PlaceInv /\ QueueSide /\ ChainSide /\ [Next]_vars => QueueSide' /\ ChainSide'
    BY SyncNext, Zenon
<1>3. QueueSide => QueueNonceInSync
    BY Zenon DEF QueueSide, QueueSync, QueueNonceInSync, Window
<1> QED BY <1>1, <1>2, <1>3, PlaceNext, SyncInit, WorkerInvariant, PTL DEF Spec
=============================================================================
