----------------------------- MODULE AddrQueue -----------------------------
(***************************************************************************)
(* The queue of one sender address inside the sequencer's worker           *)
(* (sequencer/addrqueue.go).  A queue holds at most one ready transaction, *)
(* the one whose nonce is the account's current nonce and whose cost the   *)
(* account's balance covers, and the not-ready ones, one per nonce.        *)
(*                                                                         *)
(* The operations are pure operators that return a record with the new     *)
(* queue and what the Go method returns.  A transaction is a model value;  *)
(* NoTx stands for a nil *TxTracker.  notReadyTxs is a Go map from nonce   *)
(* to transaction: here it is a set of transactions and PutNotReady        *)
(* replaces the entry of the same nonce.                                   *)
(***************************************************************************)
EXTENDS Naturals, FiniteSets

CONSTANTS
    Txs,        \* transactions, identified by their hash
    Addrs,      \* sender addresses
    NoTx,       \* nil *TxTracker
    From,       \* sender of each transaction
    Nonce,      \* nonce of each transaction
    GasPrice,   \* gas price of each transaction
    Cost        \* value + gas * gas price of each transaction

ASSUME TxAssumption ==
    /\ NoTx \notin Txs
    /\ From \in [Txs -> Addrs]
    /\ Nonce \in [Txs -> Nat]
    /\ GasPrice \in [Txs -> Nat]
    /\ Cost \in [Txs -> Nat]

TxOrNil == Txs \cup {NoTx}

AddrQueueType ==
    [currentNonce : Nat, currentBalance : Nat, readyTx : TxOrNil,
     notReadyTxs : SUBSET Txs, pendingTxsToStore : SUBSET Txs]

newAddrQueue(nonce, balance) ==
    [currentNonce |-> nonce, currentBalance |-> balance, readyTx |-> NoTx,
     notReadyTxs |-> {}, pendingTxsToStore |-> {}]

AtNonce(txs, nonce) == {t \in txs : Nonce[t] = nonce}

PutNotReady(txs, tx) == (txs \ AtNonce(txs, Nonce[tx])) \cup {tx}

(***************************************************************************)
(* addTx: the outcome [queue, newReady, prevReady, replaced, dropped].     *)
(***************************************************************************)
Dropped(q) ==
    [queue |-> q, newReady |-> NoTx, prevReady |-> NoTx, replaced |-> NoTx,
     dropped |-> TRUE]

\* The transaction has the current nonce and wins against the ready one.
addAsReady(q, tx) ==
    LET affordable == Cost[tx] <= q.currentBalance
    IN  [queue |-> IF affordable
                   THEN [q EXCEPT !.readyTx = tx]
                   ELSE [q EXCEPT !.readyTx = NoTx,
                                  !.notReadyTxs = PutNotReady(@, tx)],
         newReady  |-> IF affordable THEN tx ELSE NoTx,
         prevReady |-> q.readyTx,
         replaced  |-> IF q.readyTx = tx THEN NoTx ELSE q.readyTx,
         dropped   |-> FALSE]

\* The transaction has a future nonce.
addAsNotReady(q, tx) ==
    LET same == AtNonce(q.notReadyTxs, Nonce[tx])
    IN  IF \A t \in same : GasPrice[tx] >= GasPrice[t]
        THEN [queue |-> [q EXCEPT !.notReadyTxs = PutNotReady(@, tx)],
              newReady  |-> NoTx,
              prevReady |-> NoTx,
              replaced  |-> IF same \ {tx} = {} THEN NoTx
                            ELSE CHOOSE t \in same \ {tx} : TRUE,
              dropped   |-> FALSE]
        ELSE Dropped(q)

addTx(q, tx) ==
    CASE Nonce[tx] < q.currentNonce -> Dropped(q)
      [] Nonce[tx] > q.currentNonce -> addAsNotReady(q, tx)
      [] Nonce[tx] = q.currentNonce ->
            IF q.readyTx = NoTx \/ GasPrice[tx] >= GasPrice[q.readyTx]
            THEN addAsReady(q, tx)
            ELSE Dropped(q)

(***************************************************************************)
(* deleteTx: it never promotes a not-ready transaction.                    *)
(***************************************************************************)
\* Mutant of deleteTx: only the not-ready transactions are searched.
deleteTxKeepsReady(q, tx) == [q EXCEPT !.notReadyTxs = @ \ {tx}]

deleteTx(q, tx) ==
    IF q.readyTx = tx
    THEN [q EXCEPT !.readyTx = NoTx]
    ELSE [q EXCEPT !.notReadyTxs = @ \ {tx}]

addPendingTxToStore(q, tx) == [q EXCEPT !.pendingTxsToStore = @ \cup {tx}]

deletePendingTxToStore(q, tx) == [q EXCEPT !.pendingTxsToStore = @ \ {tx}]

getTransactions(q) == q.notReadyTxs \cup ({q.readyTx} \ {NoTx})

\* Mutant of ExpireTransactions: the ready transaction never expires.
ExpireNotReadyOnly(q, old) ==
    [queue |-> [q EXCEPT !.notReadyTxs = @ \ old], expired |-> q.notReadyTxs \cap old]

\* The queue without the transactions of old, and the ready one if it went.
ExpireTransactions(q, old) ==
    [queue |-> [q EXCEPT !.notReadyTxs = @ \ old,
                         !.readyTx = IF @ \in old THEN NoTx ELSE @],
     expired |-> getTransactions(q) \cap old]

(***************************************************************************)
(* updateCurrentNonceBalance: a nil nonce (balance) in the code is the     *)
(* queue's own current value here, for which the code does the same.       *)
(***************************************************************************)
updateCurrentNonceBalance(q, nonce, balance) ==
    LET tooLow   == {t \in q.notReadyTxs : nonce # q.currentNonce /\ Nonce[t] < nonce}
        kept     == q.notReadyTxs \ tooLow
        keeps    == q.readyTx # NoTx => Nonce[q.readyTx] = nonce /\ Cost[q.readyTx] <= balance
        oldReady == IF keeps THEN NoTx ELSE q.readyTx
        ready    == IF keeps THEN q.readyTx ELSE NoTx
        promoted == {t \in AtNonce(kept, nonce) : ready = NoTx /\ Cost[t] <= balance}
        newReady == IF promoted = {} THEN ready ELSE CHOOSE t \in promoted : TRUE
        rest     == kept \ promoted
        demoted  == oldReady # NoTx /\ Nonce[oldReady] > nonce
    IN  [queue |-> [q EXCEPT !.currentNonce = nonce,
                             !.currentBalance = balance,
                             !.readyTx = newReady,
                             !.notReadyTxs = IF demoted THEN PutNotReady(rest, oldReady)
                                             ELSE rest],
         newReady  |-> newReady,
         prevReady |-> oldReady,
         toDelete  |-> tooLow \cup (IF demoted THEN {} ELSE {oldReady} \ {NoTx})]
=============================================================================
