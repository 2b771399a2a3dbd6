# A TLA+ development of the X Layer node

This directory holds specifications, model-checking runs and proofs about the trusted node of this repository: a zkEVM
sequencer that executes L2 transactions, stores L2 blocks and batches in its state database, publishes them in a data
stream, sends sequences of batches to L1, aggregates proofs and follows L1 with a synchronizer. Every definition is
written from the Go code; `PROJECT.json` maps each of them to the lines it stands for.

## 1. Inventory of the system

| component | source | state | operations | hard behaviours |
|---|---|---|---|---|
| pool | `pool/`, `pool/pgpoolstorage` | `pool.transaction` rows: status, `is_wip` | AddTx, UpdateTxStatus, UpdateTxWIPStatus, MarkWIPTxsAsPending, GetNonWIPPendingTxs | updates come from four goroutines, synchronously or not; an upsert resets a row |
| worker | `sequencer/worker.go`, `addrqueue.go`, `txsorted_list.go` | one queue per sender, sorted list of ready transactions, pending to store, reorged, wip | AddTxTracker, GetBestFittingTx, UpdateAfterSingleSuccessfulTxExecution, MoveTxToNotReady, DeleteTx, MoveTxPendingToStore, DeleteTxPendingToStore, RestoreTxsPendingToStore, ExpireTransactions | four goroutines; the lock is released in the middle of AddTxTracker |
| finalizer | `sequencer/finalizer.go`, `batch.go`, `l2block.go` | work-, processing- and storing-in-progress batches, wip L2 block, two channels, pending count, reorg flag, flush ids | finalizeBatches, processTransaction, closeWIPL2Block/openNewWIPL2Block, finalizeWIPBatch, processL2Block, storeL2Block, processL2BlockReorg, Halt | three goroutines connected by channels; execution is done twice and may disagree; a batch is closed while blocks of it are in flight |
| forced batches | `sequencer/forcedbatch.go` | forced batches queue, deadline | checkForcedBatches, processForcedBatches | injected between two trusted batches; retried after failures; gaps in the queue |
| flush ids | `sequencer/finalizer.go` | last stored and pending flush id, condition variable | updateProverIdAndFlushId, updateFlushIDs, the wait of storeL2Block | condition variable shared by a poller and the storer |
| L1 info tree | `sequencer/finalizer.go`, `l1infotree/` | last valid L1 info tree index | checkL1InfoTreeUpdate, checkValidL1InfoRoot | first update gates the opening of the first L2 block |
| data stream | `sequencer/datastreamer.go`, `sequencer.go`, `state/datastream.go` | channel with its count, stream file | DSSendL2Block and the other sends, sendDataToStreamer, GenerateDataStreamFile | the buffer is bounded; entries are sent before the commit that makes them true; a crash leaves the file behind the state |
| sequence sender | `sequencesender/` | end of the last sequence | tryToSendSequenceXLayer, sanityCheck, getSequencesToSendXLayer | reads L1 and the database while both change; a sent sequence may fail on L1 |
| eth tx manager | `ethtxmanager/` | monitored transactions | Add, monitorTx, Result, ProcessPendingMonitoredTxs, Reorg | L1 reorgs, lost and repriced transactions, crash between two updates |
| aggregator | `aggregator/` | recursive proofs with locks, verifying flag, final proof channel | tryGenerateBatchProof, tryAggregateProofs, tryBuildFinalProof, sendFinalProof, handleMonitoredTxResult, cleanupLockedProofs | one goroutine per prover, proofs locked in the database across crashes |
| synchronizer | `synchronizer/` | last synced L1 block, L1 info tree and its cache | Sync, ProcessBlockRange, the event processors, checkReorg, resetState, checkFlushID | L1 changes between any two calls; transactions roll back under a cache |
| block checkers | `synchronizer/l1_check_block` | checked flags, last results | CheckBlockHash, launch, OnStart, CheckReorgWrapper | results of goroutines that may be about rows already replaced |
| parallel synchronization | `synchronizer/l1_parallel_sync` | ranges asked for, workers, filter, channels, consumer | Start, Reset, step of the producer, the consumer's two handlers | workers answer out of order and after resets; three goroutines keep their own position |
| state | `state/` | batches, L2 blocks, forced batches, virtual and verified batches, proofs | OpenBatch, CloseBatch, StoreL2Block, UpdateWIPBatch, ProcessForcedBatch, ResetTrustedState | database transactions of several components |
| data availability | `dataavailability/` | committee, backup | PostSequence, GetBatchL2Data | quorum of signatures, fallback between sources |
| gas price | `gasprice/` | suggested price | UpdateGasPriceAvg | cache |
| etherman, JSON-RPC, merkle tree client, executor client, config, cmd, db migrations, metrics, log, event, encoding, hex, tools, test | the directories of those names | | | I/O, encoding or start-up code |

### The interactions that matter

```
 user --AddTx--> pool --loadFromPool--> worker <--GetBestFittingTx-- finalizer --L2 block--> processor --> storer
                  ^                        ^  ^---- MoveTxPendingToStore ------+  ^                          |
                  |                        |                                      |  reorg flag               |
                  |                        +-------- DeleteTxPendingToStore ------+--------------------------+
                  +------------------------ selected ---------------------------------------------------------+
 state database --> sequence sender --> eth tx manager --> L1 --> synchronizer --> state database
 state database --> aggregator (provers) --> eth tx manager
```

### What must be right

* worker: the list the finalizer picks from is exactly what is ready; a transaction the pool believes to be in the worker
  is in it or on its way; nonces of the queues follow the executed state; nothing is executed twice or lost in a reorg.
* finalizer: L2 blocks are stored in order, once, in the batch they were opened in; a batch is closed after its last
  block is stored; the state a block is built on is the state stored before it; nothing built on a block that failed
  survives; the node does not wait on itself.
* forced batches: executed in order, once, between two closed batches.
* flush ids: a block is sent to the stream and acknowledged only when the prover has persisted its state.
* data stream: the stream is the stored L2 blocks, each once, in order, framed by their batches.
* sequence sender: the sequences sent are consecutive and closed batches, each sent once unless L1 refused it.
* eth tx manager: a transaction has at most one mined success, its owner hears of it, a reorg brings it back.
* aggregator: recursive proofs cover disjoint ranges, locked proofs are unlocked, one final proof at a time.
* synchronizer: the state equals what L1 says up to the last synced block, whatever the reorgs; a reorg cannot hide below
  a good block.

## 2. Plan

The order follows the path of a transaction, because a mistake early on this path is inherited by everything after it.

1. Sequencer core (done): worker with pool, loader, storer and expirer; search for the best transaction; pipeline of
   L2 blocks and batches with forced batches; flush ids. Abstract specification of the trusted state.
2. Data stream (done): channel, stream file, catching up at start.
3. L1 side (done): eth tx manager, sequence sender with the data committee over it, aggregator with several provers.
4. Synchronizer (done for blocks): sequential and parallel synchronization, background checkers, reset, flush id wait,
   L1 info tree.
5. Proofs (done for the worker, the flush ids, the search, the pipeline but for its state roots, the channel to the data
   stream and the aggregator; see 5). Still to do: `BatchesChained` of the pipeline, `BadBlocksLast` of the synchronizer.
6. Models still to do: the order and binary search of `txSortedList`, the L1 info tree gate of the finalizer, the event
   processors and the synchronization with a trusted node.

Bounds stay such that each run ends in a few minutes; a module that needs more is split at a channel or database table.

## 3. Modules

| module | models | state | actions |
|---|---|---|---|
| `AddrQueue` | `addrqueue.go` | none: operators on a queue record (nonce, balance, ready, not ready, pending to store) | |
| `Worker` | `worker.go` and its users in `sequencer.go`, `finalizer.go`, `l2block.go`; status rows of the pool | `wpool`, `txSortedList`, `pendingToStore`, `reorgedTxs`, `wipTx`, pool `status`/`isWIP`, what each goroutine has in hand | one per acquisition of `workerMutex` or database call |
| `MCWorker` | instances for TLC: which senders, nonces, prices and balances | | |
| `BestFitting` | the search of `GetBestFittingTx` | `foundAt`, `oocTxs`, index and program counter of each goroutine | loop test, candidate that fits or not, return |
| `Finalizer` | `finalizer.go`, `batch.go`, `l2block.go`, `forcedbatch.go`, the rows the state keeps of batches | wip, pip, sip batch; wip L2 block; channels and their wait groups; reorg flags; forced batches; rows `db`; running sanity checks | steps of the finalizer, the processor, the storer, a sanity check, the reader of forced batches, crash and restart |
| `TrustedState` | what the rest of the node may rely on: batches and L2 blocks only grow | `state` | new block, closing, forced batch |
| `FlushControl` | `updateFlushIDs`, `updateProverIdAndFlushId` and the waits of `storeL2Block` and `handleProcessForcedBatchResponse` | flush ids, two condition variables, what is committed and what is durable | executor, caller, storer, poller |
| `DataStream` | `datastreamer.go`, `sendDataToStreamer`, `GenerateDataStreamFile` | rows `db` and open transaction, what the storer still has to do, channel, count, stream file, the generator | test-and-send, count, commit; receive, count off, write; the steps of catching up; restart |
| `EthTxManager` | `ethtxmanager.go` with its rows; L1 with its mempool | `chain`, `mempool`, `synced`, rows `monitored`, running goroutines `mon` with their copy of a row | each call of L1 or the database made by `monitorTx`; mining, reverts, reorg, eviction, dearer gas; the synchronizer's reset |
| `SequenceSender` | `sequencesender_xlayer.go`, `sanityCheck`, `PostSequence`, over `EthTxManager` | `checked` batches, the goroutine `sender` | each read and write of its loop; a signature or refusal; crash |
| `Aggregator` | `aggregator.go`, `aggregator_xlayer.go`, `proof.go` | rows `proofs`, routines, `sendFinalProof`, `verifyingProof`, verifications `txs` | look-and-lock, proof made or failed, settlement, clean-ups, start |
| `Synchronizer` | `synchronizer.go`, `l1_check_block`, `block.go`, `l1infotree.go`, `StateTx` | `chain` and `finalized` of L1, rows `blocks`, `cache` of the tree, executor, call of `ProcessBlockRange`, `Sync`, checkers and their results | each call of L1 or the database |
| `L1ParallelSync` | `l1_parallel_sync`, over `Synchronizer` | producer with `syncStatus` and commands, workers, answers, filter, channel, consumer | each step of the producer's loop; each call of a worker; each message of the consumer; start and reset |
| `MCSequenceSender`, `MCAggregator`, `MCSynchronizer`, `MCL1ParallelSync` | instances for TLC: which faults meet in a behaviour | | |
| `WorkerProofs`, `BestFittingProofs`, `FlushProofs`, `DataStreamProofs`, `AggregatorProofs`; `FinalizerProofs`, `PipelineProofs` | theorems; the last two form one development about `Finalizer` | | |

`Worker`, `Finalizer` and `FlushControl` look at the same goroutines from three sides. In `Worker` a transaction is
followed and the pipeline is the sequence `processed` that may be stored or thrown away; in `Finalizer` an L2 block is
followed and its transactions are only present or absent; in `FlushControl` only what decides when to commit remains.
`GetBestFittingTx` of `Worker` takes what `BestFitting` shows of the search: the best priced transaction that fits.
`DataStream` is a fourth side of the storer: only what it sends and commits, and in which order.

`SequenceSender` extends `EthTxManager`, since the two goroutines share rows each of them overwrites as a whole; its
synchronizer is two actions, next block and reset. `L1ParallelSync` extends `Synchronizer` and replaces the sequential
reading of ranges: `Start`, `Iteration`, `CheckReorg` and `ResetState` are the same definitions.

Some abstractions that matter when reading the code beside them:

* A state root is the sequence of what was executed to reach it, so that equal roots mean equal histories.
* The executor is external. In `Worker` it is nonce and balance of the accounts; in `Finalizer` it appends to a root, or
  fails for a closed L2 block that had succeeded one transaction at a time, which is what starts a reorg.
* `Worker` treats the pool updates made by goroutines nobody waits for (`inflight`) as arriving at any later time.
* `Finalizer` models the failure of the commit in `finalizeSIPBatch` during a reorg and of the database in
  `processForcedBatch`; any other failing database call halts the node and is a crash.
* `SequentialProcessL2Block` and `SequentialBatchSanityCheck` are false, as in `config/default.go`.
* Faults of the environment have a kind. In the L1 models a behaviour shows each kind at most once and only together with
  the kinds of one element of `Scenarios`, which keeps apart faults whose handling does not meet in the code.
* A block of L1 is its number with the fork it belongs to. Two blocks of the same number on different forks are what a
  different hash is. An L1 info tree root is the sequence of its leaves.
* Reading a range of L1 (`GetRollupInfoByBlockRange`) is one step. The events come from one call of `FilterLogs`; every
  block and transaction after it is asked for by the hash in the logs, so that a reorg in between gives the old answer or
  an error (the fault `rpc`), and never a mix of two forks.
* The synchronizer does not know the prover id until its first `checkFlushID` (`exec` is `unknown`). From then on a
  restarted executor is noticed where the id is compared, and the process ends there. A row of `state.block` is inserted
  under its number, the primary key, and an insertion of a number already stored fails.
* `ForcedGas` of the sequence sender is the gas of a call whose estimation fails; with 0, as in the run, the call is not
  added then. The properties hold with either.
* Requests the parallel synchronization cancels in a reset are still in work until the worker notices (`WorkersStopped`).
* In `EthTxManager` a transaction is its range of batches, nonce and gas price; the contract accepts the range that
  starts after the last sequenced batch. Rows are written as a whole from a copy, as `Update` does.
* In `L1ParallelSync` a call of `ProcessBlockRange` is one step; its own steps are those of `Synchronizer`.
* `torn` in `DataStream` marks behaviours in which the stream got entries of a database transaction that was lost; the
  properties of the stream are about the others (see 6).

Each module states a `TypeOK`. Those of `Worker`, `BestFitting`, `FlushControl` and `Finalizer` are theorems; the others
document the variables and hold on the instances below.

Definitions called mutants stand before the definition they alter; they are used only to show that a property notices
the alteration.

## 4. Runs

| run | question |
|---|---|
| `worker_faults` | two transactions that compete for a nonce and one before them; rejections, expiry, failed reads, a reorg, a crash and a resubmission in any order: does the sorted list stay what is ready, is every transaction in one place, is a queue ever overwritten; in which ways is a transaction lost, and in which ways does one that is stored get another status than selected |
| `worker_reorg` | two senders, one funding the other, consecutive nonces, a reorg, a crash, a resubmission, failed reads, no expiry: do the nonces of the queues follow the state |
| `worker_live` | does every pending transaction leave that status |
| `best_fitting` | three goroutines, lists of up to five: is the first fitting transaction returned in every interleaving; can an empty batch be asked to close |
| `pipeline_reorg` | a failed execution, a failed commit and a crash at any point: is what is stored a chain, in order, executed where it was built, append-only (`ImplementsTrustedState`); for which causes does the node halt (`SanityHaltsExplained`); does every reorg end and every block leave the pipeline |
| `pipeline_forced` | two forced batches, a crash, a failed execution, a failed database call, and a configured stop: each forced batch once and in order; nothing half done at the stop |
| `flush` | four executions per executor, two restarts: durable before committed while the executor is up, nobody waits for a stored id, what the poller hears of is committed |
| `data_stream` | errors of the database and of the stream, a full channel, two crashes at any point: is the stream the stored blocks in order, are its batches framed, does the storer ever wait for room, does every block arrive |
| `sequence_sender` | reverts, evictions, dearer gas, failed calls, refused signatures, a crash, an L1 reorg: does the sender halt without a reorg, are batches sent twice, are unchecked ones sent, are confirmations awaited, does every batch get sequenced and seen |
| `aggregator` | two serial provers or one parallel prover, both settlements; failed proofs, a lost connection, a settlement given up, rows cleaned up too early, a crash: are batches in two proofs or in two hands, are verifications sent that L1 refuses, is everything verified |
| `synchronizer` | an L1 reorg at any moment with one other fault: can a reorg hide below a good block, do tree and cache agree with the database, are good blocks deleted, does the state become L1 |
| `l1_parallel_sync` | two workers, calls that fail, a failed processing, a crash or a reorg: does the producer wait for a range nobody asks for, are blocks passed over or stored twice; does everyone wait for everyone (deadlock) |

All hold. Section 6 lists what the code does in the cases the properties leave out, with the configurations
that show it.

### Bounds

* Worker: two or three transactions and two addresses. Two transactions of a sender are what replacement, gaps in the
  nonces and a lost successor need; a second sender is needed only to change the first one's balance. One crash, one
  resubmission and one reorg, in one behaviour and in any order, with reads of the state that fail at any time. `Faulty`
  and `Expirable` say which transactions may be rejected or expire. In `worker_faults` the first two may be rejected and
  one of the two that compete may expire, which is what meets replacement, a late pool update and a reorg; `worker_reorg`
  has neither expiry nor competing nonces, since both do break `QueueNonceInSync` (see 5).
* Pipeline: in `pipeline_reorg` `MaxBlock` 5 lets three L2 blocks of a batch be closed before the finalizer notices that the
  first one failed, and lets a batch grow after its commit failed; with 4 neither happens. `MaxBatch` 4 puts blocks of two
  batches in the channels at once and leaves a batch open at a restart. `pipeline_forced` needs batches rather than blocks:
  4 and 5. The safety properties of `pipeline_reorg` also hold with two failed executions and `MaxBatch` 5. The counters
  `MaxFailed`, `MaxCrashes`, `MaxDBErrors`, `MaxForced` bound the environment only.
* Flush ids: four executions let an id be older, equal or newer than what the poller read; two restarts let an id of the
  first executor meet one of the third.
* Data stream: three blocks in three batches, a channel of three (50 in the code) so that it fills within one batch, one
  batch per read (10000) so that catching up takes several reads, and two crashes, the second during the recovery.
* Sequence sender: two batches are a sequence of one followed by another, or one of two; one confirmation; two members
  of two, so that a refusal is one too many. The pairs of faults are those whose handling meets: a new nonce after a
  revert, a replacement, an eviction and a restart.
* Aggregator: a sequence of two batches and one of one give a proof inside a sequence, one of a whole sequence and one of
  both. A lock is lost, a proof fails, a settlement times out, once each.
* Synchronizer: a block before the genesis, the genesis and two blocks after it, each with or without events; one reorg
  of any depth down to the finalized block, together with one fault of another kind.
* Parallel synchronization: three blocks after the genesis in ranges of two; a channel of two, so that the producer
  blocks; blocks leave the unsafe area only when final.
* Best fitting: five transactions and three goroutines give strides of different lengths, and lists shorter than the
  number of goroutines.

Deadlock is checked in the pipeline, where the node always has a next step or is halted on purpose, and in the parallel
synchronization, whose loop never stops. The other models may stop: everything executed, nothing pending.

### Fairness

The goroutines are loops that only block on a lock, a channel, a wait group or a condition variable, so each gets weak fairness of its
steps. A crashed or halted process is started again by its supervisor (`Restart`), and the executor flushes what is pending (`Flush`).
L1 mines what is in its mempool and, in the synchronizer, grows up to its bound; provers answer or fail; rows locked by lost work
become old. Two actions get strong fairness because the loop passes them again and again while time alone decides: sending a
sequence that is not full (`GetSequences`), and looking for a final proof when no verification is running (`CanVerifyProof`).
No fairness is assumed for new transactions, failures, reorgs, expiry of a lifetime before it is over, or forced batches; `worker_live` assumes that
a transaction that may expire gets old, which time does.

## 5. Proofs

Every theorem is about the specification TLC runs, with any value of its constants that meets the named assumption of
the module (the constants are numbers, functions on transactions, sets of faults; sets that are counted are finite).
Where a theorem needs more, the hypothesis is written in it and explained here.

* `WorkerProofs`: `ReadyTxsListed`, `ReadyTxExecutable` and `NoQueueOverwritten` are invariants of `Worker`. None is
  inductive alone. `WorkerInv` adds that an address without a queue has no transaction anywhere, that a transaction
  pending to store has a queue, and that no transaction being restored has the sender whose queue the loader is about to
  create. These say why the lock may be released in `AddTxTracker`: besides the loader only a reorg creates queues, and
  only for senders that had one.
  * `TxsInOnePlace` (`OnePlace`): a transaction is in its sender's queue or pending to store, there once. `PlaceInv`
    gives the reason: the nonce of a pending transaction is below that of the state the finalizer builds on and, once
    told, below that of its queue, and both refuse such a transaction. Between `MoveTxPendingToStore` and
    `UpdateAfterSingleSuccessfulTxExecution` the queue is not told yet, and `OnePlace` allows both places there: a pool
    update made late by the expirer, two resubmissions and an execution after a reorg, when `wipTx` is nil, let the
    loader put the transaction just executed back into its queue, which drops it at that update.
  * `QueuesFollowState` (`QueueNonceInSync`), when no transaction expires and a sender has one transaction per nonce.
    Otherwise a transaction may be replaced or expire while it is executed, and its queue is not told of the execution.
    The invariant follows each state kept to go back to in a reorg: but for the senders of the transactions executed
    after it, it has the nonces of the current one.
* `BestFittingProofs`: for every number of goroutines, every list and every interleaving the search returns the first
  transaction that fits (`FirstFittingTxReturned`), and never asks to close an empty batch (`NoEmptyBatchClosed`).
  `Searched` says that nothing before `i[n]` in the stride of goroutine `n` fits and that a goroutine stops only at the
  end or behind a found transaction; the lemmas on remainders say that every index is in exactly one stride.
* `FlushProofs`: for every number of executions and restarts, no wakeup is lost on `storedFlushIDCond` (`NoLostWakeup`),
  and until the executor restarts everything committed is durable (`CommittedIsDurable`), from an invariant that follows
  the stored id through every place it is copied to.
* `DataStreamProofs`: the storer never waits for room in the channel (`StorerNeverWaits`), for every capacity: the count
  is the length of the channel but for the message being sent and the one being counted off.
* `AggregatorProofs`: no batch is in two rows of `state.proof`, no two provers work on one batch, and a verification on
  its way to L1 is the only one and is accepted, for every number of provers and list of sequences. `TableInv` ties the
  work of a goroutine to a row it has locked, or to batches that are verified and in no row; only the clean-up of rows
  still worked on breaks this bond, and the properties leave it out. `Settlements` says that a verification that is not
  done is the only one and is waited for, also by a restarted aggregator.
* `FinalizerProofs`: `BaseInv` is the control of the pipeline: rows numbered from 1 of which only the last may be open and is
  the one the storer works on, forced batches up to some number in order, wait groups that count what is in channels and
  in work (one each), nothing ahead of the wip batch, and what holds at each point of the finalizer. It gives `TypeOK`,
  `ForcedInOrder` and `StoppedClean`, none of which is inductive: a stop is clean because the finalizer has waited for
  both counts, and the counts are right whatever was discarded before.
* `PipelineProofs`: `NumInv` is about the numbers of L2 blocks: they grow from the database through storer, channels and
  processor to the wip L2 block, and every root the node may go on with after a reorg or a restart has the largest stored
  number in it. With it `PipelineImplementsTrustedState` holds: every step is one of the append-only `TrustedState` or leaves
  the stored batches as they are. The step that needs it is an L2 block stored after a restart or a reorg: that it is new.

Only model-checked:

* liveness: TLAPS proves no liveness under fairness and has no `ENABLED`;
* `NoOrphanTx` and `StoredTxSelected`, which relate the rows of the pool to updates that arrive at any later time, and need
  an invariant on all of these at once;
* the state roots of the pipeline (`BatchesChained`, `ExecutedWhereBuilt`, `IntermediateRootInSync`, `SanityHaltsExplained`):
  batches, channels and rows agree on them only outside a reorg, and with forced batches not at all (see 6);
* `StreamInOrder` and `BatchesFramed` of the data stream, which compare results of `FlattenSeq` and `SelectSeq`, that is,
  of recursive definitions. Induction over data is used once, in `FinalizerProofs` by a least counterexample (`LeastNat`), as
  the induction theorems of the library cannot be instantiated by the provers at hand;
* the safety properties of the sequence sender and of both synchronizations. They hold for the combinations of faults in
  `Scenarios`; a theorem about any combination would first have to say which ones the code handles, and some it does not
  (see 6). `L1ParallelSync` has a recursive operator (`Drain`) besides.

## 6. Where the code does something else than a comment says or a reader expects

### Shown by a configuration

Each configuration checks one property that the code violates; run it with `tlc -config <cfg> <module>`.

| configuration, module | property | what happens |
|---|---|---|
| `WorkerFindOrphan.cfg`, `MCWorker` | `NoTxLost` | `addrqueue.go:59`: a transaction of the current nonce overwrites a not-ready one of the same nonce without comparing prices and without returning it; it stays pending and in progress in the pool until a restart. The comment at 40 says that the replaced one is returned and "will be later set as failed in the pool". |
| `FinalizerFindStartup.cfg`, `Finalizer` | `StartupCheckSound` | `batch.go:61`: the check at start-up reprocesses each unchecked batch on the root of the previous unchecked one. Parallel checks finish out of order; after a crash that leaves 2 and 4 unchecked, 4 is checked on the root of 2 and a correct node halts at every start. |
| `FinalizerFindForcedRoot.cfg`, `Finalizer` | `BatchesChained` | `l2block.go:197`: after forced batches `pipBatch` is still the batch before them, whose root is propagated to the next batch; its root leaves the forced batches out. |
| `FinalizerFindHalt.cfg`, `Finalizer` | `HaltedAfterClosing` | `batch.go:274`: the node stops before the batch `HaltOnBatchNumber` is opened. The comment at `config.go:110` says that it stops "after it closes the batch equal to this number". |
| `FinalizerFindCommit.cfg`, `Finalizer` | `CheckedBatchFinal` | `batch.go:414`: the sanity check of a batch is started before its closing is committed. If that commit fails in a reorg, the error is logged, the batch stays open and grows, and its check, made on the root it had, halts the node (or marks as checked what it has not seen). |
| `FinalizerFindMismatch.cfg`, `Finalizer` | `SIPBatchFollows` | `l2block.go:578`: the exception for a reorg covers wip batches of at most two L2 blocks. The finalizer may close a third one before it looks at the reorg flag, and halts for the mismatch with the sip batch although nothing is wrong. |
| `FlushFindWakeup.cfg`, `FlushControl` | `EveryExecutionCommitted` | `finalizer.go:233`: the pending flush id is written and broadcast without the lock; both may fall between the poller's test and its wait. After a forced batch, before a configured stop or in a reorg nothing else is executed, and nobody wakes it. |
| `FlushFindRestart.cfg`, `FlushControl` | `FlushedBeforeCommit` | `finalizer.go:956`: the prover id is compared with a field that nothing assigns, a restart of the executor goes unnoticed, and blocks are committed that the executor has lost. |
| `L1ParallelSyncFindUnsafe.cfg`, `MCL1ParallelSync` | `BadBlocksLast` | `l1_syncstatus.go:330`: a block above the last one known on L1 gives an unsigned difference that wraps around, so it counts as safe, its range is asked for without the block before it, and a block of a new fork is stored on top of one of the old. The comment at 322 says "It returns if this block is beyond Finalized (so it could be reorg)". |

### Sequencer

* `addrqueue.go:230`: a ready transaction that lost its balance has the current nonce, and is deleted as failed, while
  the comment at 229 says that it goes back to the not-ready ones "if it has a valid nonce".
* `worker.go:437`: a reorged transaction leaves `reorgedTxs` when it is returned. If the finalizer skips it, the next one of its
  sender is not ready and is dropped from the list ("this shouldn't happen", line 439). As `wipTx` is nil meanwhile, it
  can also be replaced while it is being executed.
* `l2block.go:486`: a crash between the commit of an L2 block and the pool update makes the loader load stored
  transactions again and call them failed.
* `batch.go:254`: when forced batches are due and the wip L2 block has transactions, `finalizeWIPBatch` closes it and
  `closeAndOpenNewWIPBatch` closes it again: nil pointer.
* `l2block.go:578`: the state root sync compares with the sip batch, which is nil if the first L2 block since the start
  failed (`SanityHaltsExplained` allows it in a reorg only).
* `batch.go:278`: stopping at `HaltOnBatchNumber` after the only L2 block since the start failed runs into the case
  "this can't happen" of `closeSIPBatch`.
* `batch.go:157`: the L2 block that failed may be of the batch before the wip batch, not its first as the comment says.

### Data stream

* `datastreamer.go:113`: batch starts and ends, and the blocks of forced batches, are sent before their database
  transaction commits. After a failed commit, a crash or a halt on a full buffer the stream is ahead of the state (`torn`).
* Forced batches get no batch start or end while the node runs, only when the stream is caught up after a restart.
* `state/datastream.go:222`: after a crash between a batch's bookmark and its start, the bookmark is found and the start
  is never added. On resuming, blocks are indexed in a list from which the known ones were taken out, and
  the first time difference is taken from the wrong block.
* `sequencer.go:300` and below: errors after `StartAtomicOp` are assigned to a shadowing variable, so that the operation
  stays open, the next one fails, and the stream server is given up until a restart. An error of a transaction's entry
  only leaves that entry out.

### Sequence sender and eth tx manager

* `ethtxmanager.go:328`: if a repriced transaction is reverted, the one it replaced can never be mined, and the row waits
  for it for ever (`ReplacedAndReverted`).
* `ethtxmanager.go:644`: a result is set as done before the sender's handler waits for confirmations; a crash in between
  skips the wait. A reverted transaction in the history may be taken for the one that succeeded, from whose block
  the confirmations are counted (`sequencesender_xlayer.go:26`).
* The status failed is hardly ever set, since a failed receipt is returned as an error by the wait; a row that has it
  keeps `ProcessPendingMonitoredTxs` looping.
* After an L1 reorg: a row written back from an old copy loses the status `reorged`; two rows with the same nonce may
  block each other; a row that is done keeps its id, and the same sequence can never be added again; the sender may halt.

### Aggregator

* `aggregator.go:807`: a batch that is not profitable gives no batch and no error, and the caller reads its number: the
  process ends (part of `Crash`).
* `aggregator.go:387`: a prover that disconnects in the wait for the synchronizer leaves a goroutine that loops for ever,
  and its proof locked until the clean-up. An error of `GetBatchByNumber` (280) also leaves the lock.
* A stored proof that starts at or before the last verified batch is never found ready; it takes a settlement given up
  and mined after all to get there (`Straddles`).

### Synchronizer

* A crash after the blocks before the genesis are stored and before the genesis is: every start ends with
  `ErrStateNotSynchronized` (`HalfInitialized`).
* `synchronizer.go:1143`: the wait for the flush ignores the prover id; after a restart of the executor it may never end
  (`FlushLost`).
* `synchronizer.go:469`: an error that names no block is treated as a reorg at block 0, for ever (`BadBlockLost`).
* A result of a background checker may be about a row already replaced: good blocks are deleted and stored again
  (`GoodBlocksKept` allows it). `pre_check_l1block.go:91` logs "discard the reorg error" and returns it. The checked flag
  is set by number, and the finalized number is read after the blocks were.

### Parallel synchronization

* `synchronizer.go:937`: a reorg error of the consumer comes without a block, and the reset reads its number: the process
  ends (`ReorgErrorPanics`).
* `l1_syncstatus.go:59`: a reset leaves the ranges in error; `Start` may overwrite the status `reseting`; answers from
  before a reset are accepted if a range of the same bounds is being processed again.
* `l1_rollup_info_producer.go:380`: the command channel holds five commands; when it is full, the producer waits for
  itself, or `Sync` for the producer. The instance has room for all.

## 7. Not modelled

* Worker: `UpdateTxZKCounters`, `deleteOldPoolTxs`, the gas price of claim transactions, transactions of forced batches,
  the order kept by `txSortedList`.
* Finalizer: effective gas price, batch resources beyond the choices they lead to, the sequential modes, and
  `checkL1InfoTreeUpdate` (one goroutine that, at start, gates the first L2 block; if no valid root ever comes the node
  waits, `finalizer.go:378`).
* Data stream: entries of forks before Etrog, contents of the entries, the clients of the stream server.
* Sequence sender: the code without the X Layer changes (`tryToSendSequence`, `getSequencesToSend`), which this node does
  not call; calls that fail and only start the loop over.
* Eth tx manager: gas limits and prices beyond one rise, signing by a custodian.
* Aggregator: inputs and outputs of the provers, profitability.
* Synchronizer: what each event processor stores, as it depends on the contents of batches; the synchronization with a
  trusted node, which does the same for batches of a source that is trusted; in parallel mode the
  background checkers, which abort producer and consumer, and liveness, since the state space with fairness
  of eight goroutines does not end in minutes.
* State: execution, receipts, logs, queries. Data availability: reading data back, a query with a fallback.
* The parts listed as not modelled in `PROJECT.json`: I/O, encoding, generated code, configuration or queries only.
