------------------------------ MODULE Finalizer ------------------------------
(***************************************************************************)
(* The L2 block pipeline of the sequencer (sequencer/finalizer.go,         *)
(* batch.go, l2block.go, forcedbatch.go).  Three goroutines work on three  *)
(* batches at once:                                                        *)
(*                                                                         *)
(*   finalizer   finalizeBatches: fills the wip (work in progress) L2      *)
(*               block and batch, on an intermediate state root            *)
(*   processor   processPendingL2Blocks: executes each closed L2 block as  *)
(*               a whole; the pip (process in progress) batch              *)
(*   storer      storePendingL2Blocks: commits each executed L2 block to   *)
(*               the state database; the sip (store in progress) batch     *)
(*                                                                         *)
(* together with the sanity checks of closed batches (a goroutine each),   *)
(* checkForcedBatches and restarts of the node.  A failed execution of a   *)
(* closed L2 block makes the finalizer throw away everything not stored    *)
(* and start again from the database (processL2BlockReorg).                *)
(*                                                                         *)
(* A state root is the sequence of what was executed to reach it: the      *)
(* numbers of L2 blocks and, negated, of forced batches.  Transactions are *)
(* abstracted to whether the wip L2 block has any (module Worker follows   *)
(* the transactions themselves), resources to the choices they decide, the *)
(* executor to the sequences it yields.  SequentialProcessL2Block is false *)
(* and SequentialBatchSanityCheck is false, as in config/default.go.       *)
(***************************************************************************)
EXTENDS Integers, Sequences, Functions

CONSTANTS
    MaxBlock,          \* the wip L2 block is closed only below this number
    MaxBatch,          \* the wip batch is closed only below this number
    MaxFailed,         \* bound on failed executions of closed L2 blocks
    MaxCrashes,        \* bound on crashes of the node
    MaxDBErrors,       \* bound on failed commits of finalizeSIPBatch and
                       \*   failed database calls of processForcedBatch
    MaxForced,         \* forced batches on L1
    HaltOnBatchNumber  \* the configuration value; 0 when unused

ASSUME FinalizerAssumption ==
    /\ MaxBlock \in Nat /\ MaxBatch \in Nat /\ MaxFailed \in Nat
    /\ MaxCrashes \in Nat /\ MaxDBErrors \in Nat /\ MaxForced \in Nat
    /\ HaltOnBatchNumber \in Nat

VARIABLES
    batches,              \* the Batch objects in memory, by batch number
    wipBatch,             \* f.wipBatch, f.pipBatch, f.sipBatch: the number of
    pipBatch,             \*   the batch each points to, or NoBatch
    sipBatch,
    wipL2Block,           \* f.wipL2Block, or NoBlock
    l2BlockCounter,       \* number of the last L2 block opened
    toProcess,            \* f.pendingL2BlocksToProcess and its WaitGroupCount
    processWG,
    toStore,              \* f.pendingL2BlocksToStore and its WaitGroupCount
    storeWG,
    l2BlockReorg,         \* f.l2BlockReorg, f.lastL2BlockWasReorg
    lastL2BlockWasReorg,
    fin, proc, store,     \* program counters and locals of the goroutines
    checks,               \* running batchSanityCheck goroutines
    nextForcedBatches,    \* f.nextForcedBatches, f.lastForcedBatchNum and
    lastForcedBatchNum,   \*   whether f.nextForcedBatchDeadline is set
    deadline,
    db,                   \* state database: the trusted batches, oldest first
    halted,               \* why the process is ending, or "no"
    budget

wipVars == <<batches, wipBatch, pipBatch, wipL2Block, l2BlockCounter>>
queueVars == <<toProcess, processWG, toStore, storeWG>>
reorgVars == <<l2BlockReorg, lastL2BlockWasReorg>>
forcedVars == <<nextForcedBatches, lastForcedBatchNum, deadline>>
dbVars == <<sipBatch, checks, db>>
vars == <<wipVars, queueVars, reorgVars, forcedVars, dbVars,
          fin, proc, store, halted, budget>>

NoBatch == 0
NoBlock == [num |-> 0]

-----------------------------------------------------------------------------
(* Data *)

\* openNewWIPBatch: the roots of a new Batch are all the root it starts from
OpenNewWIPBatch(root) ==
    [initialStateRoot |-> root, imStateRoot |-> root,
     finalStateRoot |-> root, countOfL2Blocks |-> 0]

\* the row of a batch: state.batch with the L2 blocks of its BatchL2Data
Row(num, root, blocks, wip, checked) ==
    [num |-> num, stateRoot |-> root, blocks |-> blocks,
     wip |-> wip, checked |-> checked]

\* The batch SetGenesis stores: closed, without L2 blocks and, by the default
\* of the column, checked.  Batches are numbered from 1 here.
Genesis == Row(1, <<>>, <<>>, FALSE, TRUE)

IsOpen(row) == row.wip

\* OpenBatch and OpenWIPBatch accept only the number after the last, and only
\* when the last batch is closed
MayOpen(d, num) == d[Len(d)].num + 1 = num /\ ~d[Len(d)].wip

\* mutant of LastTrustedForced: the last one read from L1 instead
LastSeenForced(d) == IF lastForcedBatchNum = 0 THEN 0 ELSE lastForcedBatchNum - 1

\* GetLastTrustedForcedBatchNumber
LastTrustedForced(d) ==
    LET forced == {k \in 1 .. MaxForced : \E i \in DOMAIN d : -k \in Range(d[i].blocks)}
    IN  IF forced = {} THEN 0 ELSE CHOOSE k \in forced : \A j \in forced : j <= k

\* CloseWIPBatch of the row of the batch numbered num
CloseWIPBatch(d, num) ==
    [i \in DOMAIN d |-> IF d[i].num = num THEN [d[i] EXCEPT !.wip = FALSE] ELSE d[i]]

\* mutant of AddL2Block: the L2 block is added before the others
AddL2BlockFirst(d, block) ==
    [i \in DOMAIN d |->
        IF d[i].num = block.batch
        THEN [d[i] EXCEPT !.blocks = <<block.num>> \o @, !.stateRoot = block.stateRoot]
        ELSE d[i]]

\* StoreL2Block and UpdateWIPBatch: the L2 block joins the data of its batch
AddL2Block(d, block) ==
    [i \in DOMAIN d |->
        IF d[i].num = block.batch
        THEN [d[i] EXCEPT !.blocks = Append(@, block.num), !.stateRoot = block.stateRoot]
        ELSE d[i]]

\* what batchSanityCheck is called with when the batch sip is closed
CheckOf(sip) ==
    [num |-> sip, initialStateRoot |-> batches[sip].initialStateRoot,
     expected |-> batches[sip].finalStateRoot]

\* does reprocessing the batch on that root give the expected one?
SanityCheckPasses(d, c) ==
    \A i \in DOMAIN d : d[i].num = c.num => c.initialStateRoot \o d[i].blocks = c.expected

\* UpdateBatchAsChecked
UpdateBatchAsChecked(d, num) ==
    [i \in DOMAIN d |-> IF d[i].num = num THEN [d[i] EXCEPT !.checked = TRUE] ELSE d[i]]

\* mutant of NoPendingL2Blocks: waits for the storer only
NothingToStore == storeWG = 0

\* waitPendingL2Blocks returns: only the finalizer adds to the first group,
\* so that group stays at zero while it waits for the second one
NoPendingL2Blocks == processWG = 0 /\ storeWG = 0

Halt(why) == halted' = IF halted = "no" THEN why ELSE halted
Goto(pc) == fin' = [fin EXCEPT !.pc = pc]

-----------------------------------------------------------------------------
(* Loading the wip batch from the database *)

\* setWIPBatch: the Batch for the row of an open batch
SetWIPBatch(row, prev) ==
    [initialStateRoot |-> prev.stateRoot, imStateRoot |-> row.stateRoot,
     finalStateRoot |-> row.stateRoot, countOfL2Blocks |-> Len(row.blocks)]

\* initWIPBatch on the rows d: goes on with the last batch if it is open.  The
\* L2 block is opened next (initWIPL2Block), then the finalizer goes on at ret.
InitWIPBatch(d, ret) ==
    LET row == d[Len(d)]
        num == IF IsOpen(row) THEN row.num ELSE row.num + 1
    IN  /\ wipBatch' = num
        /\ pipBatch' = IF IsOpen(row) THEN num ELSE NoBatch
        /\ sipBatch' = IF IsOpen(row) THEN num ELSE NoBatch
        /\ wipL2Block' = NoBlock
        /\ IF ~IsOpen(row) /\ num = HaltOnBatchNumber
           THEN Goto("keepHalting") /\ UNCHANGED batches
           ELSE /\ batches' = [batches EXCEPT ![num] =
                     IF IsOpen(row) THEN SetWIPBatch(row, d[Len(d) - 1])
                                    ELSE OpenNewWIPBatch(row.stateRoot)]
                /\ fin' = [fin EXCEPT !.pc = "open", !.ret = ret]

-----------------------------------------------------------------------------
(* The finalizer goroutine: finalizeBatches and what it calls.  fin.pc is  *)
(* where it is, fin.ret where finalizeBatches goes on after an L2 block or *)
(* a batch was finalized, fin.cont what follows closeWIPL2Block; num, root *)
(* and i are the locals of processForcedBatches.                           *)

\* mutant of CloseWIPL2Block: the L2 block is not counted
CloseWithoutCount(ret, cont) ==
    IF wipL2Block = NoBlock
    THEN Halt("panic: no wip L2 block") /\ Goto("halted") /\ UNCHANGED batches
    ELSE /\ fin' = [fin EXCEPT !.pc = "push", !.ret = ret, !.cont = cont]
         /\ UNCHANGED <<batches, halted>>

\* closeWIPL2Block up to its first wait.  Without a wip L2 block it
\* dereferences a nil pointer.
CloseWIPL2Block(ret, cont) ==
    IF wipL2Block = NoBlock
    THEN /\ Halt("panic: no wip L2 block") /\ Goto("halted")
         /\ UNCHANGED batches
    ELSE /\ batches' = [batches EXCEPT ![wipBatch].countOfL2Blocks = @ + 1]
         /\ fin' = [fin EXCEPT !.pc = "push", !.ret = ret, !.cont = cont]
         /\ UNCHANGED halted

\* finalizeWIPBatch closes the wip L2 block when it has transactions and
\* otherwise keeps it for the next batch
FinalizeWIPBatch ==
    /\ wipBatch < MaxBatch /\ l2BlockCounter < MaxBlock
    /\ IF wipL2Block.empty
       THEN /\ fin' = [fin EXCEPT !.pc = "newBatch", !.ret = "top"]
            /\ UNCHANGED <<batches, halted>>
       ELSE CloseWIPL2Block("top", "newBatch")

\* the top of the loop of finalizeBatches
CheckReorg ==
    /\ fin.pc = "top"
    /\ Goto(IF l2BlockReorg THEN "reorg" ELSE "timer")
    /\ UNCHANGED <<wipVars, queueVars, reorgVars, forcedVars, dbVars,
                   proc, store, halted, budget>>

\* L2BlockMaxDeltaTimestamp has not passed, or it has and finalizeWIPL2Block
\* closes the wip L2 block and opens the next one
CheckBlockTime ==
    /\ fin.pc = "timer"
    /\ \/ Goto("select") /\ UNCHANGED <<batches, halted>>
       \/ l2BlockCounter < MaxBlock /\ CloseWIPL2Block("select", "open")
    /\ UNCHANGED <<wipBatch, pipBatch, wipL2Block, l2BlockCounter, queueVars,
                   reorgVars, forcedVars, dbVars, proc, store, budget>>

\* GetBestFittingTx finds a transaction that is executed into the wip L2
\* block; or none, or one that is rejected; or there are transactions and
\* none fits in what the batch has left (for an empty batch these are
\* dropped instead and the error is ErrTransactionsListEmpty)
SelectTx ==
    /\ fin.pc = "select"
    /\ \/ wipL2Block' = [wipL2Block EXCEPT !.empty = FALSE]
          /\ Goto("check") /\ UNCHANGED <<batches, halted>>
       \/ Goto("check") /\ UNCHANGED <<wipL2Block, batches, halted>>
       \/ /\ batches[wipBatch].countOfL2Blocks > 0 \/ ~wipL2Block.empty
          /\ FinalizeWIPBatch
          /\ UNCHANGED wipL2Block
    /\ UNCHANGED <<wipBatch, pipBatch, l2BlockCounter, queueVars, reorgVars,
                   forcedVars, dbVars, proc, store, budget>>

\* haltFinalizer stops the loop; checkIfFinalizeBatch decides to go on or to
\* finalize the batch: it has transactions enough or few resources left, the
\* deadline of forced batches is reached, or it is old and not empty
CheckFinalizeBatch ==
    /\ fin.pc = "check"
    /\ \/ halted # "no" /\ Goto("halted") /\ UNCHANGED <<batches, halted>>
       \/ halted = "no" /\ Goto("top") /\ UNCHANGED <<batches, halted>>
       \/ /\ halted = "no"
          /\ \/ batches[wipBatch].countOfL2Blocks > 0
             \/ ~wipL2Block.empty
             \/ deadline
          /\ FinalizeWIPBatch
    /\ UNCHANGED <<wipBatch, pipBatch, wipL2Block, l2BlockCounter, queueVars,
                   reorgVars, forcedVars, dbVars, proc, store, budget>>

\* closeWIPL2Block, after the previous L2 block was processed: the L2 block
\* goes to the processor and, unless it is time to sync the state root, is
\* closed
PushL2Block ==
    /\ fin.pc = "push" /\ processWG = 0
    /\ toProcess' = Append(toProcess, wipL2Block)
    /\ processWG' = processWG + 1
    /\ \/ wipL2Block' = NoBlock /\ Goto(fin.cont)
       \/ UNCHANGED wipL2Block /\ Goto("sync")
    /\ UNCHANGED <<batches, wipBatch, pipBatch, l2BlockCounter, toStore, storeWG,
                   reorgVars, forcedVars, dbVars, proc, store, halted, budget>>

\* closeWIPL2Block when nextStateRootSync is reached: it waits until nothing
\* is pending and continues from the root of the processed L2 blocks.  Its
\* sanity check reads f.sipBatch, which may be nil.
SyncStateRoot ==
    /\ fin.pc = "sync" /\ NoPendingL2Blocks
    /\ IF sipBatch = NoBatch
         THEN Halt("panic: no sip batch") /\ Goto("halted") /\ UNCHANGED <<batches, wipL2Block>>
       ELSE IF /\ wipBatch # sipBatch
               /\ ~(l2BlockReorg /\ batches[wipBatch].countOfL2Blocks <= 2)
         THEN Halt("sip batch mismatch") /\ Goto("halted") /\ UNCHANGED <<batches, wipL2Block>>
       ELSE /\ batches' = [batches EXCEPT ![wipBatch].imStateRoot =
                              batches[wipBatch].finalStateRoot]
            /\ wipL2Block' = NoBlock
            /\ Goto(fin.cont)
            /\ UNCHANGED halted
    /\ UNCHANGED <<wipBatch, pipBatch, l2BlockCounter, queueVars, reorgVars,
                   forcedVars, dbVars, proc, store, budget>>

\* openNewWIPL2Block executes the empty L2 block on the intermediate root.
\* If its resources do not fit in what the wip batch has left it goes to a
\* new batch (an empty batch always has room for an empty L2 block).
OpenNewWIPL2Block ==
    /\ fin.pc = "open"
    /\ l2BlockCounter' = l2BlockCounter + 1
    /\ LET im == Append(batches[wipBatch].imStateRoot, l2BlockCounter')
           block(batch) == [num |-> l2BlockCounter', batch |-> batch, imStateRoot |-> im,
                            empty |-> TRUE, stateRoot |-> <<>>]
       IN  /\ batches' = [batches EXCEPT ![wipBatch].imStateRoot = im]
           /\ \/ wipL2Block' = block(wipBatch) /\ Goto(fin.ret)
              \/ /\ batches[wipBatch].countOfL2Blocks > 0
                 /\ wipBatch < MaxBatch /\ l2BlockCounter < MaxBlock
                 /\ wipL2Block' = block(NoBatch) /\ Goto("newBatch")
    /\ UNCHANGED <<wipBatch, pipBatch, queueVars, reorgVars, forcedVars, dbVars,
                   proc, store, halted, budget>>

\* closeAndOpenNewWIPBatch without forced batches: closeWIPBatch, then the
\* next batch starts from the intermediate root and takes over the wip L2
\* block if there is one
CloseAndOpenNewWIPBatch ==
    /\ fin.pc = "newBatch" /\ nextForcedBatches = <<>>
    /\ IF batches[wipBatch].countOfL2Blocks = 0
         THEN /\ Halt("empty wip batch") /\ Goto("halted")
              /\ UNCHANGED <<batches, wipBatch, wipL2Block>>
       ELSE IF wipBatch + 1 = HaltOnBatchNumber
         THEN Goto("haltOnBatch") /\ UNCHANGED <<batches, wipBatch, wipL2Block, halted>>
       ELSE /\ wipBatch' = wipBatch + 1
            /\ batches' = [batches EXCEPT ![wipBatch'] =
                              OpenNewWIPBatch(batches[wipBatch].imStateRoot)]
            /\ IF wipL2Block = NoBlock
               THEN Goto("open") /\ UNCHANGED wipL2Block
               ELSE Goto(fin.ret) /\ wipL2Block' = [wipL2Block EXCEPT !.batch = wipBatch']
            /\ UNCHANGED halted
    /\ UNCHANGED <<pipBatch, l2BlockCounter, queueVars, reorgVars, forcedVars,
                   dbVars, proc, store, budget>>

\* finalizeSIPBatch: closeSIPBatch (nil and empty batches halt the node), its
\* sanity check started in parallel, the commit
FinalizeSIPBatch ==
    /\ db' = CloseWIPBatch(db, sipBatch)
    /\ checks' = checks \cup {CheckOf(sipBatch)}

SIPBatchClosable == sipBatch # NoBatch /\ batches[sipBatch].countOfL2Blocks > 0

\* the end of closeAndOpenNewWIPBatch when the next batch is HaltOnBatchNumber
HaltOnBatch ==
    /\ fin.pc = "haltOnBatch" /\ NoPendingL2Blocks
    /\ IF SIPBatchClosable
       THEN /\ FinalizeSIPBatch /\ sipBatch' = NoBatch
            /\ Goto("keepHalting") /\ UNCHANGED halted
       ELSE /\ Halt("sip batch not closable") /\ Goto("halted") /\ UNCHANGED dbVars
    /\ UNCHANGED <<wipVars, queueVars, reorgVars, forcedVars, proc, store, budget>>

\* keepHalting never returns
KeepHalting ==
    /\ fin.pc = "keepHalting"
    /\ UNCHANGED vars

\* processL2BlockReorg: closes the sip batch if it is not the wip one, then
\* reloads the wip batch.  When the commit fails the error is only logged:
\* the loop goes on and comes back here.
ProcessL2BlockReorg ==
    /\ fin.pc = "reorg" /\ NoPendingL2Blocks
    /\ \/ /\ sipBatch = NoBatch \/ sipBatch = wipBatch
          /\ InitWIPBatch(db, "reorgDone")
          /\ UNCHANGED <<db, checks, halted, budget>>
       \/ /\ sipBatch # NoBatch /\ sipBatch # wipBatch
          /\ IF SIPBatchClosable
             THEN FinalizeSIPBatch /\ InitWIPBatch(db', "reorgDone") /\ UNCHANGED halted
             ELSE /\ Halt("sip batch not closable") /\ Goto("halted")
                  /\ UNCHANGED <<dbVars, wipBatch, pipBatch, wipL2Block, batches>>
          /\ UNCHANGED budget
       \/ /\ sipBatch # NoBatch /\ sipBatch # wipBatch
          /\ SIPBatchClosable
          /\ budget.dbErrors > 0
          /\ budget' = [budget EXCEPT !.dbErrors = @ - 1]
          /\ checks' = checks \cup {CheckOf(sipBatch)}
          /\ sipBatch' = NoBatch
          /\ Goto("timer")
          /\ UNCHANGED <<db, halted, wipBatch, pipBatch, wipL2Block, batches>>
    /\ UNCHANGED <<l2BlockCounter, queueVars, reorgVars, forcedVars, proc, store>>

\* the end of processL2BlockReorg
ReorgDone ==
    /\ fin.pc = "reorgDone"
    /\ l2BlockReorg' = FALSE
    /\ Goto("timer")
    /\ UNCHANGED <<wipVars, queueVars, lastL2BlockWasReorg, forcedVars, dbVars,
                   proc, store, halted, budget>>

-----------------------------------------------------------------------------
(* Forced batches *)

\* checkForcedBatches reads the forced batches of L1 up to the k-th: those
\* with enough confirmations by now
CheckForcedBatches ==
    /\ fin.pc # "forced"                          \* nextForcedBatchesMux
    /\ LET last == IF lastForcedBatchNum = 0 THEN LastTrustedForced(db)
                                             ELSE lastForcedBatchNum
       IN  \E k \in (last + 1) .. MaxForced :
              /\ nextForcedBatches' = nextForcedBatches \o [i \in 1 .. (k - last) |-> last + i]
              /\ lastForcedBatchNum' = k
              /\ deadline' = TRUE
    /\ UNCHANGED <<wipVars, queueVars, reorgVars, dbVars, fin, proc, store, halted, budget>>

\* closeAndOpenNewWIPBatch with forced batches closes the wip L2 block first
CloseForForcedBatches ==
    /\ fin.pc = "newBatch" /\ nextForcedBatches # <<>>
    /\ CloseWIPL2Block(fin.ret, "closeSip")
    /\ UNCHANGED <<wipBatch, pipBatch, wipL2Block, l2BlockCounter, queueVars,
                   reorgVars, forcedVars, dbVars, proc, store, budget>>

\* ... waits until nothing is pending, closes the sip batch and the wip batch
\* and starts processForcedBatches from the root of the sip batch
StartForcedBatches ==
    /\ fin.pc = "closeSip" /\ NoPendingL2Blocks
    /\ IF SIPBatchClosable
       THEN /\ FinalizeSIPBatch /\ sipBatch' = NoBatch
            /\ IF wipBatch + 1 = HaltOnBatchNumber
               THEN Goto("haltOnBatch") /\ UNCHANGED deadline
               ELSE /\ fin' = [fin EXCEPT !.pc = "forced", !.i = 1, !.num = wipBatch,
                                          !.root = batches[sipBatch].finalStateRoot]
                    /\ deadline' = FALSE
            /\ UNCHANGED halted
       ELSE /\ Halt("panic: no sip batch") /\ Goto("halted")
            /\ UNCHANGED <<dbVars, deadline>>
    /\ UNCHANGED <<wipVars, queueVars, reorgVars, nextForcedBatches, lastForcedBatchNum,
                   proc, store, budget>>

\* an iteration of processForcedBatches: a forced batch that is already in
\* the trusted state is skipped, otherwise the next one is executed on the
\* root of the last and committed (processForcedBatch), unless OpenBatch or
\* another call of the state fails: that ends the loop
ProcessForcedBatch ==
    /\ fin.pc = "forced" /\ fin.i <= Len(nextForcedBatches)
    /\ LET next == LastTrustedForced(db) + 1
           root == Append(fin.root, -next)
       IN  IF nextForcedBatches[fin.i] < next
           THEN fin' = [fin EXCEPT !.i = @ + 1] /\ UNCHANGED <<db, budget>>
           ELSE \/ /\ MayOpen(db, fin.num + 1)
                   /\ db' = Append(db, Row(fin.num + 1, root, <<-next>>, FALSE, TRUE))
                   /\ fin' = [fin EXCEPT !.i = @ + 1, !.num = @ + 1, !.root = root]
                   /\ UNCHANGED budget
                \/ /\ ~MayOpen(db, fin.num + 1)
                   /\ Goto("forcedFailed") /\ UNCHANGED <<db, budget>>
                \/ /\ budget.dbErrors > 0
                   /\ budget' = [budget EXCEPT !.dbErrors = @ - 1]
                   /\ Goto("forcedFailed") /\ UNCHANGED db
    /\ UNCHANGED <<wipVars, queueVars, reorgVars, forcedVars, sipBatch, checks,
                   proc, store, halted>>

\* after the last one, or an error, the next wip batch and its L2 block are
\* opened; after an error the forced batches stay for the next attempt
ForcedBatchesDone ==
    /\ \/ /\ fin.pc = "forced" /\ fin.i > Len(nextForcedBatches)
          /\ nextForcedBatches' = <<>>
       \/ fin.pc = "forcedFailed" /\ UNCHANGED nextForcedBatches
    /\ wipBatch' = fin.num + 1
    /\ batches' = [batches EXCEPT ![wipBatch'] = OpenNewWIPBatch(fin.root)]
    /\ fin' = [fin EXCEPT !.pc = "open", !.i = 0, !.num = 0, !.root = <<>>]
    /\ UNCHANGED <<pipBatch, wipL2Block, l2BlockCounter, queueVars, reorgVars, dbVars,
                   lastForcedBatchNum, deadline, proc, store, halted, budget>>

-----------------------------------------------------------------------------
(* The processor goroutine: processPendingL2Blocks and processL2Block *)

\* mutant of DiscardL2Block: the wait group is not told
DiscardWithoutDone ==
    /\ proc.pc = "idle" /\ toProcess # <<>> /\ l2BlockReorg
    /\ toProcess' = Tail(toProcess)
    /\ UNCHANGED <<wipVars, processWG, toStore, storeWG, reorgVars, forcedVars, dbVars,
                   fin, proc, store, halted, budget>>

\* during a reorg the processor empties its channel
DiscardL2Block ==
    /\ proc.pc = "idle" /\ toProcess # <<>> /\ l2BlockReorg
    /\ toProcess' = Tail(toProcess)
    /\ processWG' = processWG - 1
    /\ UNCHANGED <<wipVars, toStore, storeWG, reorgVars, forcedVars, dbVars,
                   fin, proc, store, halted, budget>>

\* mutant of PropagateRoot: the batch keeps the root it was opened with
NoPropagation(b) == batches

\* the Batch objects when the L2 block of batch b is processed: the first L2
\* block of another batch inherits the final root of the previous one
PropagateRoot(b) ==
    IF pipBatch # NoBatch /\ pipBatch # b
    THEN [batches EXCEPT ![b].initialStateRoot = batches[pipBatch].finalStateRoot,
                         ![b].finalStateRoot = batches[pipBatch].finalStateRoot]
    ELSE batches

\* mutant of MayProcess: l2BlockReorg is not looked at
MayProcessAnyway == proc.pc = "idle" /\ toProcess # <<>>

MayProcess == proc.pc = "idle" /\ toProcess # <<>> /\ ~l2BlockReorg

\* the L2 block is executed.  The failure is that of the executor, of a
\* sanity check of its response or of the resources left in the batch; a
\* second one in a row halts the node.
ProcessL2Block ==
    /\ MayProcess
    /\ toProcess' = Tail(toProcess)
    /\ LET block == Head(toProcess)
           b == block.batch
           root == Append(PropagateRoot(b)[b].finalStateRoot, block.num)
       IN  IF b = NoBatch
           THEN /\ Halt("panic: L2 block without batch")
                /\ proc' = [proc EXCEPT !.pc = "halted"]
                /\ UNCHANGED <<batches, pipBatch, reorgVars, budget>>
           ELSE /\ pipBatch' = b
                /\ \/ /\ batches' = [PropagateRoot(b) EXCEPT ![b].finalStateRoot = root]
                      /\ proc' = [pc |-> "toStore", block |-> [block EXCEPT !.stateRoot = root]]
                      /\ UNCHANGED <<reorgVars, halted, budget>>
                   \/ /\ budget.failed > 0
                      /\ budget' = [budget EXCEPT !.failed = @ - 1]
                      /\ batches' = PropagateRoot(b)
                      /\ IF lastL2BlockWasReorg
                         THEN /\ Halt("consecutive reorgs")
                              /\ proc' = [proc EXCEPT !.pc = "halted"]
                              /\ UNCHANGED reorgVars
                         ELSE /\ l2BlockReorg' = TRUE /\ lastL2BlockWasReorg' = TRUE
                              /\ proc' = [proc EXCEPT !.pc = "failed"]
                              /\ UNCHANGED halted
    /\ UNCHANGED <<wipBatch, wipL2Block, l2BlockCounter, processWG, toStore, storeWG,
                   forcedVars, dbVars, fin, store>>

\* the executed L2 block goes to the storer once the previous one is stored
PushToStore ==
    /\ proc.pc = "toStore" /\ storeWG = 0
    /\ toStore' = Append(toStore, proc.block)
    /\ storeWG' = storeWG + 1
    /\ lastL2BlockWasReorg' = FALSE
    /\ processWG' = processWG - 1
    /\ proc' = [pc |-> "idle", block |-> NoBlock]
    /\ UNCHANGED <<wipVars, toProcess, l2BlockReorg, forcedVars, dbVars,
                   fin, store, halted, budget>>

ProcessFailed ==
    /\ proc.pc = "failed"
    /\ processWG' = processWG - 1
    /\ proc' = [proc EXCEPT !.pc = "idle"]
    /\ UNCHANGED <<wipVars, toProcess, toStore, storeWG, reorgVars, forcedVars, dbVars,
                   fin, store, halted, budget>>

-----------------------------------------------------------------------------
(* The storer goroutine: storePendingL2Blocks and storeL2Block *)

\* one database transaction: closeSIPBatch and insertSIPBatch when the L2
\* block is the first of its batch, then the L2 block.  An error ends the
\* process.
StoreL2Block ==
    /\ store.pc = "idle" /\ toStore # <<>>
    /\ LET block == Head(toStore)
           b == block.batch
           rows == IF sipBatch = NoBatch THEN db ELSE CloseWIPBatch(db, sipBatch)
           new == Row(b, batches[b].initialStateRoot, <<>>, TRUE, FALSE)
       IN  IF sipBatch = b
             THEN /\ db' = AddL2Block(db, block)
                  /\ store' = [pc |-> "stored", block |-> block]
                  /\ UNCHANGED <<sipBatch, checks, halted>>
           ELSE IF ~MayOpen(rows, b) \/ (sipBatch # NoBatch /\ ~SIPBatchClosable)
             THEN /\ Halt("fatal: storing L2 block")
                  /\ store' = [store EXCEPT !.pc = "halted"]
                  /\ UNCHANGED dbVars
           ELSE /\ db' = AddL2Block(Append(rows, new), block)
                /\ checks' = IF sipBatch = NoBatch THEN checks
                                                   ELSE checks \cup {CheckOf(sipBatch)}
                /\ sipBatch' = b
                /\ store' = [pc |-> "stored", block |-> block]
                /\ UNCHANGED halted
    /\ toStore' = Tail(toStore)
    /\ UNCHANGED <<wipVars, toProcess, processWG, storeWG, reorgVars, forcedVars,
                   fin, proc, budget>>

\* after the commit: the pool, the data streamer and the worker are told
L2BlockStored ==
    /\ store.pc = "stored"
    /\ storeWG' = storeWG - 1
    /\ store' = [pc |-> "idle", block |-> NoBlock]
    /\ UNCHANGED <<wipVars, toProcess, processWG, toStore, reorgVars, forcedVars, dbVars,
                   fin, proc, halted, budget>>

-----------------------------------------------------------------------------
(* Sanity checks of closed batches, crashes and restarts *)

\* a goroutine of closeSIPBatch runs batchSanityCheck
BatchSanityCheck ==
    /\ \E c \in checks :
          /\ checks' = checks \ {c}
          /\ IF SanityCheckPasses(db, c)
             THEN db' = UpdateBatchAsChecked(db, c.num) /\ UNCHANGED halted
             ELSE Halt("sanity check") /\ UNCHANGED db
    /\ UNCHANGED <<wipVars, queueVars, reorgVars, forcedVars, sipBatch,
                   fin, proc, store, budget>>

\* processBatchesPendingtoCheck: the batches closed but not checked, each
\* reprocessed on the root of the one before it in this list
NotCheckedBatches == SelectSeq(db, LAMBDA r : ~r.wip /\ ~r.checked)

PendingCheck(i) ==
    [num |-> NotCheckedBatches[i].num,
     initialStateRoot |-> IF i = 1 THEN db[NotCheckedBatches[1].num - 1].stateRoot
                                   ELSE NotCheckedBatches[i - 1].stateRoot,
     expected |-> NotCheckedBatches[i].stateRoot]

\* positions in the list up to the first check that fails
ChecksPassed ==
    {i \in DOMAIN NotCheckedBatches :
        \A j \in 1 .. i : SanityCheckPasses(db, PendingCheck(j))}

\* numbers of L2 blocks that were not stored are not used any more
LastBlockNum ==
    LET nums == {0} \cup Range(db[Len(db)].stateRoot)
    IN  CHOOSE n \in nums : \A m \in nums : m <= n

\* the process ends, by a crash or by Halt, and starts again: what was in
\* memory is lost, the database is read
Restart ==
    /\ \/ halted # "no" /\ UNCHANGED budget
       \/ /\ halted = "no" /\ budget.crashes > 0
          /\ budget' = [budget EXCEPT !.crashes = @ - 1]
    /\ db' = [k \in DOMAIN db |->
                IF \E i \in ChecksPassed : NotCheckedBatches[i].num = db[k].num
                THEN [db[k] EXCEPT !.checked = TRUE] ELSE db[k]]
    /\ LET idle == [pc |-> "start", ret |-> "top", cont |-> "open", i |-> 0,
                    num |-> 0, root |-> <<>>]
       IN  /\ fin' = IF ChecksPassed = DOMAIN NotCheckedBatches
                     THEN idle ELSE [idle EXCEPT !.pc = "halted"]
           /\ halted' = IF ChecksPassed = DOMAIN NotCheckedBatches
                        THEN "no" ELSE "startup check"
           /\ l2BlockCounter' = LastBlockNum
    /\ batches' = [n \in DOMAIN batches |-> OpenNewWIPBatch(<<>>)]
    /\ wipBatch' = NoBatch /\ pipBatch' = NoBatch /\ sipBatch' = NoBatch
    /\ wipL2Block' = NoBlock
    /\ toProcess' = <<>> /\ processWG' = 0 /\ toStore' = <<>> /\ storeWG' = 0
    /\ l2BlockReorg' = FALSE /\ lastL2BlockWasReorg' = FALSE
    /\ proc' = [pc |-> "idle", block |-> NoBlock]
    /\ store' = [pc |-> "idle", block |-> NoBlock]
    /\ checks' = {}
    /\ nextForcedBatches' = <<>> /\ lastForcedBatchNum' = 0 /\ deadline' = FALSE

\* Start: initWIPBatch, then initWIPL2Block
Start ==
    /\ fin.pc = "start"
    /\ InitWIPBatch(db, "top")
    /\ UNCHANGED <<l2BlockCounter, queueVars, reorgVars, forcedVars, db, checks,
                   proc, store, halted, budget>>

-----------------------------------------------------------------------------
Init ==
    /\ batches = [n \in 1 .. (MaxBatch + MaxForced + 2) |-> OpenNewWIPBatch(<<>>)]
    /\ wipBatch = NoBatch /\ pipBatch = NoBatch /\ sipBatch = NoBatch
    /\ wipL2Block = NoBlock /\ l2BlockCounter = 0
    /\ toProcess = <<>> /\ processWG = 0 /\ toStore = <<>> /\ storeWG = 0
    /\ l2BlockReorg = FALSE /\ lastL2BlockWasReorg = FALSE
    /\ fin = [pc |-> "start", ret |-> "top", cont |-> "open", i |-> 0,
              num |-> 0, root |-> <<>>]
    /\ proc = [pc |-> "idle", block |-> NoBlock]
    /\ store = [pc |-> "idle", block |-> NoBlock]
    /\ checks = {}
    /\ nextForcedBatches = <<>> /\ lastForcedBatchNum = 0 /\ deadline = FALSE
    /\ db = <<Genesis>>
    /\ halted = "no"
    /\ budget = [failed |-> MaxFailed, crashes |-> MaxCrashes, dbErrors |-> MaxDBErrors]

\* Halt lets the other goroutines run for five seconds; a panic or a fatal
\* error ends them all
Ended == {"panic: no wip L2 block", "panic: no sip batch",
          "panic: L2 block without batch", "fatal: storing L2 block"}

FinalizerNext ==
    \/ CheckReorg \/ CheckBlockTime \/ SelectTx \/ CheckFinalizeBatch
    \/ PushL2Block \/ SyncStateRoot \/ OpenNewWIPL2Block
    \/ CloseAndOpenNewWIPBatch \/ HaltOnBatch \/ KeepHalting
    \/ ProcessL2BlockReorg \/ ReorgDone \/ Start
    \/ CloseForForcedBatches \/ StartForcedBatches
    \/ ProcessForcedBatch \/ ForcedBatchesDone

ProcessorNext == DiscardL2Block \/ ProcessL2Block \/ PushToStore \/ ProcessFailed
StorerNext == StoreL2Block \/ L2BlockStored

Next ==
    \/ /\ halted \notin Ended
       /\ \/ FinalizerNext \/ ProcessorNext \/ StorerNext
          \/ BatchSanityCheck \/ CheckForcedBatches
    \/ Restart

Spec == Init /\ [][Next]_vars

-----------------------------------------------------------------------------
(* Properties *)

Root == Seq(Int)
BatchNum == 0 .. (MaxBatch + MaxForced + 2)
BlockType ==
    [num : Nat \ {0}, batch : BatchNum, imStateRoot : Root, empty : BOOLEAN, stateRoot : Root]
BatchType ==
    [initialStateRoot : Root, imStateRoot : Root, finalStateRoot : Root, countOfL2Blocks : Nat]
RowType ==
    [num : BatchNum, stateRoot : Root, blocks : Root, wip : BOOLEAN, checked : BOOLEAN]
CheckType == [num : BatchNum, initialStateRoot : Root, expected : Root]

Batches == [BatchNum \ {0} -> BatchType]
FinalizerPoints ==
    {"start", "top", "timer", "select", "check", "push", "sync", "open", "newBatch", "haltOnBatch",
     "keepHalting", "reorg", "reorgDone", "closeSip", "forced", "forcedFailed", "halted"}
FinalizerType ==
    [pc : FinalizerPoints, ret : {"top", "select", "reorgDone"},
     cont : {"open", "newBatch", "closeSip"}, i : Nat, num : BatchNum, root : Root]
ProcessorType ==
    [pc : {"idle", "toStore", "failed", "halted"}, block : BlockType \cup {NoBlock}]
StorerType == [pc : {"idle", "stored", "halted"}, block : BlockType \cup {NoBlock}]
HaltReasons ==
    Ended \cup {"no", "empty wip batch", "sip batch not closable", "sip batch mismatch",
                "sanity check", "consecutive reorgs", "startup check"}
Budgets == [failed : Nat, crashes : Nat, dbErrors : Nat]

\* Types of the variables.
TypeOK ==
    /\ batches \in Batches
    /\ wipBatch \in BatchNum /\ pipBatch \in BatchNum /\ sipBatch \in BatchNum
    /\ wipL2Block \in BlockType \cup {NoBlock}
    /\ l2BlockCounter \in Nat
    /\ toProcess \in Seq(BlockType) /\ toStore \in Seq(BlockType)
    /\ processWG \in Nat /\ storeWG \in Nat
    /\ l2BlockReorg \in BOOLEAN /\ lastL2BlockWasReorg \in BOOLEAN
    /\ fin \in FinalizerType /\ proc \in ProcessorType /\ store \in StorerType
    /\ checks \subseteq CheckType
    /\ nextForcedBatches \in Seq(1 .. MaxForced) /\ lastForcedBatchNum \in 0 .. MaxForced
    /\ deadline \in BOOLEAN
    /\ db \in Seq(RowType)
    /\ halted \in HaltReasons
    /\ budget \in Budgets

\* the state root of the last L2 block in the database
StoredRoot == db[Len(db)].stateRoot

\* numbers of the closed L2 blocks that are not stored, oldest first
Pending ==
    LET nums(blocks) == [i \in DOMAIN blocks |-> blocks[i].num]
    IN  nums(toStore) \o (IF proc.pc = "toStore" THEN <<proc.block.num>> ELSE <<>>)
          \o nums(toProcess)

\* The trusted state is a chain: batch numbers are consecutive, only the last
\* batch is open, and each batch takes the state root of the previous one to
\* its own by exactly its L2 blocks (insertSIPBatch, closeSIPBatch and the
\* propagation of finalStateRoot in processL2Block).  The L2 blocks are stored
\* in the order in which the finalizer closed them, none twice, whatever reorgs
\* and restarts discarded in between; those of forced batches are negative.
BatchesChained ==
    /\ \A i \in 2 .. Len(db) :
          /\ db[i].num = db[i - 1].num + 1
          /\ ~db[i - 1].wip
          /\ db[i].stateRoot = db[i - 1].stateRoot \o db[i].blocks
    /\ \A k, l \in DOMAIN StoredRoot :
          k < l /\ StoredRoot[k] > 0 /\ StoredRoot[l] > 0 => StoredRoot[k] < StoredRoot[l]

\* Forced batches enter the trusted state in the order of L1, none twice and
\* none left out, across restarts and retries of processForcedBatches.
ForcedInOrder ==
    LET forced == {i \in DOMAIN db : \E f \in 1 .. MaxForced : db[i].blocks = <<-f>>}
    IN  /\ \A i, j \in forced : i < j => db[i].blocks[1] > db[j].blocks[1]
        /\ \A f \in 1 .. LastTrustedForced(db) : \E i \in forced : db[i].blocks = <<-f>>

\* An L2 block that was executed as a whole and is to be stored was executed on
\* the same state as its transactions were, one by one, by the finalizer: no
\* L2 block built on one that failed gets past the processor.
ExecutedWhereBuilt ==
    /\ \A i \in DOMAIN toStore : toStore[i].stateRoot = toStore[i].imStateRoot
    /\ proc.pc = "toStore" => proc.block.stateRoot = proc.block.imStateRoot

\* While no reorg is going on, the intermediate root on which the finalizer
\* executes transactions is the stored state followed by the closed L2 blocks
\* still pending and the wip L2 block.
IntermediateRootInSync ==
    fin.pc \in {"timer", "select", "check", "top"} /\ ~l2BlockReorg /\ halted = "no"
        => batches[wipBatch].imStateRoot = StoredRoot \o Pending \o <<wipL2Block.num>>

\* The node halts only for the failures it cannot go on from.  closeWIPBatch and
\* closeSIPBatch never meet an empty batch and the batch of an L2 block can be
\* inserted, whatever L2 blocks and commits fail and crashes come in between; the
\* sip batch that closeWIPL2Block reads when it syncs the state root is missing, or
\* is not the wip one, only in a reorg; and batchSanityCheck of a batch closed while
\* the node runs finds its root, unless a commit of finalizeSIPBatch has failed.
\* Said of nodes no forced batch has reached, and not of the checks made at the
\* start (StartupCheckSound).
SanityHaltsExplained ==
    /\ halted \notin {"empty wip batch", "sip batch not closable", "fatal: storing L2 block"}
    /\ halted \in {"panic: no sip batch", "sip batch mismatch"} => l2BlockReorg
    /\ halted = "sanity check" => budget.dbErrors < MaxDBErrors

\* What the rest of the node relies on: the trusted state only grows, by an L2
\* block at its end, by closing its last batch or by a forced batch.
Trusted == INSTANCE TrustedState WITH
    Items <- (-MaxForced) .. MaxBlock,
    state <- [i \in DOMAIN db |-> [num |-> db[i].num, items |-> db[i].blocks, open |-> db[i].wip]]

ImplementsTrustedState == Trusted!Spec

\* A node that stopped for HaltOnBatchNumber has stored what it closed: no batch
\* is open and nothing is pending, whatever reorg, forced batches or failed commit
\* came before (closeAndOpenNewWIPBatch, keepHalting).
StoppedClean ==
    fin.pc = "keepHalting" => (\A i \in DOMAIN db : ~db[i].wip) /\ Pending = <<>>

-----------------------------------------------------------------------------
(* Liveness.  The goroutines are loops that the Go scheduler keeps running;  *)
(* after Halt the process exits and its supervisor starts it again.          *)

FairSpec ==
    /\ Spec
    /\ WF_vars(halted \notin Ended /\ FinalizerNext)
    /\ WF_vars(halted \notin Ended /\ ProcessorNext)
    /\ WF_vars(halted \notin Ended /\ StorerNext)
    /\ WF_vars(halted # "no" /\ Restart)

\* The finalizer, the processor and the storer never wait for each other in a
\* circle: every L2 block reorg is worked off, and every closed L2 block leaves
\* the pipeline, stored or discarded.
PipelineDrains ==
    /\ l2BlockReorg ~> ~l2BlockReorg
    /\ \A n \in 1 .. MaxBlock : (n \in Range(Pending)) ~> (n \notin Range(Pending))

-----------------------------------------------------------------------------
(* What comments in the code say and the code does not do *)

\* processBatchesPendingtoCheck "performs a sanity check for batches closed but
\* pending to be checked": it does not halt on batches that are right.
StartupCheckSound == BatchesChained => halted # "startup check"

\* HaltOnBatchNumber: the sequencer stops "after it closes the batch equal to this
\* number" (sequencer/config.go:110).
HaltedAfterClosing ==
    fin.pc = "keepHalting" => \E i \in DOMAIN db : db[i].num = HaltOnBatchNumber /\ ~db[i].wip

\* closeSIPBatch: "Reprocess full batch as sanity check" (batch.go:408). The batches
\* the node itself built pass that check.
CheckedBatchFinal == halted # "sanity check"

\* closeWIPL2Block: "At this point f.sipBatch should be the same as the batch of the
\* last L2 block processed" (l2block.go:575), where only a reorg "just in the last
\* block" that is "the first one of the wipBatch" is an exception.
SIPBatchFollows == halted # "sip batch mismatch"
=============================================================================
