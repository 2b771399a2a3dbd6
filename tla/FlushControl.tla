---------------------------- MODULE FlushControl ----------------------------
(***************************************************************************)
(* How the sequencer waits for the executor to make state durable          *)
(* (sequencer/finalizer.go, l2block.go, forcedbatch.go).  Every execution  *)
(* of an L2 block or forced batch gets a flush id; the executor flushes    *)
(* asynchronously and reports the id up to which it has stored.  The       *)
(* sequencer commits a block only when its id is stored.  Goroutines:      *)
(*                                                                         *)
(*   processor   executes L2 blocks, publishes their ids (updateFlushIDs)  *)
(*   finalizer   the same for forced batches, and waits for each           *)
(*   storer      waits on storedFlushIDCond, then commits the L2 block     *)
(*   poller      updateProverIdAndFlushId: asks the executor while ids are *)
(*               pending, waits on pendingFlushIDCond otherwise            *)
(*                                                                         *)
(* The writers of lastPendingFlushID do not hold the lock of the condition *)
(* the poller waits on, so testing and starting to wait are two steps.     *)
(***************************************************************************)
EXTENDS Integers

CONSTANTS
    MaxExecutions,   \* bound on executions since the executor started
    MaxRestarts      \* bound on restarts of the executor

ASSUME FlushAssumption == MaxExecutions \in Nat /\ MaxRestarts \in Nat

VARIABLES
    executor,            \* its id, its last flush id, the last one it stored
    durable,             \* what the executor has stored, over all restarts
    lastPendingFlushID,  \* f.lastPendingFlushID, f.storedFlushID
    storedFlushID,
    caller,              \* the processor or finalizer executing
    storer,
    poller,
    committed            \* what the sequencer has committed

vars == <<executor, durable, lastPendingFlushID, storedFlushID,
          caller, storer, poller, committed>>

\* the flush id of an execution; ids of different executors are unrelated
FlushID(prover, id) == [prover |-> prover, id |-> id]
NoFlushID == FlushID(0, 0)

-----------------------------------------------------------------------------
(* The executor *)

\* it stores some of what is pending
Flush ==
    /\ \E id \in (executor.stored + 1) .. executor.pending :
          /\ executor' = [executor EXCEPT !.stored = id]
          /\ durable' = durable \cup
                {FlushID(executor.prover, i) : i \in (executor.stored + 1) .. id}
    /\ UNCHANGED <<lastPendingFlushID, storedFlushID, caller, storer, poller, committed>>

\* it starts again: what was not stored is lost, ids start from zero
RestartExecutor ==
    /\ executor.prover <= MaxRestarts
    /\ executor' = [prover |-> executor.prover + 1, pending |-> 0, stored |-> 0]
    /\ UNCHANGED <<durable, lastPendingFlushID, storedFlushID, caller, storer,
                   poller, committed>>

-----------------------------------------------------------------------------
(* Executing and publishing flush ids *)

\* the processor executes an L2 block, or the finalizer, when nothing is
\* pending, a forced batch; the response has the flush id and the stored one
Execute ==
    /\ caller.pc = "idle" /\ executor.pending < MaxExecutions
    /\ executor' = [executor EXCEPT !.pending = @ + 1]
    /\ \E by \in {"processor", "finalizer"} :
          /\ by = "finalizer" => storer.pc = "idle"
          /\ caller' = [by |-> by, pc |-> "pending", newStored |-> executor.stored,
                        flush |-> FlushID(executor.prover, executor.pending + 1)]
    /\ UNCHANGED <<durable, lastPendingFlushID, storedFlushID, storer, poller, committed>>

\* updateFlushIDs: the pending id, without a lock
SetPendingFlushID ==
    /\ caller.pc = "pending"
    /\ IF caller.flush.id > lastPendingFlushID
       THEN /\ lastPendingFlushID' = caller.flush.id
            /\ caller' = [caller EXCEPT !.pc = "broadcast"]
       ELSE /\ caller' = [caller EXCEPT !.pc = "stored"]
            /\ UNCHANGED lastPendingFlushID
    /\ UNCHANGED <<executor, durable, storedFlushID, storer, poller, committed>>

\* mutant of BroadcastPending: the poller is not woken
BroadcastNobody ==
    /\ caller.pc = "broadcast"
    /\ caller' = [caller EXCEPT !.pc = "stored"]
    /\ UNCHANGED <<executor, durable, lastPendingFlushID, storedFlushID, storer,
                   poller, committed>>

\* pendingFlushIDCond.Broadcast wakes the poller if it is waiting by now
BroadcastPending ==
    /\ caller.pc = "broadcast"
    /\ poller' = IF poller.pc = "waiting" THEN [poller EXCEPT !.pc = "test"] ELSE poller
    /\ caller' = [caller EXCEPT !.pc = "stored"]
    /\ UNCHANGED <<executor, durable, lastPendingFlushID, storedFlushID, storer, committed>>

\* storedFlushIDCond.Broadcast
Wake(waiter) == IF waiter.pc = "waiting" THEN [waiter EXCEPT !.pc = "test"] ELSE waiter

\* updateFlushIDs: the stored id, under the lock.  The finalizer waits for its
\* batch itself, the processor has the L2 block to hand to the storer.
SetStoredFlushID ==
    /\ caller.pc = "stored"
    /\ IF caller.newStored > storedFlushID
       THEN storedFlushID' = caller.newStored /\ storer' = Wake(storer)
       ELSE UNCHANGED <<storedFlushID, storer>>
    /\ caller' = [caller EXCEPT !.pc = IF caller.by = "finalizer" THEN "test" ELSE "push"]
    /\ UNCHANGED <<executor, durable, lastPendingFlushID, poller, committed>>

-----------------------------------------------------------------------------
(* Waiting for the stored id and committing *)

Idle == [by |-> "processor", pc |-> "idle", newStored |-> 0, flush |-> NoFlushID]

\* addPendingL2BlockToStore, after the previous L2 block was stored
Push ==
    /\ caller.pc = "push" /\ storer.pc = "idle"
    /\ storer' = [pc |-> "test", flush |-> caller.flush]
    /\ caller' = Idle
    /\ UNCHANGED <<executor, durable, lastPendingFlushID, storedFlushID, poller, committed>>

\* mutant of IsFlushed: one id too early
AlmostFlushed(flush) == flush.id <= storedFlushID + 1

\* the condition that ends the wait on storedFlushIDCond
IsFlushed(flush) == flush.id <= storedFlushID

\* the storer tests and waits under the lock that every writer holds
StorerTest ==
    /\ storer.pc = "test"
    /\ storer' = [storer EXCEPT !.pc = IF IsFlushed(storer.flush) THEN "commit" ELSE "waiting"]
    /\ UNCHANGED <<executor, durable, lastPendingFlushID, storedFlushID, caller,
                   poller, committed>>

StoreL2Block ==
    /\ storer.pc = "commit"
    /\ committed' = committed \cup {storer.flush}
    /\ storer' = [pc |-> "idle", flush |-> NoFlushID]
    /\ UNCHANGED <<executor, durable, lastPendingFlushID, storedFlushID, caller, poller>>

\* handleProcessForcedBatchResponse: the same in the finalizer goroutine
ForcedBatchTest ==
    /\ caller.pc = "test"
    /\ caller' = [caller EXCEPT !.pc = IF IsFlushed(caller.flush) THEN "commit" ELSE "waiting"]
    /\ UNCHANGED <<executor, durable, lastPendingFlushID, storedFlushID, storer,
                   poller, committed>>

StoreForcedBatch ==
    /\ caller.pc = "commit"
    /\ committed' = committed \cup {caller.flush}
    /\ caller' = Idle
    /\ UNCHANGED <<executor, durable, lastPendingFlushID, storedFlushID, storer, poller>>

-----------------------------------------------------------------------------
(* The poller *)

\* "We are synced with the flush id": the test before the wait
PollerTest ==
    /\ poller.pc = "test"
    /\ poller' = [poller EXCEPT !.pc = IF storedFlushID >= lastPendingFlushID
                                       THEN "enter" ELSE "poll"]
    /\ UNCHANGED <<executor, durable, lastPendingFlushID, storedFlushID, caller,
                   storer, committed>>

\* pendingFlushIDCond.Wait: from here on a broadcast reaches the poller
PollerWait ==
    /\ poller.pc = "enter"
    /\ poller' = [poller EXCEPT !.pc = "waiting"]
    /\ UNCHANGED <<executor, durable, lastPendingFlushID, storedFlushID, caller,
                   storer, committed>>

\* checkIfProverRestarted: f.proverID is "" from the start and never assigned
ProverRestarted(prover) ==
    LET proverID == 0
    IN  proverID # 0 /\ proverID # prover

\* GetStoredFlushID; the same id as before is asked for again after a sleep
PollerAsk ==
    /\ poller.pc = "poll"
    /\ \/ /\ storedFlushID >= lastPendingFlushID
          /\ poller' = [poller EXCEPT !.pc = "test"]
       \/ /\ storedFlushID < lastPendingFlushID
          /\ executor.stored # storedFlushID
          /\ ~ProverRestarted(executor.prover)
          /\ poller' = [pc |-> "update", value |-> executor.stored]
    /\ UNCHANGED <<executor, durable, lastPendingFlushID, storedFlushID, caller,
                   storer, committed>>

\* mutant of PollerUpdate: the storer is not woken
PollerUpdateSilently ==
    /\ poller.pc = "update"
    /\ storedFlushID' = poller.value
    /\ poller' = [pc |-> IF storedFlushID' >= lastPendingFlushID THEN "test" ELSE "poll",
                  value |-> 0]
    /\ UNCHANGED <<executor, durable, lastPendingFlushID, storer, caller, committed>>

\* the id is stored and the waiting goroutines are woken, under the lock.  The
\* id may be older than the one updateFlushIDs has stored meanwhile.
PollerUpdate ==
    /\ poller.pc = "update"
    /\ storedFlushID' = poller.value
    /\ storer' = Wake(storer) /\ caller' = Wake(caller)
    /\ poller' = [pc |-> IF storedFlushID' >= lastPendingFlushID THEN "test" ELSE "poll",
                  value |-> 0]
    /\ UNCHANGED <<executor, durable, lastPendingFlushID, committed>>

-----------------------------------------------------------------------------
Init ==
    /\ executor = [prover |-> 1, pending |-> 0, stored |-> 0]
    /\ durable = {} /\ committed = {}
    /\ lastPendingFlushID = 0 /\ storedFlushID = 0
    /\ caller = Idle
    /\ storer = [pc |-> "idle", flush |-> NoFlushID]
    /\ poller = [pc |-> "test", value |-> 0]

CallerNext ==
    \/ SetPendingFlushID \/ BroadcastPending \/ SetStoredFlushID \/ Push
    \/ ForcedBatchTest \/ StoreForcedBatch
StorerNext == StorerTest \/ StoreL2Block
PollerNext == PollerTest \/ PollerWait \/ PollerAsk \/ PollerUpdate

Next ==
    \/ Execute \/ CallerNext \/ StorerNext \/ PollerNext
    \/ Flush \/ RestartExecutor

Spec == Init /\ [][Next]_vars

\* the goroutines run; the executor flushes what is pending; nothing makes
\* new transactions arrive
FairSpec ==
    /\ Spec
    /\ WF_vars(CallerNext) /\ WF_vars(StorerNext) /\ WF_vars(PollerNext)
    /\ WF_vars(Flush)

-----------------------------------------------------------------------------
(* Properties *)

FlushIDs == [prover : 0 .. (MaxRestarts + 1), id : 0 .. MaxExecutions]

\* Types of the variables.
TypeOK ==
    /\ executor \in [prover : 1 .. (MaxRestarts + 1), pending : 0 .. MaxExecutions,
                     stored : 0 .. MaxExecutions]
    /\ durable \subseteq FlushIDs /\ committed \subseteq FlushIDs
    /\ lastPendingFlushID \in 0 .. MaxExecutions /\ storedFlushID \in 0 .. MaxExecutions
    /\ caller \in [by : {"processor", "finalizer"},
                   pc : {"idle", "pending", "broadcast", "stored", "push", "test",
                         "waiting", "commit"},
                   newStored : 0 .. MaxExecutions, flush : FlushIDs]
    /\ storer \in [pc : {"idle", "test", "waiting", "commit"}, flush : FlushIDs]
    /\ poller \in [pc : {"test", "enter", "waiting", "poll", "update"},
                   value : 0 .. MaxExecutions]

\* As long as the executor has not restarted, the state of whatever the
\* sequencer commits is stored by the executor (the waits of storeL2Block and
\* handleProcessForcedBatchResponse), although storedFlushID is written by two
\* goroutines and may go back.
DurableBeforeCommit == executor.prover = 1 => committed \subseteq durable

\* No wakeup is lost on storedFlushIDCond: whoever waits for a flush id waits
\* only while that id is not stored, across restarts of the executor and ids
\* that go back.
NobodyWaitsForStored ==
    /\ storer.pc = "waiting" => ~IsFlushed(storer.flush)
    /\ caller.pc = "waiting" => ~IsFlushed(caller.flush)

\* Unless the broadcast for an execution falls between the test of the poller
\* and its wait, the execution is committed or the executor restarts: the poller
\* asks until the id is stored, whatever is executed, stored and moved back
\* meanwhile.
CommittedIfHeard ==
    \A n \in 1 .. MaxExecutions :
        (caller.pc = "broadcast" /\ caller.flush = FlushID(1, n) /\ poller.pc # "enter")
            ~> (FlushID(1, n) \in committed \/ executor.prover # 1)

\* updateFlushIDs "sends the signals conditions f.pendingFlushIDCond and
\* f.storedFlushIDCond to notify other go funcs that the values have changed":
\* every execution is committed.
EveryExecutionCommitted ==
    \A n \in 1 .. MaxExecutions : executor.pending >= n ~> FlushID(1, n) \in committed

\* storeL2Block: "Wait until L2 block has been flushed/stored by the executor".
FlushedBeforeCommit == committed \subseteq durable
=============================================================================
