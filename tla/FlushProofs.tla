---------------------------- MODULE FlushProofs ----------------------------
(***************************************************************************)
(* Theorems about FlushControl, for every number of executions and of      *)
(* restarts of the executor.                                               *)
(*                                                                         *)
(* The inductive invariant of CommittedIsDurable, Reported, holds until    *)
(* the executor restarts.  It says that every stored id the sequencer      *)
(* holds anywhere (storedFlushID, a response, an answer to the poller) is  *)
(* one the executor did store, and that the test before a commit stays     *)
(* true of the executor even if storedFlushID goes back after it.          *)
(***************************************************************************)
EXTENDS FlushControl, TLAPS

\* Every variable keeps its type: no flush id exceeds those handed out.
THEOREM FlushTypeCorrect == Spec => []TypeOK
<1> USE FlushAssumption
<1>1. Init => TypeOK
  BY SMT DEF Init, TypeOK, Idle, NoFlushID, FlushID, FlushIDs
<1>2. TypeOK /\ [Next]_vars => TypeOK'
  <2> SUFFICES ASSUME TypeOK, [Next]_vars PROVE TypeOK'
    OBVIOUS
  <2> USE DEF TypeOK, FlushIDs, FlushID, NoFlushID, Idle
  <2>1. CASE Flush
    <3>1. PICK id \in (executor.stored + 1) .. executor.pending :
            /\ executor' = [executor EXCEPT !.stored = id]
            /\ durable' = durable \cup
                  {FlushID(executor.prover, i) : i \in (executor.stored + 1) .. id}
      BY <2>1 DEF Flush
    <3>2. executor' \in [prover : 1 .. (MaxRestarts + 1), pending : 0 .. MaxExecutions,
                         stored : 0 .. MaxExecutions]
      BY <3>1
    <3>3. \A i \in (executor.stored + 1) .. id : i \in 0 .. MaxExecutions
      BY <3>1
    <3>4. durable' \subseteq FlushIDs
      BY <3>1, <3>3
    <3>5. QED
      BY <2>1, <3>2, <3>4 DEF Flush
  <2>2. CASE RestartExecutor
    BY <2>2 DEF RestartExecutor
  <2>3. CASE Execute
    BY <2>3 DEF Execute
  <2>4. CASE SetPendingFlushID
    BY <2>4 DEF SetPendingFlushID
  <2>5. CASE BroadcastPending
    BY <2>5 DEF BroadcastPending
  <2>6. CASE SetStoredFlushID
    BY <2>6 DEF SetStoredFlushID, Wake
  <2>7. CASE Push
    BY <2>7 DEF Push
  <2>8. CASE ForcedBatchTest
    BY <2>8 DEF ForcedBatchTest
  <2>9. CASE StoreForcedBatch
    BY <2>9 DEF StoreForcedBatch
  <2>10. CASE StorerTest
    BY <2>10 DEF StorerTest
  <2>11. CASE StoreL2Block
    BY <2>11 DEF StoreL2Block
  <2>12. CASE PollerTest \/ PollerWait
    BY <2>12 DEF PollerTest, PollerWait
  <2>13. CASE PollerAsk
    BY <2>13 DEF PollerAsk
  <2>14. CASE PollerUpdate
    BY <2>14 DEF PollerUpdate, Wake
  <2>15. CASE UNCHANGED vars
    BY <2>15 DEF vars
  <2>16. QED
    BY <2>1, <2>2, <2>3, <2>4, <2>5, <2>6, <2>7, <2>8, <2>9, <2>10, <2>11, <2>12,
       <2>13, <2>14, <2>15 DEF Next, CallerNext, StorerNext, PollerNext
<1>3. QED
  BY <1>1, <1>2, PTL DEF Spec

\* The storer and the finalizer never wait on storedFlushIDCond for an id that
\* storedFlushID has reached: both writers of it broadcast under the lock.
THEOREM NoLostWakeup == Spec => []NobodyWaitsForStored
<1>1. Init => NobodyWaitsForStored
  BY DEF Init, NobodyWaitsForStored, Idle
<1>2. TypeOK /\ NobodyWaitsForStored /\ [Next]_vars => NobodyWaitsForStored'
  <2> SUFFICES ASSUME TypeOK, NobodyWaitsForStored, [Next]_vars
               PROVE NobodyWaitsForStored'
    OBVIOUS
  <2> USE DEF NobodyWaitsForStored, IsFlushed
  <2>1. CASE Execute
    BY <2>1 DEF Execute
  <2>2. CASE SetPendingFlushID \/ BroadcastPending
    BY <2>2 DEF SetPendingFlushID, BroadcastPending, TypeOK
  <2>3. CASE SetStoredFlushID
    BY <2>3 DEF SetStoredFlushID, Wake, TypeOK
  <2>4. CASE Push
    BY <2>4 DEF Push, Idle
  <2>5. CASE ForcedBatchTest
    BY <2>5 DEF ForcedBatchTest, TypeOK
  <2>6. CASE StoreForcedBatch
    BY <2>6 DEF StoreForcedBatch, Idle
  <2>7. CASE StorerTest
    BY <2>7 DEF StorerTest, TypeOK
  <2>8. CASE StoreL2Block
    BY <2>8 DEF StoreL2Block
  <2>9. CASE PollerTest \/ PollerWait \/ PollerAsk
    BY <2>9 DEF PollerTest, PollerWait, PollerAsk
  <2>10. CASE PollerUpdate
    BY <2>10 DEF PollerUpdate, Wake, TypeOK
  <2>11. CASE Flush \/ RestartExecutor \/ UNCHANGED vars
    BY <2>11 DEF Flush, RestartExecutor, vars
  <2>12. QED
    BY <2>1, <2>2, <2>3, <2>4, <2>5, <2>6, <2>7, <2>8, <2>9, <2>10, <2>11
       DEF Next, CallerNext, StorerNext, PollerNext
<1>3. QED
  BY <1>1, <1>2, FlushTypeCorrect, PTL DEF Spec

\* The stored ids held by the sequencer are ids the executor has stored.
Reported ==
    /\ executor.prover = 1
    /\ \A i \in 1 .. executor.stored : FlushID(1, i) \in durable
    /\ storedFlushID <= executor.stored
    /\ caller.newStored <= executor.stored
    /\ poller.value <= executor.stored
    /\ caller.pc # "idle" => caller.flush.prover = 1 /\ caller.flush.id >= 1
    /\ storer.pc # "idle" => storer.flush.prover = 1 /\ storer.flush.id >= 1
    /\ caller.pc = "commit" => caller.flush.id <= executor.stored
    /\ storer.pc = "commit" => storer.flush.id <= executor.stored
    /\ committed \subseteq durable

ReportedWhileUp == executor.prover = 1 => Reported

\* Until the executor restarts, whatever the sequencer commits is durable, for
\* any number of executions.
THEOREM CommittedIsDurable == Spec => []DurableBeforeCommit
<1> USE FlushAssumption
<1>1. Init => ReportedWhileUp
  BY DEF Init, Reported, ReportedWhileUp, Idle
<1>2. TypeOK /\ ReportedWhileUp /\ [Next]_vars => ReportedWhileUp'
  <2> SUFFICES ASSUME TypeOK, ReportedWhileUp, [Next]_vars, executor'.prover = 1
               PROVE  Reported'
    BY DEF ReportedWhileUp
  <2>a. executor.prover = 1 /\ ~RestartExecutor
    <3>1. ~RestartExecutor
      BY DEF RestartExecutor, TypeOK
    <3>2. CASE Flush
      <4>1. PICK id \in (executor.stored + 1) .. executor.pending :
              executor' = [executor EXCEPT !.stored = id]
        BY <3>2 DEF Flush
      <4>2. QED
        BY <3>1, <4>1 DEF TypeOK
    <3>3. CASE Execute
      BY <3>1, <3>3 DEF Execute, TypeOK
    <3>4. CASE CallerNext \/ StorerNext \/ PollerNext \/ UNCHANGED vars
      <4>1. executor' = executor
        BY <3>4 DEF CallerNext, StorerNext, PollerNext, vars, SetPendingFlushID,
           BroadcastPending, SetStoredFlushID, Push, ForcedBatchTest, StoreForcedBatch,
           StorerTest, StoreL2Block, PollerTest, PollerWait, PollerAsk, PollerUpdate
      <4>2. QED
        BY <3>1, <4>1
    <3>5. QED
      BY <3>1, <3>2, <3>3, <3>4 DEF Next
  <2>b. Reported
    BY <2>a DEF ReportedWhileUp
  <2> USE <2>b DEF Reported
  <2>0. /\ executor.stored \in Nat /\ executor.pending \in Nat /\ storedFlushID \in Nat
        /\ caller.flush.id \in Nat /\ storer.flush.id \in Nat
        /\ caller.newStored \in Nat /\ poller.value \in Nat
    BY DEF TypeOK, FlushIDs
  <2>1. CASE Flush
    <3>1. PICK id \in (executor.stored + 1) .. executor.pending :
            /\ executor' = [executor EXCEPT !.stored = id]
            /\ durable' = durable \cup
                  {FlushID(executor.prover, i) : i \in (executor.stored + 1) .. id}
      BY <2>1 DEF Flush
    <3>2. executor'.stored = id /\ executor'.prover = 1
      BY <3>1 DEF TypeOK
    <3>3. ASSUME NEW i \in 1 .. id PROVE FlushID(1, i) \in durable'
      <4>1. CASE i <= executor.stored
        BY <2>0, <3>1, <4>1
      <4>2. CASE i > executor.stored
        <5>1. i \in (executor.stored + 1) .. id
          BY <2>0, <4>2
        <5>2. QED
          BY <3>1, <5>1
      <4>3. QED
        BY <2>0, <4>1, <4>2
    <3>4. QED
      BY <2>0, <2>1, <3>1, <3>2, <3>3 DEF Flush
  <2>3. CASE Execute
    <3>1. executor'.stored = executor.stored /\ executor'.prover = 1
      BY <2>3 DEF Execute, TypeOK
    <3>2. /\ caller'.newStored = executor.stored /\ caller'.pc = "pending"
          /\ caller'.flush.prover = 1 /\ caller'.flush.id = executor.pending + 1
      BY <2>3 DEF Execute, FlushID
    <3>3. QED
      BY <2>0, <2>3, <3>1, <3>2 DEF Execute
  <2>4. CASE SetPendingFlushID \/ BroadcastPending
    BY <2>4 DEF SetPendingFlushID, BroadcastPending, TypeOK
  <2>5. CASE SetStoredFlushID
    BY <2>5 DEF SetStoredFlushID, Wake, TypeOK
  <2>6. CASE Push
    BY <2>0, <2>6 DEF Push, Idle
  <2>7. CASE ForcedBatchTest
    BY <2>0, <2>7 DEF ForcedBatchTest, IsFlushed, TypeOK
  <2>8. CASE StoreForcedBatch
    <3>1. caller.flush = FlushID(1, caller.flush.id) /\ caller.flush.id \in 1 .. executor.stored
      BY <2>0, <2>8 DEF StoreForcedBatch, TypeOK, FlushIDs, FlushID
    <3>2. QED
      BY <2>0, <2>8, <3>1 DEF StoreForcedBatch, Idle
  <2>9. CASE StorerTest
    BY <2>0, <2>9 DEF StorerTest, IsFlushed, TypeOK
  <2>10. CASE StoreL2Block
    <3>1. storer.flush = FlushID(1, storer.flush.id) /\ storer.flush.id \in 1 .. executor.stored
      BY <2>0, <2>10 DEF StoreL2Block, TypeOK, FlushIDs, FlushID
    <3>2. QED
      BY <2>0, <2>10, <3>1 DEF StoreL2Block
  <2>11. CASE PollerTest \/ PollerWait \/ PollerAsk
    BY <2>0, <2>11 DEF PollerTest, PollerWait, PollerAsk, TypeOK
  <2>12. CASE PollerUpdate
    BY <2>0, <2>12 DEF PollerUpdate, Wake, TypeOK
  <2>13. CASE UNCHANGED vars
    BY <2>13 DEF vars
  <2>14. QED
    BY <2>1, <2>a, <2>3, <2>4, <2>5, <2>6, <2>7, <2>8, <2>9, <2>10, <2>11, <2>12, <2>13
       DEF Next, CallerNext, StorerNext, PollerNext
<1>3. ReportedWhileUp => DurableBeforeCommit
  BY DEF Reported, ReportedWhileUp, DurableBeforeCommit
<1>4. QED
  BY <1>1, <1>2, <1>3, FlushTypeCorrect, PTL DEF Spec
=============================================================================
