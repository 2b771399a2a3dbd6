----------------------------- MODULE DataStream -----------------------------
(***************************************************************************)
(* The data stream of the sequencer: what the storer of L2 blocks sends to *)
(* the channel dataToStream while it commits batches and blocks to the     *)
(* state, the goroutine that writes it to the stream file                  *)
(* (sendDataToStreamer), and the catching up of the file with the state    *)
(* when the sequencer starts (GenerateDataStreamFile).                     *)
(*                                                                         *)
(* A batch of the state is [wip, blocks], its number is its position; L2   *)
(* blocks are their numbers; batch 0 is the genesis batch with block 0.    *)
(* An entry of the file is [type, number, batch].  Timestamps, L1 data and *)
(* roots of the entries, and batches before fork Etrog, are left out.      *)
(***************************************************************************)
EXTENDS Integers, Sequences, SequencesExt

CONSTANTS
    MaxBlock,       \* bound on the L2 blocks stored
    MaxBatch,       \* bound on the batches
    MaxCrashes,     \* bound on the crashes of the node
    Limit,          \* batches read at once when catching up (10000)
    Capacity,       \* datastreamChannelBufferSize (50)
    Version         \* version of the stream

ASSUME DataStreamAssumption ==
    /\ MaxBlock \in Nat /\ MaxBatch \in Nat /\ MaxCrashes \in Nat
    /\ Limit \in Nat \ {0} /\ Capacity \in Nat \ {0} /\ Version \in {3, 4}

VARIABLES
    db,             \* committed batches of the state
    dbTx,           \* the batches as the open transaction leaves them
    todo,           \* what the goroutine that stores still has to do
    adding,         \* TRUE between a send and its dataToStreamCount.Add(1)
    halted,         \* TRUE once Halt was called: the process is about to end
    dataToStream, dataToStreamCount,
    received,       \* the message sendDataToStreamer works on, or <<>>
    counted,        \* TRUE between its dataToStreamCount.Add(-1) and the end of its work
    streamServer,   \* "on", "inOp" (operation left open), "off" (set to nil)
    file,           \* committed entries of the stream
    gen,            \* GenerateDataStreamFile
    faults,         \* the errors that may still happen
    crashes,
    torn            \* messages of a transaction that was lost got streamed

storeVars == <<db, dbTx, todo, adding, halted>>
channelVars == <<dataToStream, dataToStreamCount, received, counted>>
vars == <<storeVars, channelVars, streamServer, file, gen, faults, crashes, torn>>

FaultKinds == {"db", "stream"}
Fault(kind) == kind \in faults /\ faults' = faults \ {kind}

\* entries of the stream, and the messages that carry one of them
Entry(type, number, batch) == [type |-> type, number |-> number, batch |-> batch]
BookMark(n) == Entry("bookmarkBatch", n, n)
BatchStart(n) == Entry("batchStart", n, n)
BatchEnd(n) == Entry("batchEnd", n, n)
\* the message of DSSendL2Block, and the step that commits the transaction
DSL2FullBlock(k, n) == Entry("l2FullBlock", k, n)
CommitTx(forced) == [type |-> IF forced THEN "commitForced" ELSE "commit"]

OfType(s, type) == SelectSeq(s, LAMBDA e : e.type = type)
Numbers(s) == [i \in DOMAIN s |-> s[i].number]
Blocks(d) == FlattenSeq([n \in DOMAIN d |-> d[n].blocks])
HasBookmark(f, type, number) == \E i \in DOMAIN f : f[i].type = type /\ f[i].number = number

-----------------------------------------------------------------------------
(* Storing: storeL2Block, finalizeSIPBatch and processForcedBatch          *)

Running == gen.pc = "done" /\ ~halted
SipBatch == IF db # <<>> /\ Last(db).wip THEN Len(db) ELSE 0
NextBlock == Len(Blocks(db)) + 1
Closed(d) == [n \in DOMAIN d |-> [d[n] EXCEPT !.wip = FALSE]]

\* Bound: nothing more is stored once the stream is torn.
Begin(steps, d) ==
    /\ Running /\ todo = <<>> /\ ~torn
    /\ todo' = steps /\ dbTx' = d
    /\ UNCHANGED <<db, adding, halted, channelVars, streamServer, file, gen, faults,
                   crashes, torn>>

\* storeL2Block of the next block of the batch that is being stored
StoreL2Block ==
    /\ SipBatch # 0 /\ NextBlock <= MaxBlock
    /\ Begin(<<CommitTx(FALSE), DSL2FullBlock(NextBlock, SipBatch)>>,
             [db EXCEPT ![SipBatch].blocks = Append(@, NextBlock)])

\* storeL2Block of the first block of a batch: closeSIPBatch, insertSIPBatch
StoreFirstL2Block ==
    LET n == Len(db) + 1
    IN  /\ n <= MaxBatch /\ NextBlock <= MaxBlock
        /\ Begin((IF SipBatch # 0 THEN <<BatchEnd(SipBatch)>> ELSE <<>>)
                 \o <<BookMark(n), BatchStart(n), CommitTx(FALSE), DSL2FullBlock(NextBlock, n)>>,
                 Append(Closed(db), [wip |-> TRUE, blocks |-> <<NextBlock>>]))

\* finalizeSIPBatch, before forced batches and L2 block reorgs
FinalizeSIPBatch ==
    /\ SipBatch # 0
    /\ Begin(<<BatchEnd(SipBatch), CommitTx(FALSE)>>, Closed(db))

\* processForcedBatch: an execution without blocks leaves an empty batch
ProcessForcedBatch ==
    LET n == Len(db) + 1
    IN  /\ SipBatch = 0 /\ n <= MaxBatch
        /\ \/ Begin(<<CommitTx(TRUE)>>, Append(db, [wip |-> FALSE, blocks |-> <<>>]))
           \/ /\ NextBlock <= MaxBlock
              /\ Begin(<<DSL2FullBlock(NextBlock, n), CommitTx(TRUE)>>,
                       Append(db, [wip |-> FALSE, blocks |-> <<NextBlock>>]))

IsCommit(step) == step.type \in {"commit", "commitForced"}
AtSend == Running /\ todo # <<>> /\ ~IsCommit(Head(todo)) /\ ~adding

\* mutant of BufferIsFull: the test is one off
BufferIsFullOneLate == dataToStreamCount > Capacity

\* checkDSBufferIsFull
BufferIsFull == dataToStreamCount = Capacity

\* the test of the buffer, then the send, which waits for room in the channel
DSSend ==
    /\ AtSend
    /\ IF BufferIsFull
       THEN halted' = TRUE /\ UNCHANGED <<dataToStream, adding>>
       ELSE /\ Len(dataToStream) < Capacity
            /\ dataToStream' = Append(dataToStream, Head(todo))
            /\ adding' = TRUE /\ UNCHANGED halted
    /\ UNCHANGED <<db, dbTx, todo, dataToStreamCount, received, counted, streamServer, file,
                   gen, faults, crashes, torn>>

DSCount ==
    /\ Running /\ adding
    /\ adding' = FALSE /\ todo' = Tail(todo)
    /\ dataToStreamCount' = dataToStreamCount + 1
    /\ UNCHANGED <<db, dbTx, halted, dataToStream, received, counted, streamServer, file, gen,
                   faults, crashes, torn>>

\* The commit.  If it fails, or the update of the pool after it, storeL2Block and
\* finalizeSIPBatch end in Halt; a forced batch is rolled back and given up.
Commit ==
    /\ Running /\ todo # <<>> /\ IsCommit(Head(todo))
    /\ \/ /\ db' = dbTx /\ todo' = Tail(todo)
          /\ UNCHANGED <<dbTx, halted, faults, torn>>
       \/ /\ Fault("db") /\ Head(todo).type = "commit"
          /\ halted' = TRUE /\ todo' = <<>>
          /\ db' \in {db, dbTx} /\ dbTx' = db'
          /\ UNCHANGED torn
       \/ /\ Fault("db") /\ Head(todo).type = "commitForced"
          /\ todo' = <<>> /\ dbTx' = db
          /\ torn' = (torn \/ Blocks(dbTx) # Blocks(db))
          /\ UNCHANGED <<db, halted>>
    /\ UNCHANGED <<adding, channelVars, streamServer, file, gen, crashes>>

-----------------------------------------------------------------------------
(* sendDataToStreamer                                                      *)

L2BlockEntries(k, n) ==
    <<Entry("bookmarkL2Block", k, n), Entry("l2Block", k, n), Entry("transaction", k, n)>>
    \o (IF Version >= 4 THEN <<Entry("l2BlockEnd", k, n)>> ELSE <<>>)
Entries(m) ==
    IF m.type = "l2FullBlock" THEN L2BlockEntries(m.number, m.batch) ELSE <<m>>
\* GetFirstEventAfterBookmark finds the previous block
PreviousStreamed(m) ==
    m.type = "l2FullBlock" => HasBookmark(file, "bookmarkL2Block", m.number - 1)

Receive ==
    /\ gen.pc = "done" /\ received = <<>> /\ dataToStream # <<>>
    /\ received' = <<Head(dataToStream)>> /\ dataToStream' = Tail(dataToStream)
    /\ UNCHANGED <<storeVars, dataToStreamCount, counted, streamServer, file, gen, faults,
                   crashes, torn>>

CountOff ==
    /\ gen.pc = "done" /\ received # <<>> /\ ~counted
    /\ counted' = TRUE /\ dataToStreamCount' = dataToStreamCount - 1
    /\ UNCHANGED <<storeVars, dataToStream, received, streamServer, file, gen, faults,
                   crashes, torn>>

\* Only an error of StartAtomicOp reaches the test at the head of the loop, which
\* rolls back and sets streamServer to nil; the others are assigned to a variable
\* of the case, leave the operation open and make the next StartAtomicOp fail.  An
\* error of a transaction's entry leaves that entry out.
AfterError == {"inOp", "off"}

Stream ==
    /\ gen.pc = "done" /\ received # <<>> /\ counted
    /\ received' = <<>> /\ counted' = FALSE
    /\ LET m == received[1]
       IN  CASE streamServer = "off" -> UNCHANGED <<streamServer, file, faults>>
             [] streamServer = "inOp" -> streamServer' = "off" /\ UNCHANGED <<file, faults>>
             [] OTHER ->
                  \/ /\ IF PreviousStreamed(m)
                        THEN file' = file \o Entries(m) /\ UNCHANGED streamServer
                        ELSE streamServer' = "inOp" /\ UNCHANGED file
                     /\ UNCHANGED faults
                  \/ /\ Fault("stream")
                     /\ streamServer' \in AfterError /\ UNCHANGED file
                  \/ /\ Fault("stream") /\ m.type = "l2FullBlock" /\ PreviousStreamed(m)
                     /\ file' = file \o SelectSeq(Entries(m), LAMBDA e : e.type # "transaction")
                     /\ UNCHANGED streamServer
    /\ UNCHANGED <<storeVars, dataToStream, dataToStreamCount, gen, crashes, torn>>

-----------------------------------------------------------------------------
(* GenerateDataStreamFile, when the sequencer starts                       *)

Working == [pc |-> "start", batch |-> 0, lastBlock |-> 0, lastBatch |-> 0,
            first |-> FALSE, batches |-> <<>>]

Genesis ==
    <<BookMark(0), BatchStart(0)>>
    \o SelectSeq(L2BlockEntries(0, 0), LAMBDA e : e.type # "transaction")
    \o <<BatchEnd(0)>>

\* mutant of ResumeAt: a batch that has ended is begun again
ResumeAtEnded(e) ==
    [batch |-> e.batch,
     lastBlock |-> IF e.type \in {"l2Block", "l2BlockEnd", "transaction"} THEN e.number ELSE 0]

\* the batch to go on with and the last block added, from the last entry
ResumeAt(e) ==
    [batch |-> IF e.type = "batchEnd" THEN e.number + 1 ELSE e.batch,
     lastBlock |-> IF e.type \in {"l2Block", "l2BlockEnd", "transaction"} THEN e.number ELSE 0]

GenerateStart ==
    /\ gen.pc = "start"
    /\ IF file = <<>>
       THEN file' = Genesis /\ gen' = [Working EXCEPT !.pc = "read", !.batch = 1]
       ELSE /\ gen' = [Working EXCEPT !.pc = "read",
                         !.batch = ResumeAt(Last(file)).batch,
                         !.lastBlock = ResumeAt(Last(file)).lastBlock]
            /\ UNCHANGED file
    /\ UNCHANGED <<storeVars, channelVars, streamServer, faults, crashes, torn>>

\* mutant of GetDSBatches: the work in progress batch is not read
GetDSBatchesClosed(from, to) ==
    SelectSeq([n \in DOMAIN db |-> n], LAMBDA n : n \in from .. to /\ ~db[n].wip)

\* mutant of GetDSBatches: the lower end is exclusive
GetDSBatchesAfter(from, to) ==
    SelectSeq([n \in DOMAIN db |-> n], LAMBDA n : n \in from + 1 .. to)

\* numbers of the batches read, that of the work in progress included
GetDSBatches(from, to) == SelectSeq([n \in DOMAIN db |-> n], LAMBDA n : n \in from .. to)

ReadBatches ==
    /\ gen.pc = "read"
    /\ LET batches == GetDSBatches(gen.batch, gen.batch + Limit)
       IN  gen' = IF batches = <<>> THEN [Working EXCEPT !.pc = "done"]
                  ELSE [gen EXCEPT !.pc = "add", !.batch = @ + Limit, !.first = TRUE,
                                   !.batches = batches]
    /\ UNCHANGED <<storeVars, channelVars, streamServer, file, faults, crashes, torn>>

\* the blocks of batch n that computeFullBatches and the loop leave
MissingBlocks(n) ==
    SelectSeq(db[n].blocks, LAMBDA k : /\ gen.lastBlock # 0 => k > gen.lastBlock
                                       /\ ~HasBookmark(file, "bookmarkL2Block", k))

\* one batch, in one atomic operation
AddBatch ==
    /\ gen.pc = "add"
    /\ LET n == Head(gen.batches)
           skip == gen.lastBatch # 0 /\ n <= gen.lastBatch
           known == gen.first /\ HasBookmark(file, "bookmarkBatch", n)
           blocks == MissingBlocks(n)
       IN  /\ file' = IF skip THEN file
                      ELSE file \o (IF known THEN <<>> ELSE <<BookMark(n), BatchStart(n)>>)
                           \o FlattenSeq([i \in DOMAIN blocks |-> L2BlockEntries(blocks[i], n)])
                           \o (IF db[n].wip THEN <<>> ELSE <<BatchEnd(n)>>)
           /\ gen' = [gen EXCEPT
                        !.pc = IF Len(gen.batches) = 1 THEN "read" ELSE "add",
                        !.first = FALSE, !.batches = Tail(@),
                        !.lastBatch = IF skip THEN @ ELSE n,
                        !.lastBlock = IF skip \/ blocks = <<>> THEN @ ELSE Last(blocks)]
    /\ UNCHANGED <<storeVars, channelVars, streamServer, faults, crashes, torn>>

\* the stream tells of something the state does not hold
Ahead(f, d) ==
    \E i \in DOMAIN f :
        \/ f[i].batch > Len(d)
        \/ f[i].type = "batchEnd" /\ f[i].batch # 0 /\ d[f[i].batch].wip
        \/ f[i].type = "l2Block" /\ f[i].number > Len(Blocks(d))

\* The process ends, by a crash or after Halt, and is started again.
Restart ==
    /\ IF halted THEN UNCHANGED crashes ELSE crashes < MaxCrashes /\ crashes' = crashes + 1
    /\ dbTx' = db /\ todo' = <<>> /\ adding' = FALSE /\ halted' = FALSE
    /\ dataToStream' = <<>> /\ dataToStreamCount' = 0 /\ received' = <<>> /\ counted' = FALSE
    /\ streamServer' = "on" /\ gen' = Working
    /\ torn' = (torn \/ Ahead(file, db))
    /\ UNCHANGED <<db, file, faults>>

-----------------------------------------------------------------------------
\* a new node, or one whose synchronizer has stored the injected batch
Init ==
    /\ db \in {<<>>, <<[wip |-> FALSE, blocks |-> <<1>>]>>} /\ dbTx = db
    /\ todo = <<>> /\ adding = FALSE /\ halted = FALSE
    /\ dataToStream = <<>> /\ dataToStreamCount = 0 /\ received = <<>> /\ counted = FALSE
    /\ streamServer = "on" /\ file = <<>> /\ gen = Working
    /\ faults = FaultKinds /\ crashes = 0 /\ torn = FALSE

Storer ==
    \/ DSSend \/ DSCount \/ Commit
Generate == GenerateStart \/ ReadBatches \/ AddBatch
Produce == StoreL2Block \/ StoreFirstL2Block \/ FinalizeSIPBatch \/ ProcessForcedBatch

Streamer == Receive \/ CountOff \/ Stream

Next == Produce \/ Storer \/ Streamer \/ Generate \/ Restart

Spec == Init /\ [][Next]_vars

\* the goroutines go on, and a halted process ends and is started again
FairSpec ==
    /\ Spec
    /\ WF_vars(Storer) /\ WF_vars(Streamer) /\ WF_vars(Generate)
    /\ WF_vars(halted /\ Restart)

-----------------------------------------------------------------------------
(* Properties                                                              *)

EntryType == [type : {"bookmarkBatch", "batchStart", "batchEnd", "bookmarkL2Block",
                      "l2Block", "transaction", "l2BlockEnd", "l2FullBlock"},
              number : 0 .. MaxBlock + MaxBatch, batch : 0 .. MaxBatch]

\* Types of the variables; dataToStreamCount (an atomic of the finalizer) is behind
\* the channel by at most the message that is being sent and never over the bound.
TypeOK ==
    /\ \A d \in {db, dbTx} : d \in Seq([wip : BOOLEAN, blocks : Seq(1 .. MaxBlock)])
    /\ \A i \in DOMAIN todo : IsCommit(todo[i]) \/ todo[i] \in EntryType
    /\ adding \in BOOLEAN /\ counted \in BOOLEAN /\ halted \in BOOLEAN /\ torn \in BOOLEAN
    /\ dataToStream \in Seq(EntryType) /\ received \in Seq(EntryType)
    /\ dataToStreamCount \in -1 .. Capacity
    /\ streamServer \in {"on", "inOp", "off"} /\ file \in Seq(EntryType)
    /\ gen.pc \in {"start", "read", "add", "done"}
    /\ faults \subseteq FaultKinds /\ crashes \in 0 .. MaxCrashes

Streamed == Numbers(OfType(file, "l2Block"))

\* The L2 blocks of the stream are those of the state, each once and in order, up
\* to some block: errors of the stream, crashes and catching up leave no gap and
\* repeat nothing (sendDataToStreamer, GenerateDataStreamFile), unless messages of
\* a transaction that was lost had been streamed.
StreamInOrder == ~torn => IsPrefix(Streamed, <<0>> \o Blocks(dbTx))

\* A batch starts and ends at most once in the stream, its start follows its
\* bookmark, and nothing of it comes after its end or after a later batch, live or
\* when a restart goes on with the last entry (GenerateDataStreamFile).
BatchesFramed ==
    ~torn =>
        /\ \A i, j \in DOMAIN file : i < j =>
              /\ file[i].batch <= file[j].batch
              /\ file[i].type = "batchEnd" => file[i].batch < file[j].batch
              /\ file[i].type = "batchStart" => file[i] # file[j]
        /\ \A i \in DOMAIN file : file[i].type = "batchStart" =>
              i > 1 /\ file[i - 1] = BookMark(file[i].number)

\* checkDSBufferIsFull keeps the goroutine that stores from ever waiting for room
\* in the channel: when the count lets it send there is room, whenever
\* sendDataToStreamer receives and counts.
NeverWaitsForRoom == (AtSend /\ ~BufferIsFull) => Len(dataToStream) < Capacity

\* Every L2 block of the state reaches the stream, through the channel or after a
\* restart, unless the stream server has failed.
BlocksStreamed ==
    \A k \in 1 .. MaxBlock :
        (k \in Range(Blocks(db))) ~> (k \in Range(Streamed) \/ streamServer # "on" \/ torn)
=============================================================================
