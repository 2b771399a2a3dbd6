--------------------------- MODULE L1ParallelSync ---------------------------
(***************************************************************************)
(* The synchronizer in parallel mode (synchronizer/l1_parallel_sync).  The *)
(* producer splits the blocks that are missing into ranges and gives them  *)
(* to its workers; a filter puts the answers in order; the consumer takes  *)
(* them from a channel, checks that each follows the one before and stores *)
(* their blocks.  The orchestrator starts the two and waits for the        *)
(* consumer; the producer goes on from one call of Sync to the next.       *)
(*                                                                         *)
(* The loop of Sync, the reorg check and the reset are the ones of         *)
(* Synchronizer, from a stored genesis on; ProcessBlockRange, whose steps  *)
(* are modelled there, is one step here.  The background checkers, which   *)
(* abort both, are off.  The time to live of the last block known on L1 is *)
(* zero: it is read whenever it may be.                                    *)
(***************************************************************************)
EXTENDS Synchronizer

CONSTANTS
    NumWorkers,      \* the Ethereum clients, but the one for the last block
    Capacity,        \* MaxPendingNoProcessedBlocks
    CmdCapacity,     \* lenCommandsChannels
    UnsafeDistance,  \* maximumBlockDistanceFromLatestToFinalized
    InitialBlocks,   \* bound: the blocks L1 has at the start
    Events           \* whether the L1 blocks at the start may, or must, have events

ASSUME L1ParallelSyncAssumption ==
    /\ NumWorkers \in Nat \ {0} /\ Capacity \in Nat \ {0} /\ CmdCapacity \in Nat \ {0}
    /\ UnsafeDistance \in Nat \ {0}
    /\ InitialBlocks \in Genesis .. MaxBlock
    /\ Events \in SUBSET BOOLEAN \ {{}}

VARIABLES
    prod,    \* the producer, with its syncStatus and channelCmds
    work,    \* its workers
    resp,    \* chOutgoingRollupInfo
    filter,  \* filterToSendOrdererResultsToConsumer
    queue,   \* the channel from the producer to the consumer
    cons,    \* the consumer
    chConsumer  \* how the consumer ended, for the orchestrator

parVars == <<prod, work, resp, filter, queue, cons, chConsumer>>
allVars == <<vars, parVars>>

Latest == MaxBlock + 1   \* latestBlockNumber
Min2(a, b) == IF a < b THEN a ELSE b
Max2(a, b) == IF a < b THEN b ELSE a
LastOf(s) == IF s = <<>> THEN NoBlock ELSE s[Len(s)]

-----------------------------------------------------------------------------
(* syncStatus.                                                                *)

BlockRange(from, to) == [from |-> from, to |-> to]
ErrorRanges(p) == {p.errors[i] : i \in DOMAIN p.errors}

\* getHighestBlockRequestedUnsafe.
HighestInProcess(p) ==
    LET tos == {r.to : r \in p.processing \cup ErrorRanges(p)}
    IN  IF tos = {} THEN 0 ELSE CHOOSE n \in tos : \A m \in tos : m <= n

\* getNextBlockRangeFromUnsafe.
NewRange(p) ==
    LET from == Max2(p.lbs, HighestInProcess(p)) + 1
        to   == Min2(p.lastL1, from + SyncChunkSize)
    IN  BlockRange(from, IF to = p.lastL1 THEN Latest ELSE to)

\* getNextRangeOnlyRetriesUnsafe: the first error range, unless it is open ended.
MustRetry(p) == p.errors # <<>> /\ Head(p.errors).to # Latest
Discarded(p) == IF p.errors # <<>> /\ ~MustRetry(p) THEN [p EXCEPT !.errors = Tail(@)] ELSE p

\* GetNextRange without the retries.
MayRequest(p) == p.lastL1 > p.hbr /\ HighestInProcess(p) # Latest

OnStartedNewWorker(p, br) ==
    [p EXCEPT !.errors = SelectSeq(@, LAMBDA r : r # br),
              !.processing = @ \cup {br},
              !.hbr = IF br.to = Latest THEN p.lastL1 ELSE Max2(@, br.to)]

\* OnFinishWorker, for a range that is processed.
OnFinishWorker(p, r, highest) ==
    IF r.ok THEN [p EXCEPT !.processing = @ \ {r.range}, !.lbs = Max2(@, highest)]
    ELSE [p EXCEPT !.processing = @ \ {r.range}, !.errors = Append(@, r.range)]

\* OnNewLastBlockOnL1.
Renewed(p) == [p EXCEPT !.lastL1 = Max2(@, Len(chain))]

\* Mutant: the ranges that are processed stay too.
StatusResetKeepsProcessing(p, n) == [p EXCEPT !.lbs = n, !.hbr = n]

\* syncStatus.Reset: the error ranges stay.
StatusReset(p, n) == [p EXCEPT !.lbs = n, !.hbr = n, !.processing = {}]

\* BlockNumberIsInsideUnsafeArea.  The difference is one of unsigned integers:
\* a number above the last block known on L1 is far away from it.
InsideUnsafeArea(p, n) == n <= p.lastL1 /\ p.lastL1 - n < UnsafeDistance

IsNodeFullySynchronized(p) ==
    p.lastL1 # 0 /\ p.lastL1 <= p.hbr /\ p.errors = <<>> /\ p.processing = {}

-----------------------------------------------------------------------------
(* The answer to a request.                                                   *)

Answered(range, ok, blks, last, prev) ==
    [range |-> range, ok |-> ok, blks |-> blks, last |-> last, prev |-> prev]

\* Mutant: an empty answer stands for the first block that was asked for.
HighestOffByOne(r) ==
    IF r.range.to # Latest THEN r.range.to
    ELSE IF r.blks = <<>> THEN r.range.from ELSE LastOf(r.blks).num

\* getHighestBlockNumberInResponse.
Highest(r) ==
    IF r.range.to # Latest THEN r.range.to
    ELSE IF r.blks = <<>> THEN r.range.from - 1 ELSE LastOf(r.blks).num

\* getHighestBlockReceived.
Received(r) == IF r.last # NoBlock THEN r.last ELSE LastOf(r.blks)

Data(r) == [kind |-> "data", r |-> r, n |-> 0]
Control(kind, n) == [kind |-> kind, r |-> Answered(BlockRange(0, 0), FALSE, <<>>, NoBlock, NoBlock), n |-> n]

-----------------------------------------------------------------------------
(* The workers: the last block of the range, its events, the last block again *)
(* if it is needed and the block before, each a call of L1.                   *)

Idle == [pc |-> "idle", unsafe |-> FALSE, stopped |-> FALSE,
         res |-> Answered(BlockRange(0, 0), FALSE, <<>>, NoBlock, NoBlock)]

Request(br, unsafe) ==
    [pc |-> IF unsafe /\ br.to # Latest THEN "last" ELSE "rollup", unsafe |-> unsafe,
     stopped |-> FALSE, res |-> Answered(br, TRUE, <<>>, NoBlock, NoBlock)]

\* What comes after the events.
AfterRollup(w) ==
    CASE w.res.last = NoBlock /\ w.res.blks = <<>> /\ w.res.range.to # Latest -> "last"
      [] w.unsafe /\ w.res.range.from > 2 -> "prev"
      [] OTHER -> "done"

\* workers.stop cancels the requests that are going on; the next call of each
\* fails, and the producer does not wait for it.
WorkersStopped ==
    [i \in 1 .. NumWorkers |->
        IF work[i].pc = "idle" THEN Idle ELSE [work[i] EXCEPT !.stopped = TRUE]]

Respond(i, r) ==
    /\ resp' = Append(resp, r)
    /\ work' = [work EXCEPT ![i] = Idle]

\* executeRequestRollupInfoByBlockRange: w is the worker after its next call.
WorkerGoesOn(i, w) ==
    IF w.pc = "done" THEN Respond(i, w.res)
    ELSE work' = [work EXCEPT ![i] = w] /\ UNCHANGED resp

WorkerStep(i) ==
    LET w == work[i]
        range == w.res.range
        asked == CASE w.pc = "last" -> range.to [] w.pc = "prev" -> range.from - 1 [] OTHER -> 1
        ok == ~w.stopped /\ asked <= Len(chain)
        read == IF w.pc = "rollup" THEN RollupInfo(range.from, range.to) ELSE <<>>
        next == CASE w.pc = "last" /\ w.unsafe ->
                       [w EXCEPT !.pc = "rollup", !.res.last = chain[asked]]
                  [] w.pc = "last" /\ ~w.unsafe ->
                       [w EXCEPT !.pc = "done", !.res.last = chain[asked]]
                  [] w.pc = "rollup" ->
                       [w EXCEPT !.pc = AfterRollup([w EXCEPT !.res.blks = read]), !.res.blks = read]
                  [] w.pc = "prev" ->
                       [w EXCEPT !.pc = "done", !.res.prev = chain[asked]]
    IN  /\ w.pc # "idle"
        /\ \/ ok /\ WorkerGoesOn(i, next) /\ UNCHANGED faults
           \/ /\ IF ok THEN Fault("rpc") ELSE UNCHANGED faults
              /\ Respond(i, Answered(range, FALSE, <<>>, NoBlock, NoBlock))
        /\ UNCHANGED <<l1Vars, dbVars, proc, sync, checkVars, prod, filter, queue, cons, chConsumer>>

-----------------------------------------------------------------------------
(* filterToSendOrdererResultsToConsumer.                                      *)

\* The first pending answer that follows what was sent, and the ones after it.
RECURSIVE Drain(_, _)
Drain(f, out) ==
    LET next == {i \in DOMAIN f.pending : f.pending[i].range.from = f.last + 1}
        i    == CHOOSE i \in next : \A j \in next : i <= j
    IN  IF next = {} THEN [f |-> f, out |-> out]
        ELSE Drain([last |-> Highest(f.pending[i]),
                    pending |-> SubSeq(f.pending, 1, i - 1) \o
                                SubSeq(f.pending, i + 1, Len(f.pending))],
                   Append(out, Data(f.pending[i])))

Filter(r) == Drain([filter EXCEPT !.pending = Append(@, r)], <<>>)

-----------------------------------------------------------------------------
(* The producer.                                                              *)

ProducerAtStart ==
    [pc |-> "off", status |-> "noRunning", lbs |-> 0, hbr |-> 0, lastL1 |-> 0,
     processing |-> {}, errors |-> <<>>, cmds |-> <<>>, out |-> <<>>]

Reset(n) == [cmd |-> "reset", n |-> n]
Nop == [cmd |-> "nop", n |-> 0]

\* Reset, in the goroutine of the caller.
ProducerReset(p, n) == [p EXCEPT !.status = "reseting", !.cmds = Append(@, Reset(n))]

\* launchWork: one range for each idle worker.  LaunchWork is the set of its one
\* outcome.
LaunchOne(s, allowNew) ==
    LET p    == Discarded(s.p)
        br   == IF MustRetry(s.p) THEN Head(s.p.errors) ELSE NewRange(p)
        idle == {i \in 1 .. NumWorkers : s.w[i].pc = "idle"}
        i    == CHOOSE i \in idle : \A j \in idle : i <= j
    IN  IF s.done THEN s
        ELSE IF idle = {} \/ ~(MustRetry(s.p) \/ (allowNew /\ MayRequest(p)))
        THEN [s EXCEPT !.p = p, !.done = TRUE]
        ELSE [s EXCEPT !.p = OnStartedNewWorker(p, br), !.launched = @ + 1,
                       !.w[i] = Request(br, InsideUnsafeArea(p, br.from))]

\* canISendNewRequestsUnsafe.
CanSendNewRequests == Len(filter.pending) + Len(queue) <= Capacity

LaunchWork(p, w) ==
    LET f[k \in 0 .. NumWorkers + 1] ==
            IF k = 0 THEN {[p |-> p, w |-> w, launched |-> 0, done |-> FALSE]}
            ELSE {LaunchOne(s, CanSendNewRequests) : s \in f[k - 1]}
    IN  f[NumWorkers + 1]

\* The end of step: the read of the status decides what is done.
AfterSelect(p) == [p EXCEPT !.pc = "switch"]

ProducerStarts ==
    /\ prod.pc = "start"
    /\ prod' = [prod EXCEPT !.pc = "select", !.status = "idle"]
    /\ UNCHANGED <<work, resp, filter, queue>>

\* The wait ends when nothing is to be done.  The first one takes no time, but
\* the command of the reset is there before it begins.
ProducerTimeout ==
    /\ prod.pc = "select" /\ prod.cmds = <<>> /\ resp = <<>>
    /\ prod' = AfterSelect(prod)
    /\ UNCHANGED <<work, resp, filter, queue>>

\* executeCmd, and resetUnsafe up to its last assignment.
ExecuteCmd ==
    /\ prod.pc = "select" /\ prod.cmds # <<>>
    /\ LET cmd == Head(prod.cmds)
           p   == [prod EXCEPT !.cmds = Tail(@)]
       IN  IF cmd.cmd = "nop"
           THEN prod' = AfterSelect(p) /\ UNCHANGED <<queue, filter, work>>
           ELSE /\ prod' = [StatusReset(p, cmd.n) EXCEPT !.status = "reseting", !.pc = "resetDone"]
                /\ work' = WorkersStopped
                /\ queue' = <<>>
                /\ filter' = [last |-> cmd.n, pending |-> <<>>]
    /\ UNCHANGED resp

ResetDone ==
    /\ prod.pc = "resetDone"
    /\ prod' = AfterSelect([prod EXCEPT !.status = "idle"])
    /\ UNCHANGED <<work, resp, filter, queue>>

OnResponseRollupInfo ==
    /\ prod.pc = "select" /\ resp # <<>>
    /\ LET r == Head(resp)
           p == OnFinishWorker(prod, r, Highest(r))
       IN  IF prod.status = "reseting" \/ r.range \notin prod.processing
           THEN prod' = AfterSelect(prod) /\ UNCHANGED filter
           ELSE IF r.ok
           THEN \E d \in {Filter(r)} :
                    prod' = [p EXCEPT !.pc = "send", !.out = d.out] /\ filter' = d.f
           ELSE prod' = AfterSelect(p) /\ UNCHANGED filter
    /\ resp' = Tail(resp)
    /\ UNCHANGED <<work, queue>>

\* sendPackages blocks while the channel is full.
SendPackages ==
    /\ prod.pc \in {"send", "sendSynced"}
    /\ IF prod.out = <<>>
       THEN /\ prod' = [prod EXCEPT !.pc = IF @ = "send" THEN "switch" ELSE "select"]
            /\ UNCHANGED queue
       ELSE /\ Len(queue) < Capacity
            /\ queue' = Append(queue, Head(prod.out))
            /\ prod' = [prod EXCEPT !.out = Tail(@)]
    /\ UNCHANGED <<work, resp, filter>>

ProducerReseting ==
    /\ prod.pc = "switch" /\ prod.status = "reseting"
    /\ prod' = [prod EXCEPT !.pc = "select"]
    /\ UNCHANGED <<work, resp, filter, queue>>

ProducerIdle ==
    /\ prod.pc = "switch" /\ prod.status = "idle"
    /\ LET p == Renewed(prod)
       IN  IF p.lbs # 0
           THEN /\ Len(prod.cmds) < CmdCapacity
                /\ prod' = [p EXCEPT !.pc = "select", !.status = "working", !.cmds = Append(@, Nop)]
           ELSE prod' = [p EXCEPT !.pc = "select"]
    /\ UNCHANGED <<work, resp, filter, queue>>

\* The last block on L1 is read again when all is requested, or near it.
ProducerWorking ==
    /\ prod.pc = "switch" /\ prod.status = "working"
    /\ \E s \in LaunchWork(prod, work) :
          \E p \in {IF s.p.lastL1 <= s.p.hbr \/ InsideUnsafeArea(s.p, s.p.hbr)
                     THEN Renewed(s.p) ELSE s.p} :
             IF IsNodeFullySynchronized(p)
             THEN /\ prod' = [p EXCEPT !.pc = "sendSynced", !.status = "synchronized",
                                       !.out = <<Control("synced", p.lbs)>>]
                  /\ work' = s.w
             ELSE \E t \in LaunchWork(p, s.w) : prod' = [t.p EXCEPT !.pc = "select"] /\ work' = t.w
    /\ UNCHANGED <<resp, filter, queue>>

ProducerSynchronized ==
    /\ prod.pc = "switch" /\ prod.status = "synchronized"
    /\ \E s \in LaunchWork(Renewed(prod), work) :
          /\ prod' = [s.p EXCEPT !.pc = "select",
                                 !.status = IF s.launched > 0 THEN "working" ELSE @]
          /\ work' = s.w
    /\ UNCHANGED <<resp, filter, queue>>

Producer ==
    /\ \/ ProducerStarts \/ ProducerTimeout \/ ExecuteCmd \/ ResetDone
       \/ OnResponseRollupInfo \/ SendPackages
       \/ ProducerReseting \/ ProducerIdle \/ ProducerWorking \/ ProducerSynchronized
    /\ UNCHANGED <<vars, cons, chConsumer>>

-----------------------------------------------------------------------------
(* The consumer.                                                              *)

ConsumerAtStart ==
    [pc |-> "off", highest |-> 0, received |-> NoBlock, synced |-> NoBlock]

\* Start ends, and the result is for the orchestrator.
ConsumerEnds(c, err) ==
    /\ cons' = [c EXCEPT !.pc = "off"]
    /\ chConsumer' = err

\* checkPreviousBlocks.
PreviousDiffers(r) ==
    /\ cons.received # NoBlock /\ r.prev # NoBlock
    /\ cons.received.num = r.prev.num
    /\ cons.received # r.prev

\* What processUnsafe has to store.
ToStore(r) ==
    IF r.blks # <<>> THEN r.blks ELSE IF r.last # NoBlock THEN <<r.last>> ELSE <<>>

\* ProcessBlockRange stored the first k blocks.
StoredUpTo(todo, k) ==
    blocks \o [i \in 1 .. k |-> Row(todo[i], todo[i].num <= finalized, <<>>)]

\* Mutant: whatever comes is processed.
FollowsAlways(r) == TRUE

\* The range is the next one.
Follows(r) == r.range.from = cons.highest + 1

\* processIncommingRollupInfoData.
ConsumeData ==
    /\ cons.pc = "on" /\ queue # <<>> /\ Head(queue).kind = "data"
    /\ LET r    == Head(queue).r
           c    == [cons EXCEPT !.highest = Highest(r)]
           d    == [c EXCEPT !.received = Received(r)]
           todo == ToStore(r)
       IN  IF ~Follows(r)
           THEN UNCHANGED <<cons, chConsumer, blocks, faults>>
           ELSE IF PreviousDiffers(r)
           THEN ConsumerEnds(c, "reorg") /\ UNCHANGED <<blocks, faults>>
           ELSE \/ /\ blocks' = StoredUpTo(todo, Len(todo))
                   /\ cons' = [d EXCEPT !.synced = IF todo = <<>> THEN @ ELSE LastOf(todo)]
                   /\ UNCHANGED <<chConsumer, faults>>
                \/ /\ Fault("process")
                   /\ \E k \in 0 .. Len(todo) - 1 : blocks' = StoredUpTo(todo, k)
                   /\ ConsumerEnds(d, "error")
    /\ queue' = Tail(queue)

\* processIncommingRollupControlData.
ConsumeControl ==
    /\ cons.pc = "on" /\ queue # <<>> /\ Head(queue).kind # "data"
    /\ queue' = Tail(queue)
    /\ IF Tail(queue) = <<>>
       THEN ConsumerEnds(cons, IF cons.highest = Head(queue).n THEN "nil" ELSE "error")
       ELSE UNCHANGED <<cons, chConsumer>>
    /\ UNCHANGED <<blocks, faults>>

Consumer ==
    /\ ConsumeData \/ ConsumeControl
    /\ UNCHANGED <<l1Vars, cache, exec, proc, sync, checkVars, prod, work, resp, filter>>

-----------------------------------------------------------------------------
(* The orchestrator, and Sync.                                                *)

ParInit ==
    /\ prod = ProducerAtStart
    /\ work = [i \in 1 .. NumWorkers |-> Idle]
    /\ resp = <<>> /\ filter = [last |-> 0, pending |-> <<>>] /\ queue = <<>>
    /\ cons = ConsumerAtStart
    /\ chConsumer = "none"

\* L1SyncOrchestration.Start.
StartParallel ==
    /\ sync.pc = "sync"
    /\ IF prod.pc = "off"
       THEN /\ Len(prod.cmds) < CmdCapacity
            /\ prod' = [ProducerReset(prod, sync.last.num) EXCEPT !.pc = "start"]
            /\ queue' = <<>>
       ELSE UNCHANGED <<prod, queue>>
    /\ cons' = IF cons.pc = "off"
               THEN [cons EXCEPT !.pc = "on", !.synced = sync.last,
                                 !.highest = IF @ = 0 THEN sync.last.num ELSE @]
               ELSE cons
    /\ sync' = [sync EXCEPT !.pc = "orchestrate"]
    /\ UNCHANGED <<l1Vars, dbVars, proc, checkVars, faults, work, resp, filter, chConsumer>>

\* L1SyncOrchestration.Reset.
OrchestratorReset(n) ==
    /\ Len(prod.cmds) < CmdCapacity
    /\ cons' = [cons EXCEPT !.highest = n, !.synced = NoBlock]
    /\ prod' = ProducerReset(prod, n)
    /\ queue' = <<>>
    /\ UNCHANGED <<work, resp, filter>>

\* The consumer has ended without an error, or with one: Sync goes on from the
\* last stored block.
Orchestrated ==
    /\ sync.pc = "orchestrate" /\ chConsumer \in {"nil", "error"}
    /\ chConsumer' = "none"
    /\ IF chConsumer = "nil" /\ cons.synced # NoBlock
       THEN sync' = Loop(cons.synced) /\ UNCHANGED <<prod, work, resp, filter, queue, cons>>
       ELSE SyncError /\ OrchestratorReset(LastBlock.num)
    /\ UNCHANGED <<l1Vars, dbVars, proc, checkVars, faults>>

\* The node starts again.
ParRestarted ==
    /\ Restarted
    /\ prod' = ProducerAtStart
    /\ work' = [i \in 1 .. NumWorkers |-> Idle]
    /\ resp' = <<>> /\ filter' = [last |-> 0, pending |-> <<>>] /\ queue' = <<>>
    /\ cons' = ConsumerAtStart
    /\ chConsumer' = "none"

\* A reorg error comes with no last block, and the reset that follows reads its
\* number: the process ends.
ReorgErrorPanics ==
    /\ sync.pc = "orchestrate" /\ chConsumer = "reorg"
    /\ ParRestarted
    /\ UNCHANGED faults

ParCrash ==
    /\ Fault("crash") /\ sync.pc # "start"
    /\ ParRestarted

ParResetState ==
    /\ ResetState
    /\ IF faults' = faults
       THEN OrchestratorReset(blocks'[Len(blocks')].block.num) /\ UNCHANGED chConsumer
       ELSE UNCHANGED parVars

ParSync ==
    \/ StartParallel \/ Orchestrated \/ ReorgErrorPanics \/ ParResetState
    \/ /\ Start \/ Iteration \/ CheckReorg
       /\ UNCHANGED parVars

-----------------------------------------------------------------------------
(* L1 makes its blocks final before they leave the unsafe area.               *)

ParMine ==
    /\ MineBlock(TRUE)
    /\ Len(chain') <= finalized + UnsafeDistance
    /\ UNCHANGED parVars

ParFinalize == (\E n \in 1 .. MaxBlock : Finalize(n)) /\ UNCHANGED parVars

ParReorg == (\E n \in 1 .. MaxBlock : L1Reorg(n)) /\ UNCHANGED parVars

ParallelInit ==
    /\ \E evs \in [1 .. InitialBlocks -> Events] :
          chain = [n \in 1 .. InitialBlocks |-> [num |-> n, fork |-> 0, ev |-> n = Genesis \/ evs[n]]]
    /\ finalized = Max2(Genesis, IF InitialBlocks > UnsafeDistance THEN InitialBlocks - UnsafeDistance ELSE 0)
    /\ fork = 0
    /\ blocks = <<Row(chain[Genesis], TRUE, <<>>)>> /\ cache = NoTree /\ exec = "unknown"
    /\ proc = NoCall /\ sync = AtStart
    /\ run = [c \in Checkers |-> NotRun]
    /\ result = [c \in Checkers |-> NoResult]
    /\ late = {} /\ faults = {}
    /\ ParInit

ParallelNext ==
    \/ ParMine \/ ParFinalize \/ ParReorg \/ ParCrash
    \/ ParSync \/ Producer \/ Consumer
    \/ \E i \in 1 .. NumWorkers : WorkerStep(i)

ParallelSpec == ParallelInit /\ [][ParallelNext]_allVars

-----------------------------------------------------------------------------

\* The channels hold no more than they can, a worker that is not idle has a range
\* the producer asked for, and the filter keeps no answer it should have sent.
ParallelTypeOK ==
    /\ Len(prod.cmds) <= CmdCapacity /\ Len(queue) <= Capacity
    /\ \A i \in 1 .. NumWorkers : work[i].pc # "idle" => work[i].res.range.from > Genesis
    /\ \A i \in DOMAIN filter.pending : filter.pending[i].range.from > filter.last + 1
    /\ cons.pc = "on" => sync.pc = "orchestrate" /\ chConsumer = "none"

\* The producer never waits for an answer that nobody will give: a worker asks
\* for every range that is processed, or its answer is on the way, although
\* onResponseRollupInfo drops the answers that come during a reset and
\* resetUnsafe does not wait for the requests it cancels, so that answers of
\* both kinds come when the same range has been requested again.  A range
\* nobody asks for would keep the producer from requesting what follows, and
\* from ever being synchronized.
NoRangeAbandoned ==
    prod.status # "reseting" =>
        \A r \in prod.processing :
            \/ \E i \in 1 .. NumWorkers : work[i].pc # "idle" /\ work[i].res.range = r
            \/ \E k \in DOMAIN resp : resp[k].range = r

\* The consumer goes on: while L1 keeps its blocks, every block with events up to
\* the highest one processed is stored, although the workers answer out of
\* order, calls fail and are made again, and answers come after a reset.
NoBlockSkipped ==
    cons.pc = "on" /\ fork = 0 =>
        \A n \in Genesis .. Min2(Len(chain), cons.highest) :
            chain[n].ev => chain[n] \in Stored(blocks)

\* processIncommingRollupInfoData: whatever answers are late, of a request before a
\* reset or of one made twice, the stored blocks stay in order, none of them twice.
StoredOnce ==
    \A i, j \in DOMAIN blocks : i < j => blocks[i].block.num < blocks[j].block.num
=============================================================================
