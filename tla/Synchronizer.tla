---------------------------- MODULE Synchronizer ----------------------------
(***************************************************************************)
(* The L1 synchronizer (synchronizer/synchronizer.go): the initial         *)
(* synchronization, the loop of Sync in sequential mode, the reorg check,  *)
(* the reset of the state and the processing of L1 blocks, with the        *)
(* background checkers of stored blocks (synchronizer/l1_check_block), the *)
(* table state.block (state/pgstatestorage/block.go) and the L1 info tree  *)
(* with its cache (state/l1infotree.go, StateTx of state/state.go).        *)
(*                                                                         *)
(* An L1 block is its number, the fork of L1 that made it (its hash) and   *)
(* whether it has events of the rollup.  An event of a block adds a leaf   *)
(* to the L1 info tree, whose root is the sequence of its leaves, and      *)
(* makes the executor change its state; that change survives a restart of  *)
(* the executor once it is flushed.                                        *)
(*                                                                         *)
(* External: L1 (blocks are added, replaced above the finalized one, and   *)
(* finalized) and the executor.                                            *)
(***************************************************************************)
EXTENDS Naturals, Sequences, FiniteSets

CONSTANTS
    Genesis,        \* genesis.RollupBlockNumber
    MaxBlock,       \* bound: number of the last L1 block
    MaxFork,        \* bound: number of L1 reorgs
    SyncChunkSize,
    SafeDistance,   \* from the finalized L1 block to the safe one
    ActiveCheckers, \* the background checkers the configuration enables
    Scenarios       \* the kinds of faults one behaviour may show, each once

FaultKinds == {"reorg", "process", "rpc", "db", "crash", "restart", "late", "desync"}

ASSUME SynchronizerAssumption ==
    /\ Genesis \in 2 .. MaxBlock
    /\ MaxFork \in Nat /\ SafeDistance \in Nat
    /\ SyncChunkSize \in Nat
    /\ ActiveCheckers \subseteq {"checker", "preChecker"}
    /\ Scenarios \subseteq SUBSET FaultKinds

VARIABLES
    chain, finalized, fork, \* L1: its blocks, the last final one, its forks so far
    blocks,                 \* state.block, by number
    cache,                  \* State.l1InfoTree
    exec,                   \* the executor: what has become of its last changes,
                            \* as far as the node knows of them
    proc,                   \* a call of ProcessBlockRange
    sync,                   \* the goroutine of Sync
    run,                    \* the goroutines of the two AsyncCheck
    result,                 \* their lastResult
    late,                   \* the checkers whose onFinishChecker is still to run
    faults                  \* kinds of faults shown so far

l1Vars == <<chain, finalized, fork>>
dbVars == <<blocks, cache, exec>>
checkVars == <<run, result, late>>
vars == <<l1Vars, dbVars, proc, sync, checkVars, faults>>

Fault(kind) ==
    /\ kind \notin faults
    /\ \E scenario \in Scenarios : faults \cup {kind} \subseteq scenario
    /\ faults' = faults \cup {kind}

NoBlock == [num |-> 0, fork |-> 0, ev |-> FALSE]

-----------------------------------------------------------------------------
(* L1.                                                                        *)

OnL1(b) == b.num <= Len(chain) /\ chain[b.num] = b

Safe == IF finalized + SafeDistance < Len(chain) THEN finalized + SafeDistance ELSE Len(chain)

\* GetRollupInfoByBlockRange: the blocks with events.
RollupInfo(from, to) ==
    SelectSeq(chain, LAMBDA b : b.ev /\ from <= b.num /\ b.num <= to)

MineBlock(ev) ==
    /\ Len(chain) < MaxBlock
    /\ chain' = Append(chain, [num |-> Len(chain) + 1, fork |-> fork, ev |-> ev])
    /\ UNCHANGED <<finalized, fork, dbVars, proc, sync, checkVars, faults>>

L1Reorg(n) ==
    /\ Fault("reorg") /\ fork < MaxFork
    /\ finalized <= n /\ n < Len(chain)
    /\ chain' = SubSeq(chain, 1, n)
    /\ fork' = fork + 1
    /\ UNCHANGED <<finalized, dbVars, proc, sync, checkVars>>

Finalize(n) ==
    /\ finalized < n /\ n <= Len(chain)
    /\ finalized' = n
    /\ UNCHANGED <<chain, fork, dbVars, proc, sync, checkVars, faults>>

-----------------------------------------------------------------------------
(* state.block.                                                               *)

Row(b, checked, root) == [block |-> b, checked |-> checked, root |-> root]
NoRow == Row(NoBlock, FALSE, <<>>)

\* GetPreviousBlock.
PreviousBlock(offset) ==
    IF offset < Len(blocks) THEN blocks[Len(blocks) - offset].block ELSE NoBlock

LastBlock == PreviousBlock(0)

\* GetPreviousBlockToBlockNumber.
PreviousTo(n) ==
    LET older == SelectSeq(blocks, LAMBDA r : r.block.num < n)
    IN  IF older = <<>> THEN NoBlock ELSE older[Len(older)].block

\* GetUncheckedBlocks, GetFirstUncheckedBlock.
Unchecked(from, to) ==
    SelectSeq(blocks, LAMBDA r : ~r.checked /\ from <= r.block.num /\ r.block.num <= to)

FirstOf(rows) == IF rows = <<>> THEN <<>> ELSE <<rows[1]>>

\* UpdateCheckedBlockByNumber.
MarkChecked(n) ==
    [i \in DOMAIN blocks |->
        IF blocks[i].block.num = n THEN [blocks[i] EXCEPT !.checked = TRUE] ELSE blocks[i]]

StoredNumber(n) == \E i \in DOMAIN blocks : blocks[i].block.num = n

\* AddBlock; block_num is the key of the table.
WithRow(row) ==
    LET n == row.block.num
    IN  SelectSeq(blocks, LAMBDA r : r.block.num < n) \o <<row>>
            \o SelectSeq(blocks, LAMBDA r : r.block.num > n)

\* ResetToL1BlockNumber.
UpTo(n) == SelectSeq(blocks, LAMBDA r : r.block.num <= n)

-----------------------------------------------------------------------------
(* The L1 info tree.  The genesis block adds no leaf.                         *)

HasLeaf(b) == b.ev /\ b.num # Genesis

LeavesOf(rows) ==
    LET leaves == SelectSeq(rows, LAMBDA r : HasLeaf(r.block))
    IN  [i \in DOMAIN leaves |-> leaves[i].block]

NoTree == [built |-> FALSE, leaves |-> <<>>]

\* buildL1InfoTreeCacheIfNeed.
Tree == IF cache.built THEN cache.leaves ELSE LeavesOf(blocks)

\* AddLeaf wants the index the database gives to be the count of the cache.
LeafFits(b) == HasLeaf(b) => Len(Tree) = Len(LeavesOf(blocks))

AddLeaf(b) ==
    IF HasLeaf(b) THEN [built |-> TRUE, leaves |-> Append(Tree, b)] ELSE cache

\* A mutant: the cache survives the rollback.
RollbackKeepsCache(b) == IF LeafFits(b) THEN AddLeaf(b) ELSE cache

\* StateTx.Rollback of a transaction that processed block b.
Rollback(b) == IF HasLeaf(b) /\ LeafFits(b) THEN NoTree ELSE cache

-----------------------------------------------------------------------------
(* The background checkers.                                                   *)

Checkers == {"checker", "preChecker"}
NotRun == [pc |-> "off", held |-> <<>>, cancelled |-> FALSE]
NoResult == [kind |-> "none", num |-> 0]
Canceled == [kind |-> "err", num |-> 0]
ReorgAt(n) == [kind |-> "reorg", num |-> n]

\* AsyncCheck.Run: isRunning is every pc but "off".
Launched == [c \in Checkers |->
    IF run[c].pc = "off" /\ c \in ActiveCheckers THEN [NotRun EXCEPT !.pc = "step"] ELSE run[c]]
ResultsOfLaunched == [c \in Checkers |-> IF run[c].pc = "off" THEN NoResult ELSE result[c]]

\* L1BlockCheckerIntegration.launch.
Launch == run' = Launched /\ result' = ResultsOfLaunched /\ UNCHANGED late

\* getMergedResults.
MergedResults ==
    LET r == result["checker"]
        p == result["preChecker"]
    IN  CASE p.kind = "none" -> r
          [] r.kind = "none" -> p
          [] r.kind = "reorg" /\ p.kind = "reorg" -> IF r.num < p.num THEN r ELSE p
          [] p.kind = "reorg" -> p
          [] OTHER -> r

\* onFinishChecker stops both.
Stopped(runs) == [c \in Checkers |->
    [runs[c] EXCEPT !.cancelled = runs[c].pc \notin {"off", "set"}]]

\* A checker has a result: it is set, then isRunning is cleared, then
\* onFinishChecker runs.  These three steps take place at once unless the
\* goroutine is held up.
Finish(c, res) ==
    /\ result' = [result EXCEPT ![c] = res]
    /\ \/ /\ run' = Stopped([run EXCEPT ![c] = NotRun])
          /\ UNCHANGED faults
       \/ /\ Fault("late")
          /\ run' = [run EXCEPT ![c] = [NotRun EXCEPT !.pc = "set"]]
    /\ UNCHANGED late

LateFinish(c) ==
    /\ \/ /\ run[c].pc = "set"
          /\ run' = [run EXCEPT ![c] = NotRun]
          /\ late' = late \cup {c}
       \/ /\ c \in late
          /\ run' = Stopped(run)
          /\ late' = late \ {c}
    /\ UNCHANGED <<l1Vars, dbVars, proc, sync, result, faults>>

\* What a checker looks at: the first unchecked block if it is final, the
\* unchecked blocks from the final to the safe one.
ToCheck(c) ==
    IF c = "checker" THEN FirstOf(Unchecked(0, finalized)) ELSE Unchecked(finalized, Safe)

Goto(c, pc, held) == run' = [run EXCEPT ![c].pc = pc, ![c].held = held]

\* AsyncCheck.step, and the first reads of Step.
CheckerStep(c) ==
    /\ run[c].pc = "step"
    /\ IF run[c].cancelled
       THEN Finish(c, Canceled)
       ELSE /\ ToCheck(c) # <<>>
            /\ Goto(c, "compare", ToCheck(c))
            /\ UNCHANGED <<result, late, faults>>
    /\ UNCHANGED <<l1Vars, dbVars, proc, sync>>

\* checkThatStateBlockIsTheSame.
Same(b) == \E i \in DOMAIN blocks : blocks[i].block = b /\ ~blocks[i].checked

\* CheckBlockHash: a block that matches is marked by the checker; one that
\* does not is a reorg, which the pre-checker verifies in the database.  A
\* block L1 does not have is an error, and the check starts again.
CheckBlockHash(c) ==
    /\ run[c].pc = "compare"
    /\ LET b    == Head(run[c].held).block
           rest == Tail(run[c].held)
       IN  CASE OnL1(b) /\ c = "checker" ->
                  Goto(c, "mark", run[c].held) /\ UNCHANGED <<result, late, faults>>
             [] OnL1(b) /\ c # "checker" ->
                  /\ Goto(c, IF rest = <<>> THEN "step" ELSE "compare", rest)
                  /\ UNCHANGED <<result, late, faults>>
             [] ~OnL1(b) /\ b.num <= Len(chain) /\ (c = "checker" \/ Same(b)) ->
                  Finish(c, ReorgAt(b.num))
             [] OTHER ->
                  Goto(c, "step", <<>>) /\ UNCHANGED <<result, late, faults>>
    /\ UNCHANGED <<l1Vars, dbVars, proc, sync>>

\* The end of doBlock, and the next block of doAllBlocks.
CheckerMark(c) ==
    /\ run[c].pc = "mark"
    /\ LET n    == Head(run[c].held).block.num
           rest == FirstOf(Unchecked(n + 1, finalized))
       IN  /\ blocks' = MarkChecked(n)
           /\ Goto(c, IF rest = <<>> THEN "step" ELSE "compare", rest)
    /\ UNCHANGED <<l1Vars, cache, exec, proc, sync, result, late, faults>>

Checker(c) == CheckerStep(c) \/ CheckBlockHash(c) \/ CheckerMark(c) \/ LateFinish(c)

-----------------------------------------------------------------------------
(* ProcessBlockRange: one transaction per block.  row is what it has stored.  *)

NoCall == [pc |-> "idle", todo |-> <<>>, final |-> 0, row |-> NoRow]
Call(todo) == [NoCall EXCEPT !.pc = "finalized", !.todo = todo]
Failed == [NoCall EXCEPT !.pc = "failed"]

GetFinalized ==
    /\ proc.pc = "finalized"
    /\ \/ proc' = [proc EXCEPT !.pc = "block", !.final = finalized] /\ UNCHANGED faults
       \/ Fault("rpc") /\ proc' = Failed
    /\ UNCHANGED <<l1Vars, dbVars, sync, checkVars>>

\* AddBlock and the events of the block.  They fail on a number that is
\* stored, the key of the table, on a leaf that does not fit, or for a reason
\* of their own.  To execute the events of a block is to hand PendingFlushID the
\* id of the prover, which must be the known one (see ProverChanged).
ProcessBlock ==
    /\ proc.pc = "block"
    /\ proc.todo # <<>>
    /\ LET b  == Head(proc.todo)
           ok == ~StoredNumber(b.num) /\ LeafFits(b)
       IN  \/ /\ ok
              /\ ~(b.ev /\ exec = "lost")
              /\ cache' = AddLeaf(b)
              /\ exec' = IF b.ev THEN "pending" ELSE exec
              /\ proc' = [proc EXCEPT
                    !.pc = "flush",
                    !.row = Row(b, b.num <= proc.final,
                                IF HasLeaf(b) THEN AddLeaf(b).leaves ELSE <<>>)]
              /\ UNCHANGED faults
           \/ /\ IF ok THEN Fault("process") ELSE UNCHANGED faults
              /\ cache' = Rollback(b)
              /\ proc' = Failed
              /\ UNCHANGED exec
    /\ UNCHANGED <<l1Vars, blocks, sync, checkVars>>

\* The block of the open transaction waits for a flush.
Awaited == proc.row.block.ev

\* checkFlushID, the first look, where the prover id is compared, or learned.
CheckFlushID ==
    /\ proc.pc = "flush"
    /\ Awaited => exec # "lost"
    /\ exec' = IF exec = "unknown" THEN "flushed" ELSE exec
    /\ proc' = [proc EXCEPT !.pc = "wait"]
    /\ UNCHANGED <<l1Vars, blocks, cache, sync, checkVars, faults>>

\* The changes are flushed, the transaction commits or fails.
Commit ==
    /\ proc.pc = "wait"
    /\ Awaited => exec = "flushed"
    /\ \/ /\ blocks' = WithRow(proc.row)
          /\ proc' = [proc EXCEPT !.pc = "block", !.todo = Tail(@), !.row = NoRow]
          /\ UNCHANGED <<cache, faults>>
       \/ /\ Fault("db")
          /\ cache' = IF HasLeaf(proc.row.block) THEN NoTree ELSE cache
          /\ proc' = Failed
          /\ UNCHANGED blocks
    /\ UNCHANGED <<l1Vars, exec, sync, checkVars>>

ProcessBlockRange == GetFinalized \/ ProcessBlock \/ CheckFlushID \/ Commit

RangeDone == proc.pc = "block" /\ proc.todo = <<>>
RangeFailed == proc.pc = "failed"

ExecutorFlush ==
    /\ exec = "pending"
    /\ exec' = "flushed"
    /\ UNCHANGED <<l1Vars, blocks, cache, proc, sync, checkVars, faults>>

\* The executor restarts with another prover id, and its flush ids start again
\* below the awaited one.
ExecutorRestart ==
    /\ exec \in {"pending", "flushed"}
    /\ Fault("restart")
    /\ exec' = "lost"
    /\ UNCHANGED <<l1Vars, blocks, cache, proc, sync, checkVars>>

-----------------------------------------------------------------------------
(* Sync.  base is the block a reorg check starts from, cur the one it is at,  *)
(* depth how far back; given the block of L1 the caller has read already; ctx *)
(* the caller; bad the block a reorg error names; todo the blocks of a range. *)

Loop(b) == [pc |-> "loop", ctx |-> "loop", last |-> b, base |-> NoBlock, cur |-> NoBlock,
            depth |-> 0, given |-> NoBlock, bad |-> 0, known |-> 0, to |-> 0, todo |-> <<>>]
AtStart == [Loop(NoBlock) EXCEPT !.pc = "start"]

\* A restart of the node, which forgets the ids of the flush and of the prover.
Restarted ==
    /\ sync' = AtStart
    /\ proc' = NoCall
    /\ cache' = NoTree
    /\ exec' = "unknown"
    /\ run' = [c \in Checkers |-> NotRun]
    /\ result' = [c \in Checkers |-> NoResult]
    /\ late' = {}
    /\ UNCHANGED <<l1Vars, blocks>>

Crash == Fault("crash") /\ sync.pc # "start" /\ Restarted

\* updateAndCheckProverID ends the process when the executor has restarted: in
\* checkFlushID for a flush that is awaited, and in PendingFlushID.
ProverChanged ==
    /\ exec = "lost"
    /\ \/ proc.pc = "flush" /\ Awaited
       \/ proc.pc = "block" /\ proc.todo # <<>> /\ Head(proc.todo).ev
       \/ sync.pc = "preGenesis" /\ RangeDone
    /\ Restarted
    /\ UNCHANGED faults

\* Sync returns an error while it initializes, which ends the process.
InitFailed ==
    /\ sync.pc \in {"preGenesis", "genesis"}
    /\ RangeFailed
    /\ Restarted
    /\ UNCHANGED faults

FirstBad(rows) ==
    LET bad == SelectSeq(rows, LAMBDA r : ~OnL1(r.block))
    IN  IF bad = <<>> THEN 0 ELSE bad[1].block.num

\* OnStart: the checkers run once, the first bad block is the start of a
\* reset, and both are launched.
BadOnStart ==
    LET final == IF "checker" \in ActiveCheckers THEN FirstBad(Unchecked(0, finalized)) ELSE 0
        safe  == IF "preChecker" \in ActiveCheckers THEN FirstBad(Unchecked(finalized, Safe)) ELSE 0
    IN  IF final # 0 THEN final ELSE safe

BlocksOnStart ==
    LET n     == BadOnStart
        kept  == IF n = 0 THEN blocks ELSE UpTo(n - 1)
    IN  [i \in DOMAIN kept |->
            [kept[i] EXCEPT !.checked =
                @ \/ ("checker" \in ActiveCheckers /\ kept[i].block.num <= finalized)]]

\* The last batch number is missing when the genesis is not stored.
Start ==
    /\ sync.pc = "start"
    /\ blocks' = BlocksOnStart
    /\ Launch
    /\ sync' = IF blocks' = <<>> THEN [AtStart EXCEPT !.pc = "preGenesis"]
               ELSE IF \E i \in DOMAIN blocks' : blocks'[i].block.num = Genesis
               THEN Loop(blocks'[Len(blocks')].block)
               ELSE [AtStart EXCEPT !.pc = "notSynchronized"]
    /\ proc' = IF blocks' = <<>> THEN Call(RollupInfo(1, Genesis - 1)) ELSE proc
    /\ UNCHANGED <<l1Vars, cache, exec, faults>>

\* The events before the rollup creation are stored, block by block; then
\* SetGenesis.
SetGenesis ==
    /\ sync.pc = "preGenesis" /\ RangeDone
    /\ exec # "lost"
    /\ exec' = "pending"
    /\ proc' = [NoCall EXCEPT !.pc = "flush", !.todo = <<chain[Genesis]>>,
                              !.row = Row(chain[Genesis], FALSE, <<>>)]
    /\ sync' = [sync EXCEPT !.pc = "genesis"]
    /\ UNCHANGED <<l1Vars, blocks, cache, checkVars, faults>>

GenesisSet ==
    /\ sync.pc = "genesis" /\ RangeDone
    /\ proc' = NoCall
    /\ sync' = Loop(LastBlock)
    /\ UNCHANGED <<l1Vars, dbVars, checkVars, faults>>

-----------------------------------------------------------------------------
(* The reorg check.                                                           *)

CheckFrom(ctx, base, given) ==
    [sync EXCEPT !.pc = "check", !.ctx = ctx, !.base = base, !.cur = base,
                 !.depth = 0, !.given = given]

\* A mutant: Sync goes on from the block it started the iteration with.
SyncErrorKeepsLast == sync' = Loop(sync.last)

\* An error of syncBlocks: Sync goes on from the last stored block.
SyncError == sync' = Loop(LastBlock)

\* The error a failed reset returns is no reorg error: its block number is 0.
BadBlock(n) == [CheckFrom("bad", sync.last, NoBlock) EXCEPT !.bad = n]

ToReset(b) == [sync EXCEPT !.pc = "reset", !.cur = b, !.given = NoBlock]

\* What the caller does with the answer of checkReorg.
Answer(found, failed) ==
    CASE sync.ctx = "bad" ->
           LET ok == IF failed \/ found = NoBlock \/ found.num >= sync.bad
                     THEN PreviousTo(sync.bad) ELSE found
           IN  /\ sync' = IF ok = NoBlock THEN BadBlock(0) ELSE ToReset(ok)
               /\ UNCHANGED <<proc, faults>>
      [] failed /\ sync.ctx = "loop" ->
           sync' = Loop(sync.last) /\ UNCHANGED <<proc, faults>>
      [] failed /\ sync.ctx \in {"range", "empty"} -> SyncError /\ UNCHANGED <<proc, faults>>
      [] ~failed /\ sync.ctx # "bad" /\ (found # NoBlock \/ sync.ctx = "empty") ->
           /\ sync' = ToReset(IF found = NoBlock THEN sync.base ELSE found)
           /\ UNCHANGED <<proc, faults>>
      [] ~failed /\ sync.ctx = "range" /\ found = NoBlock ->
           /\ sync' = [sync EXCEPT !.pc = "process", !.given = NoBlock]
           /\ proc' = Call(sync.todo)
           /\ UNCHANGED faults
      [] OTHER ->
           /\ \/ sync' = [Loop(sync.last) EXCEPT !.pc = "sync"] /\ UNCHANGED faults
              \/ Fault("desync") /\ sync' = BadBlock(0)
           /\ UNCHANGED proc

\* CheckReorgWrapper: the older of the block checkReorg goes back to and the
\* one before the block the background checkers found.
CheckReorgWrapper(answer) ==
    LET before == PreviousTo(MergedResults.num)
        older  == answer.block = NoBlock \/ answer.failed \/ before.num < answer.block.num
    IN  IF MergedResults.kind = "reorg" /\ before # NoBlock /\ older
        THEN [block |-> before, failed |-> FALSE]
        ELSE answer

\* It starts them again when they ended with an error.
Relaunch == IF MergedResults.kind = "err" THEN Launch ELSE UNCHANGED checkVars

\* A mutant: the walk skips a stored block.
BeforeSkips(depth) == PreviousBlock(depth + 2)

\* The stored block newCheckReorg looks at next.
Before(depth) == PreviousBlock(depth + 1)

\* newCheckReorg: an iteration of its loop.
CheckReorg ==
    /\ sync.pc = "check"
    /\ LET failed  == sync.given = NoBlock /\ sync.cur.num > Len(chain)
           matches == \/ IF sync.given # NoBlock THEN sync.given = sync.cur ELSE OnL1(sync.cur)
                      \/ sync.cur.num <= Genesis
           before  == Before(sync.depth)
           block   == IF failed \/ (matches /\ sync.cur = sync.base) THEN NoBlock ELSE sync.cur
           answer  == CheckReorgWrapper([block |-> block, failed |-> failed])
       IN  IF failed \/ matches \/ before = NoBlock
           THEN Answer(answer.block, answer.failed) /\ Relaunch
           ELSE /\ sync' = [sync EXCEPT !.cur = before, !.depth = @ + 1, !.given = NoBlock]
                /\ UNCHANGED <<proc, checkVars, faults>>
    /\ UNCHANGED <<l1Vars, dbVars>>

\* resetState, with what its caller does next.
ResetState ==
    /\ sync.pc = "reset"
    /\ cache' = NoTree
    /\ \/ /\ blocks' = UpTo(sync.cur.num)
          /\ sync' = Loop(sync.cur)
          /\ Launch
          /\ UNCHANGED faults
       \/ /\ Fault("db")
          /\ CASE sync.ctx = "loop" -> sync' = Loop(sync.last)
               [] sync.ctx = "bad" -> sync' = BadBlock(0)
               [] OTHER -> SyncError
          /\ UNCHANGED <<blocks, checkVars>>
    /\ UNCHANGED <<l1Vars, exec, proc>>

-----------------------------------------------------------------------------
(* The loop of Sync, and syncBlocksSequential.                                *)

Iteration ==
    /\ sync.pc = "loop"
    /\ sync' = CheckFrom("loop", sync.last, NoBlock)
    /\ UNCHANGED <<l1Vars, dbVars, proc, checkVars, faults>>

Chunk(to) == IF to < sync.known THEN to ELSE sync.known

GetLatest ==
    /\ sync.pc = "sync"
    /\ LET known == Len(chain)
           to    == IF sync.last.num + SyncChunkSize < known
                    THEN sync.last.num + SyncChunkSize ELSE known
       IN  sync' = IF sync.last.num > to THEN Loop(sync.last)
                   ELSE [sync EXCEPT !.pc = "range", !.known = known, !.to = to]
    /\ UNCHANGED <<l1Vars, dbVars, proc, checkVars, faults>>

\* A mutant: the first block of the answer is not compared with the stored one.
GetRangeUnchecked ==
    /\ sync.pc = "range"
    /\ LET read == RollupInfo(sync.last.num, sync.to)
           todo == SelectSeq(read, LAMBDA b : b.num > sync.last.num)
       IN  /\ sync' = [sync EXCEPT !.pc = "process", !.todo = todo]
           /\ proc' = Call(todo)
    /\ UNCHANGED <<l1Vars, dbVars, checkVars, faults>>

\* The answer starts with the last stored block, which is checked again; an
\* empty one means that it is no longer there.
GetRange ==
    /\ sync.pc = "range"
    /\ LET read == RollupInfo(sync.last.num, sync.to)
       IN  \/ /\ sync' = IF read = <<>>
                         THEN CheckFrom("empty", PreviousBlock(1), NoBlock)
                         ELSE [CheckFrom("range", sync.last, Head(read)) EXCEPT !.todo = Tail(read)]
              /\ UNCHANGED faults
           \/ Fault("rpc") /\ SyncError
    /\ UNCHANGED <<l1Vars, dbVars, proc, checkVars>>

RangeProcessed ==
    /\ sync.pc = "process" /\ RangeDone
    /\ LET last == IF sync.todo = <<>> THEN sync.last ELSE sync.todo[Len(sync.todo)]
       IN  sync' = IF sync.known <= sync.to THEN Loop(last)
                   ELSE [Loop(last) EXCEPT !.pc = "range", !.known = sync.known,
                                           !.to = Chunk(sync.to + SyncChunkSize)]
    /\ proc' = NoCall
    /\ UNCHANGED <<l1Vars, dbVars, checkVars, faults>>

RangeNotProcessed ==
    /\ sync.pc = "process" /\ RangeFailed
    /\ SyncError
    /\ proc' = NoCall
    /\ UNCHANGED <<l1Vars, dbVars, checkVars, faults>>

SyncStep ==
    \/ ProverChanged \/ InitFailed \/ Start \/ SetGenesis \/ GenesisSet
    \/ Iteration \/ CheckReorg \/ ResetState
    \/ GetLatest \/ GetRange \/ RangeProcessed \/ RangeNotProcessed

L1Grows == \E ev \in BOOLEAN : MineBlock(ev)

Environment ==
    \/ L1Grows
    \/ \E n \in 1 .. MaxBlock : L1Reorg(n) \/ Finalize(n)
    \/ ExecutorRestart
    \/ Crash

Init ==
    /\ chain = [n \in 1 .. Genesis |-> [num |-> n, fork |-> 0, ev |-> TRUE]]
    /\ finalized = Genesis /\ fork = 0
    /\ blocks = <<>> /\ cache = NoTree /\ exec = "unknown"
    /\ proc = NoCall /\ sync = AtStart
    /\ run = [c \in Checkers |-> NotRun]
    /\ result = [c \in Checkers |-> NoResult]
    /\ late = {} /\ faults = {}

Next ==
    \/ Environment
    \/ SyncStep
    \/ ProcessBlockRange
    \/ ExecutorFlush
    \/ \E c \in Checkers : Checker(c)

Spec == Init /\ [][Next]_vars

\* Goroutines are scheduled, L1 grows and answers, flushes end.
Fairness ==
    /\ WF_vars(L1Grows)
    /\ WF_vars(SyncStep)
    /\ WF_vars(ProcessBlockRange)
    /\ WF_vars(ExecutorFlush)
    /\ \A c \in Checkers : WF_vars(Checker(c))

FairSpec == Spec /\ Fairness

-----------------------------------------------------------------------------

Blocks == [num : 0 .. MaxBlock, fork : 0 .. MaxFork, ev : BOOLEAN]
Stored(rows) == {rows[i].block : i \in DOMAIN rows}

\* The values of the variables; the numbers of stored blocks grow; a call of
\* ProcessBlockRange is the one Sync waits for; and the block Sync goes on
\* from is a stored one, whatever errors, resets and checkers did before.
TypeOK ==
    /\ \A i \in DOMAIN chain : chain[i] \in Blocks /\ chain[i].num = i
    /\ finalized \in Genesis .. Len(chain)
    /\ \A i, j \in DOMAIN blocks : i < j => blocks[i].block.num < blocks[j].block.num
    /\ exec \in {"unknown", "pending", "flushed", "lost"}
    /\ proc.pc \in {"idle", "finalized", "block", "flush", "wait", "failed"}
    /\ proc.pc # "idle" <=> sync.pc \in {"preGenesis", "genesis", "process"}
    /\ sync.pc \in {"start", "preGenesis", "genesis", "notSynchronized", "loop", "check",
                    "reset", "sync", "range", "process"}
    /\ sync.pc \in {"loop", "sync", "range"} => sync.last \in Stored(blocks)
    /\ \A c \in Checkers : run[c].pc \in {"off", "step", "compare", "mark", "set"}

\* Blocks that L1 has replaced are the last ones stored: no block of the
\* current chain is stored on top of one that is not on it.  checkReorg only
\* looks at the last stored block before it says that there is no reorg, and
\* resetState deletes from a block on; both are right only because of this.
BadBlocksLast ==
    \A i, j \in DOMAIN blocks :
        i < j /\ OnL1(blocks[j].block) => OnL1(blocks[i].block)

\* The rows whose leaves the cache of the L1 info tree holds: the stored ones,
\* and the one of the open transaction.
Visible == IF proc.row = NoRow THEN blocks ELSE Append(blocks, proc.row)

\* The root stored with a block is the one of the L1 info tree of the blocks up
\* to it, and the cache the next root is computed from holds exactly the leaves
\* of the stored blocks: rollbacks, failed commits, resets and restarts never
\* leave it ahead of the database or behind it.
L1InfoTreeInSync ==
    /\ \A i \in DOMAIN Visible :
          HasLeaf(Visible[i].block) => Visible[i].root = LeavesOf(SubSeq(Visible, 1, i))
    /\ cache.built => cache.leaves = LeavesOf(Visible)

\* A stored block that is on L1 is deleted only on the word of a background
\* checker: the walk of checkReorg by itself never goes back further than the
\* newest block it still finds on L1.  A checker's answer may be older than the
\* block, which is stored again then.
GoodBlocksKept ==
    [][ \A b \in Stored(blocks) \ Stored(blocks') :
            OnL1(b) => MergedResults.kind = "reorg" /\ PreviousTo(MergedResults.num) = sync.cur ]_vars

InSync == Stored(blocks) = {chain[i] : i \in {j \in DOMAIN chain : chain[j].ev}}

\* The three ways the loop can be stuck for ever: a restart between the blocks
\* before the genesis and the genesis; an executor that restarts while a flush
\* is awaited; and a reset for an error that names no block.
HalfInitialized == sync.pc = "notSynchronized"
FlushLost == proc.pc = "wait" /\ Awaited /\ exec = "lost"
BadBlockLost == sync.ctx = "bad" /\ sync.bad = 0

\* When L1 stops changing, the stored blocks become the blocks of L1 with
\* events, and stay so, through reorgs of L1, failed calls, failed commits,
\* crashes, late results of the checkers and the resets they cause.
AllSynced == <>[](InSync \/ HalfInitialized \/ FlushLost \/ BadBlockLost)
=============================================================================
