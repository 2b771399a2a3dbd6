--------------------------- MODULE PipelineProofs ---------------------------
(***************************************************************************)
(* The numbers of the L2 blocks in the pipeline: every step keeps NumInv,  *)
(* for any constants.  With it the pipeline implements TrustedState.       *)
(***************************************************************************)
EXTENDS FinalizerProofs

-----------------------------------------------------------------------------
(* Numbers of L2 blocks: they grow along the pipeline, from the database to *)
(* the wip L2 block, whatever reorgs, forced batches and restarts discard   *)

UpTo(d, n) == \A i \in DOMAIN d : \A j \in DOMAIN d[i].blocks : d[i].blocks[j] <= n
Below(d, n) == \A i \in DOMAIN d : \A j \in DOMAIN d[i].blocks : d[i].blocks[j] < n

\* a root from which the number of the last L2 block in d can be read
Reaches(r, d) == \E n \in {0} \cup Range(r) : UpTo(d, n)

\* a closed L2 block that is not stored yet, and one that was executed
InWork(b) == b.num <= MaxBlock /\ b.num <= l2BlockCounter /\ Below(db, b.num)
Executed(b) ==
    /\ InWork(b) /\ sipBatch <= b.batch
    /\ b.num \in Range(b.stateRoot) /\ b.num \in Range(batches[b.batch].finalStateRoot)

DbNum ==
    /\ UpTo(db, l2BlockCounter)
    /\ Reaches(StoredRoot, db)
    /\ sipBatch # NoBatch /\ store.pc # "halted" => Reaches(batches[sipBatch].finalStateRoot, db)

StoreNum == \A i \in DOMAIN toStore : Executed(toStore[i])

ProcNum ==
    proc.pc = "toStore" =>
        /\ Executed(proc.block)
        /\ \A i \in DOMAIN toStore :
              toStore[i].num < proc.block.num /\ toStore[i].batch <= proc.block.batch

ToProcNum ==
    \A k \in DOMAIN toProcess :
        LET p == toProcess[k]
        IN  /\ InWork(p) /\ \A i \in DOMAIN toStore : toStore[i].num < p.num
            /\ \/ p.batch = NoBatch
               \/ sipBatch <= p.batch /\ \A i \in DOMAIN toStore : toStore[i].batch <= p.batch

Newest(n) ==
    /\ Below(db, n)
    /\ \A i \in DOMAIN toStore : toStore[i].num < n
    /\ proc.pc = "toStore" => proc.block.num < n
    /\ \A k \in DOMAIN toProcess : toProcess[k].num < n

WipNum ==
    /\ wipL2Block # NoBlock =>
          /\ wipL2Block.num <= l2BlockCounter /\ wipL2Block.batch \in {NoBatch, wipBatch}
          /\ fin.pc \in {"push", "newBatch"} => wipL2Block.num <= MaxBlock
          /\ fin.pc \notin {"sync", "halted"} => Newest(wipL2Block.num)
    /\ fin.pc \in {"closeSip", "forced", "forcedFailed"} => wipL2Block = NoBlock
    /\ fin.pc \in {"forced", "forcedFailed"} => Reaches(fin.root, db)

\* the end of processL2BlockReorg, with what was reloaded from the database
Reloaded(f) == f.pc \in {"open", "newBatch", "reorgDone"} /\ f.ret = "reorgDone"

RetNum ==
    /\ fin.pc = "reorgDone" => fin.ret = "reorgDone"
    /\ Reloaded(fin) => NoPendingL2Blocks
    /\ fin.pc \in {"push", "sync"} /\ fin.ret = "reorgDone" => fin.cont = "closeSip"
    /\ proc.pc = "failed" => l2BlockReorg

\* what is in memory is what the processor will go on with
Live == (~l2BlockReorg \/ Reloaded(fin)) /\ proc.pc # "halted" /\ store.pc # "halted"

\* the last batch with an executed L2 block
LastExecuted ==
    IF proc.pc = "toStore" THEN proc.block.batch
    ELSE IF toStore # <<>> THEN toStore[1].batch ELSE sipBatch

PipNum == Live /\ LastExecuted # NoBatch => pipBatch = LastExecuted

NumInv == DbNum /\ StoreNum /\ ProcNum /\ ToProcNum /\ WipNum /\ RetNum /\ PipNum

-----------------------------------------------------------------------------
(* The trusted state the rows stand for *)

Seen(d) == [i \in DOMAIN d |-> [num |-> d[i].num, items |-> d[i].blocks, open |-> d[i].wip]]

\* an L2 block starts the next batch
OpenedAfter(s, items) ==
    [i \in 1 .. (Len(s) + 1) |->
        IF i <= Len(s) THEN [s[i] EXCEPT !.open = FALSE]
        ELSE [num |-> s[Len(s)].num + 1, items |-> items, open |-> TRUE]]

-----------------------------------------------------------------------------
(* Lemmas on the numbers of L2 blocks *)

LEMMA RowNums ==
  ASSUME NEW d \in Seq(RowType)
  PROVE  /\ \A i \in DOMAIN d : d[i].blocks \in Seq(Int) /\ d[i].stateRoot \in Seq(Int)
         /\ \A i \in DOMAIN d : \A j \in DOMAIN d[i].blocks : d[i].blocks[j] \in Int
<1>1. \A i \in DOMAIN d : d[i] \in RowType
  OBVIOUS
<1>2. \A i \in DOMAIN d : d[i].blocks \in Seq(Int) /\ d[i].stateRoot \in Seq(Int)
  BY <1>1, Zenon DEF RowType, Root
<1>3. \A s \in Seq(Int) : \A j \in DOMAIN s : s[j] \in Int
  OBVIOUS
<1> QED BY <1>2, <1>3, Zenon

LEMMA UpToMore ==
  ASSUME NEW d \in Seq(RowType), NEW m \in Int, NEW n \in Int, UpTo(d, m), m <= n
  PROVE  UpTo(d, n) /\ (m < n => Below(d, n))
BY RowNums DEF UpTo, Below

LEMMA BelowUpTo ==
  ASSUME NEW d \in Seq(RowType), NEW n \in Int, Below(d, n)
  PROVE  UpTo(d, n)
BY RowNums DEF UpTo, Below

\* rows with the same data
LEMMA SameData ==
  ASSUME NEW d, NEW e, DOMAIN e = DOMAIN d, \A i \in DOMAIN d : e[i].blocks = d[i].blocks
  PROVE  /\ \A n : UpTo(e, n) <=> UpTo(d, n)
         /\ \A n : Below(e, n) <=> Below(d, n)
         /\ \A r : Reaches(r, e) <=> Reaches(r, d)
<1>1. \A n : UpTo(e, n) <=> UpTo(d, n)
  BY Zenon DEF UpTo
<1>2. \A n : Below(e, n) <=> Below(d, n)
  BY Zenon DEF Below
<1> QED BY <1>1, <1>2, Zenon DEF Reaches

\* the pieces of state the pipeline works on
LEMMA PipeTypes ==
  ASSUME BaseInv
  PROVE  /\ db \in Seq(RowType) /\ l2BlockCounter \in Nat /\ wipBatch \in Nat
         /\ sipBatch \in Nat /\ batches \in Batches
         /\ toStore \in Seq(BlockType) /\ toProcess \in Seq(BlockType)
         /\ fin \in FinalizerType
         /\ \A i \in DOMAIN toStore :
               /\ toStore[i] \in BlockType /\ toStore[i].num \in Nat /\ toStore[i].batch \in Nat
               /\ toStore[i].batch \in BatchNum \ {0} /\ toStore[i].batch <= wipBatch
         /\ \A k \in DOMAIN toProcess :
               /\ toProcess[k] \in BlockType /\ toProcess[k].num \in Nat /\ toProcess[k].batch \in Nat
               /\ toProcess[k].batch \in BatchNum /\ toProcess[k].batch <= wipBatch
         /\ proc.pc = "toStore" =>
               /\ proc.block \in BlockType /\ proc.block.num \in Nat /\ proc.block.batch \in Nat
               /\ proc.block.batch \in BatchNum \ {0} /\ proc.block.batch <= wipBatch
         /\ wipL2Block # NoBlock => wipL2Block \in BlockType /\ wipL2Block.num \in Nat
         /\ sipBatch # NoBatch => sipBatch \in BatchNum \ {0} /\ sipBatch <= wipBatch
<1>1. /\ db \in Seq(RowType) /\ l2BlockCounter \in Nat /\ wipBatch \in BatchNum
      /\ sipBatch \in BatchNum /\ batches \in Batches /\ fin \in FinalizerType
      /\ toStore \in Seq(BlockType) /\ toProcess \in Seq(BlockType)
      /\ wipL2Block \in BlockType \cup {NoBlock}
  BY Zenon DEF BaseInv, TypeOK
<1>2. \A b \in BlockType : b.num \in Nat /\ b.batch \in BatchNum
  BY Zenon DEF BlockType
<1>3. \A n \in BatchNum : n \in Nat
  BY FinalizerAssumption DEF BatchNum
<1>4. \A i \in DOMAIN toStore : toStore[i] \in BlockType
  BY <1>1
<1>5. \A k \in DOMAIN toProcess : toProcess[k] \in BlockType
  BY <1>1
<1>6. /\ proc.pc = "toStore" => /\ proc.block \in BlockType /\ proc.block.batch <= wipBatch
                                /\ proc.block.batch # 0
      /\ \A i \in DOMAIN toStore : toStore[i].batch <= wipBatch /\ toStore[i].batch # 0
      /\ \A k \in DOMAIN toProcess : toProcess[k].batch <= wipBatch
      /\ sipBatch <= wipBatch
  BY Zenon DEF BaseInv, QueueInv, OrderInv, NoBatch
<1> QED BY <1>1, <1>2, <1>3, <1>4, <1>5, <1>6, Zenon DEF NoBatch

\* a step of the finalizer in memory: the root of no batch in work is touched
LEMMA FrontStep ==
  ASSUME BaseInv, NumInv,
         UNCHANGED <<pipBatch, queueVars, dbVars, proc, store>>,
         l2BlockCounter' \in Nat, l2BlockCounter <= l2BlockCounter',
         \A n \in BatchNum \ {0} : n <= wipBatch =>
             batches'[n].finalStateRoot = batches[n].finalStateRoot,
         Live' => Live \/ LastExecuted = NoBatch
  PROVE  DbNum' /\ StoreNum' /\ ProcNum' /\ ToProcNum' /\ PipNum'
<1> USE DEF queueVars, dbVars
<1>1. UpTo(db, l2BlockCounter')
  BY PipeTypes, UpToMore DEF NumInv, DbNum
<1>2. DbNum'
  <2>1. sipBatch # NoBatch => batches'[sipBatch].finalStateRoot = batches[sipBatch].finalStateRoot
    BY PipeTypes, Zenon
  <2>2. StoredRoot' = StoredRoot
    BY Zenon DEF StoredRoot
  <2>3. sipBatch # NoBatch /\ store.pc # "halted" => Reaches(batches[sipBatch].finalStateRoot, db)
    BY Zenon DEF NumInv, DbNum
  <2>4. Reaches(StoredRoot, db)
    BY Zenon DEF NumInv, DbNum
  <2> QED BY <1>1, <2>1, <2>2, <2>3, <2>4, Zenon DEF DbNum
<1>3. ASSUME NEW b \in BlockType, b.batch \in BatchNum \ {0}, b.batch <= wipBatch,
             b.num \in Nat, Executed(b)
      PROVE  Executed(b)'
  BY <1>3, PipeTypes DEF Executed, InWork
<1>4. StoreNum'
  BY <1>3, PipeTypes, Zenon DEF NumInv, StoreNum
<1>5. ProcNum'
  BY <1>3, PipeTypes, Zenon DEF NumInv, ProcNum
<1>6. ToProcNum'
  <2>1. ASSUME NEW b \in BlockType, b.num \in Nat, InWork(b) PROVE InWork(b)'
    BY <2>1, PipeTypes DEF InWork
  <2> QED BY <2>1, PipeTypes, Zenon DEF NumInv, ToProcNum
<1>7. PipNum'
  <2>1. LastExecuted' = LastExecuted
    BY Zenon DEF LastExecuted
  <2> QED BY <2>1, Zenon DEF NumInv, PipNum
<1> QED BY <1>2, <1>4, <1>5, <1>6, <1>7, Zenon

LEMMA CountKeepsFinal ==
  ASSUME NEW B \in Batches, NEW w \in BatchNum \ {0}, NEW C,
         C = [B EXCEPT ![w].countOfL2Blocks = @ + 1]
  PROVE  \A n \in BatchNum \ {0} :
            /\ C[n].finalStateRoot = B[n].finalStateRoot /\ C[n].imStateRoot = B[n].imStateRoot
            /\ C[n].initialStateRoot = B[n].initialStateRoot
            /\ n # w => C[n].countOfL2Blocks = B[n].countOfL2Blocks
            /\ n = w => C[n].countOfL2Blocks = B[n].countOfL2Blocks + 1
BY Zenon DEF Batches, BatchType

LEMMA ImKeepsFinal ==
  ASSUME NEW B \in Batches, NEW w \in BatchNum \ {0}, NEW r, NEW C,
         C = [B EXCEPT ![w].imStateRoot = r]
  PROVE  \A n \in BatchNum \ {0} :
            /\ C[n].finalStateRoot = B[n].finalStateRoot
            /\ C[n].initialStateRoot = B[n].initialStateRoot
            /\ C[n].countOfL2Blocks = B[n].countOfL2Blocks
            /\ n # w => C[n].imStateRoot = B[n].imStateRoot
            /\ n = w => C[n].imStateRoot = r
BY Zenon DEF Batches, BatchType

LEMMA OpenKeepsOthers ==
  ASSUME NEW B \in Batches, NEW w \in BatchNum \ {0}, NEW x, NEW C, C = [B EXCEPT ![w] = x]
  PROVE  C[w] = x /\ \A n \in BatchNum \ {0} : n # w => C[n] = B[n]
BY Zenon DEF Batches

\* the finalizer moves on with the wip L2 block it has
LEMMA MoveOn ==
  ASSUME BaseInv, NumInv,
         UNCHANGED <<pipBatch, queueVars, dbVars, proc, store, wipBatch, l2BlockCounter, l2BlockReorg>>,
         \A n \in BatchNum \ {0} : batches'[n].finalStateRoot = batches[n].finalStateRoot,
         wipL2Block # NoBlock, wipL2Block' # NoBlock,
         wipL2Block'.num = wipL2Block.num, wipL2Block'.batch = wipL2Block.batch,
         fin.pc \notin {"sync", "halted"},
         fin'.pc \notin {"closeSip", "forced", "forcedFailed", "reorgDone"},
         fin'.pc \in {"push", "newBatch"} => wipL2Block.num <= MaxBlock,
         fin'.pc \in {"open", "newBatch", "push", "sync"} => fin'.ret # "reorgDone"
  PROVE  NumInv'
<1> USE DEF queueVars, dbVars
<1>1. Live' => Live
  BY Zenon DEF Live, Reloaded
<1>2. DbNum' /\ StoreNum' /\ ProcNum' /\ ToProcNum' /\ PipNum'
  BY <1>1, PipeTypes, FrontStep
<1>3. WipNum'
  <2>1. Newest(wipL2Block.num) /\ wipL2Block.num <= l2BlockCounter
        /\ wipL2Block.batch \in {NoBatch, wipBatch}
    BY Zenon DEF NumInv, WipNum
  <2>2. Newest(wipL2Block.num)'
    BY <2>1, Zenon DEF Newest
  <2> QED BY <2>1, <2>2, Zenon DEF WipNum
<1>4. RetNum'
  BY Zenon DEF NumInv, RetNum, Reloaded, NoPendingL2Blocks
<1> QED BY <1>2, <1>3, <1>4, Zenon DEF NumInv

\* closeWIPL2Block counts the L2 block and goes on to push it
LEMMA CloseBlockNum ==
  ASSUME BaseInv, NumInv,
         UNCHANGED <<wipBatch, pipBatch, wipL2Block, l2BlockCounter, queueVars, reorgVars,
                     dbVars, proc, store>>,
         fin.pc \in Filling, fin.pc \notin {"sync", "halted"},
         NEW ret \in {"top", "select"}, NEW cont, CloseWIPL2Block(ret, cont),
         l2BlockCounter < MaxBlock
  PROVE  NumInv'
<1> USE DEF queueVars, reorgVars, dbVars
<1>1. wipL2Block # NoBlock /\ wipBatch \in BatchNum \ {0} /\ batches \in Batches
      /\ fin \in FinalizerType
  BY BaseTypes, Zenon DEF Filling
<1> USE <1>1
<1>2. /\ batches' = [batches EXCEPT ![wipBatch].countOfL2Blocks = @ + 1]
      /\ fin' = [fin EXCEPT !.pc = "push", !.ret = ret, !.cont = cont]
  BY Zenon DEF CloseWIPL2Block
<1>3. fin'.pc = "push" /\ fin'.ret # "reorgDone"
  BY <1>2, Zenon DEF FinalizerType
<1>4. \A n \in BatchNum \ {0} : batches'[n].finalStateRoot = batches[n].finalStateRoot
  BY <1>2, CountKeepsFinal
<1>5. wipL2Block.num <= MaxBlock
  <2>1. wipL2Block.num <= l2BlockCounter
    BY Zenon DEF NumInv, WipNum
  <2> QED BY <2>1, PipeTypes, FinalizerAssumption
<1> QED BY <1>3, <1>4, <1>5, MoveOn, Zenon

LEMMA FinalizeNum ==
  ASSUME BaseInv, NumInv, FinalizeWIPBatch,
         UNCHANGED <<wipBatch, pipBatch, wipL2Block, l2BlockCounter, queueVars, reorgVars,
                     dbVars, proc, store>>,
         fin.pc \in {"select", "check"}
  PROVE  NumInv'
<1> USE DEF queueVars, reorgVars, dbVars
<1>1. wipL2Block # NoBlock
  BY BaseTypes, Zenon DEF Filling
<1> USE <1>1
<1>2. CASE wipL2Block.empty
  <2>1. fin' = [fin EXCEPT !.pc = "newBatch", !.ret = "top"] /\ UNCHANGED batches
        /\ l2BlockCounter < MaxBlock
    BY <1>2, Zenon DEF FinalizeWIPBatch
  <2>2. fin'.pc = "newBatch" /\ fin'.ret = "top"
    BY <2>1, PipeTypes, Zenon DEF FinalizerType
  <2>3. wipL2Block.num <= MaxBlock
    <3>1. wipL2Block.num <= l2BlockCounter
      BY Zenon DEF NumInv, WipNum
    <3> QED BY <2>1, <3>1, PipeTypes, FinalizerAssumption
  <2> QED BY <2>1, <2>2, <2>3, MoveOn, Zenon
<1>3. CASE ~wipL2Block.empty
  BY <1>3, CloseBlockNum, Zenon DEF FinalizeWIPBatch, Filling
<1> QED BY <1>2, <1>3, Zenon

LEMMA NewestOpen ==
  ASSUME BaseInv, NumInv
  PROVE  Newest(l2BlockCounter + 1)
<1>1. Below(db, l2BlockCounter + 1)
  BY PipeTypes, UpToMore DEF NumInv, DbNum
<1>2. \A i \in DOMAIN toStore : toStore[i].num < l2BlockCounter + 1
  <2>1. \A i \in DOMAIN toStore : toStore[i].num <= l2BlockCounter
    BY Zenon DEF NumInv, StoreNum, Executed, InWork
  <2> QED BY <2>1, PipeTypes
<1>3. proc.pc = "toStore" => proc.block.num < l2BlockCounter + 1
  <2>1. proc.pc = "toStore" => proc.block.num <= l2BlockCounter
    BY Zenon DEF NumInv, ProcNum, Executed, InWork
  <2> QED BY <2>1, PipeTypes
<1>4. \A k \in DOMAIN toProcess : toProcess[k].num < l2BlockCounter + 1
  <2>1. \A k \in DOMAIN toProcess : toProcess[k].num <= l2BlockCounter
    BY Zenon DEF NumInv, ToProcNum, InWork
  <2> QED BY <2>1, PipeTypes
<1> QED BY <1>1, <1>2, <1>3, <1>4, Zenon DEF Newest

\* nothing is pending
LEMMA Drained ==
  ASSUME BaseInv, NoPendingL2Blocks
  PROVE  /\ toStore = <<>> /\ toProcess = <<>> /\ proc.pc = "idle" /\ store.pc = "idle"
         /\ DOMAIN toStore = {} /\ DOMAIN toProcess = {}
<1>1. toStore \in Seq(BlockType) /\ toProcess \in Seq(BlockType)
      /\ Len(toStore) \in Nat /\ Len(toProcess) \in Nat
  BY PipeTypes
<1>2. Len(toStore) = 0 /\ Len(toProcess) = 0 /\ proc.pc = "idle" /\ store.pc = "idle"
  BY <1>1 DEF BaseInv, QueueInv, NoPendingL2Blocks
<1>3. toStore = <<>> /\ toProcess = <<>>
  BY <1>1, <1>2, EmptySeq, Zenon
<1> QED BY <1>2, <1>3

\* a step with nothing pending that leaves the data of the batches as they are
LEMMA DrainedStep ==
  ASSUME BaseInv, NumInv, NoPendingL2Blocks, UNCHANGED <<queueVars, proc, l2BlockCounter>>,
         DOMAIN db' = DOMAIN db, \A i \in DOMAIN db : db'[i].blocks = db[i].blocks,
         StoredRoot' = StoredRoot,
         sipBatch' # NoBatch => Reaches(batches'[sipBatch'].finalStateRoot, db),
         Live' /\ sipBatch' # NoBatch => pipBatch' = sipBatch'
  PROVE  DbNum' /\ StoreNum' /\ ProcNum' /\ ToProcNum' /\ PipNum'
<1> USE DEF queueVars
<1>1. /\ toStore' = <<>> /\ toProcess' = <<>> /\ proc'.pc = "idle"
      /\ DOMAIN toStore' = {} /\ DOMAIN toProcess' = {}
  BY Drained, Zenon
<1>2. DbNum'
  <2>1. /\ \A n : UpTo(db', n) <=> UpTo(db, n)
        /\ \A r : Reaches(r, db') <=> Reaches(r, db)
    BY SameData, Zenon
  <2> QED BY <2>1, Zenon DEF NumInv, DbNum
<1>3. StoreNum' /\ ProcNum' /\ ToProcNum'
  BY <1>1, Zenon DEF StoreNum, ProcNum, ToProcNum
<1>4. PipNum'
  BY <1>1, Zenon DEF PipNum, LastExecuted
<1> QED BY <1>2, <1>3, <1>4, Zenon

\* closing the row of the sip batch leaves the data as it is
LEMMA CloseKeeps ==
  ASSUME BaseInv, FinalizeSIPBatch
  PROVE  /\ DOMAIN db' = DOMAIN db /\ \A i \in DOMAIN db : db'[i].blocks = db[i].blocks
         /\ StoredRoot' = StoredRoot
<1>1. db \in Seq(RowType) /\ Len(db) >= 1
  BY Zenon DEF BaseInv, RowsOK
<1>2. Len(db) \in Nat /\ DOMAIN db = 1 .. Len(db) /\ Len(db) \in 1 .. Len(db)
  BY <1>1
<1>3. /\ db' \in Seq(RowType) /\ Len(db') = Len(db)
      /\ \A i \in 1 .. Len(db) : db'[i].stateRoot = db[i].stateRoot /\ db'[i].blocks = db[i].blocks
  BY <1>1, CloseRows DEF FinalizeSIPBatch
<1>4. DOMAIN db' = 1 .. Len(db)
  BY <1>3
<1> QED BY <1>2, <1>3, <1>4, Zenon DEF StoredRoot

\* initWIPBatch on rows with the data of the database
LEMMA InitNum ==
  ASSUME BaseInv, NumInv, NoPendingL2Blocks, NEW ret \in {"top", "reorgDone"},
         UNCHANGED <<l2BlockCounter, queueVars, reorgVars, forcedVars, proc, store>>,
         RowsOK(db', NoBatch), DOMAIN db' = DOMAIN db,
         \A i \in DOMAIN db : db'[i].blocks = db[i].blocks, StoredRoot' = StoredRoot,
         InitWIPBatch(db', ret)
  PROVE  NumInv'
<1> USE DEF queueVars, reorgVars, forcedVars
<1> DEFINE d == db'
           row == d[Len(d)]
           num == IF IsOpen(row) THEN row.num ELSE row.num + 1
<1>1. /\ d \in Seq(RowType) /\ Len(d) \in Nat /\ Len(d) \in 1 .. Len(d) /\ row.num = Len(d)
      /\ row.num \in BatchNum /\ row.num # 0
  <2>1. d \in Seq(RowType) /\ Len(d) >= 1
    BY Zenon DEF RowsOK
  <2> USE <2>1
  <2>2. Len(d) \in Nat /\ Len(d) \in 1 .. Len(d)
    OBVIOUS
  <2>3. row \in RowType /\ row.num = Len(d)
    BY <2>2 DEF RowsOK
  <2>4. row.num \in BatchNum
    BY <2>3, Zenon DEF RowType
  <2> QED BY <2>2, <2>3, <2>4
<1>2. /\ pipBatch' = sipBatch' /\ wipL2Block' = NoBlock
      /\ sipBatch' = (IF IsOpen(row) THEN num ELSE NoBatch)
      /\ \/ ~IsOpen(row) /\ Goto("keepHalting") /\ UNCHANGED batches
         \/ /\ batches' = [batches EXCEPT ![num] =
                     IF IsOpen(row) THEN SetWIPBatch(row, d[Len(d) - 1])
                                    ELSE OpenNewWIPBatch(row.stateRoot)]
            /\ fin' = [fin EXCEPT !.pc = "open", !.ret = ret]
  BY Zenon DEF InitWIPBatch
<1>3. sipBatch' # NoBatch => batches'[sipBatch'].finalStateRoot = StoredRoot
  <2>1. SUFFICES ASSUME sipBatch' # NoBatch
                 PROVE  batches'[sipBatch'].finalStateRoot = StoredRoot
    BY Zenon
  <2>2. IsOpen(row) /\ num = row.num /\ sipBatch' = num
    BY <1>2, <2>1, Zenon
  <2> USE <2>2
  <2>3. num \in BatchNum \ {0} /\ batches \in Batches
    BY <1>1, BaseTypes, Zenon
  <2>4. batches' = [batches EXCEPT ![num] = SetWIPBatch(row, d[Len(d) - 1])]
    BY <1>2, Zenon
  <2>5. batches'[num] = SetWIPBatch(row, d[Len(d) - 1])
    <3> HIDE DEF num
    <3> QED BY <2>3, <2>4, Zenon DEF Batches
  <2>6. batches'[num].finalStateRoot = row.stateRoot
    BY <2>5 DEF SetWIPBatch
  <2>7. row.stateRoot = StoredRoot'
    BY Zenon DEF StoredRoot
  <2> QED BY <2>6, <2>7, Zenon
<1>4. Reaches(StoredRoot, db)
  BY Zenon DEF NumInv, DbNum
<1>5. DbNum' /\ StoreNum' /\ ProcNum' /\ ToProcNum' /\ PipNum'
  <2>1. sipBatch' # NoBatch => Reaches(batches'[sipBatch'].finalStateRoot, db)
    BY <1>3, <1>4, Zenon
  <2>2. sipBatch' # NoBatch => pipBatch' = sipBatch'
    BY <1>2, Zenon
  <2> HIDE DEF d, row, num
  <2> QED BY <2>1, <2>2, DrainedStep, Zenon
<1>6. fin'.pc \in {"open", "keepHalting"}
  <2>1. fin' = [fin EXCEPT !.pc = "keepHalting"] \/ fin' = [fin EXCEPT !.pc = "open", !.ret = ret]
    BY <1>2, Zenon DEF Goto
  <2> QED BY <2>1, BaseTypes, Zenon DEF FinalizerType
<1>7. WipNum'
  BY <1>2, <1>6, Zenon DEF WipNum
<1>8. RetNum'
  BY <1>6, Zenon DEF NumInv, RetNum, NoPendingL2Blocks
<1> QED BY <1>5, <1>7, <1>8, Zenon DEF NumInv

\* more rows, or a root with more in it
LEMMA ReachesMore ==
  ASSUME NEW d \in Seq(RowType), NEW e, NEW r \in Seq(Int), NEW s,
         Range(r) \subseteq Range(s), Reaches(r, d),
         \A n \in Nat : UpTo(d, n) => UpTo(e, n)
  PROVE  Reaches(s, e)
<1>1. PICK n \in {0} \cup Range(r) : UpTo(d, n)
  BY Zenon DEF Reaches
<1>2. n \in Int
  BY DEF Range
<1>3. CASE n \in Nat
  <2>1. UpTo(e, n)
    BY <1>1, <1>3, Zenon
  <2> QED BY <2>1, Zenon DEF Reaches
<1>4. CASE n \notin Nat
  <2>1. n <= 0
    BY <1>2, <1>4
  <2>2. UpTo(d, 0)
    BY <1>1, <1>2, <2>1, UpToMore
  <2>3. UpTo(e, 0)
    BY <2>2, Zenon
  <2> QED BY <2>3, Zenon DEF Reaches
<1> QED BY <1>3, <1>4, Zenon

LEMMA AppendRange ==
  ASSUME NEW r \in Seq(Int), NEW n \in Int
  PROVE  /\ Append(r, n) \in Seq(Int) /\ Range(r) \subseteq Range(Append(r, n))
         /\ n \in Range(Append(r, n))
<1>1. /\ Append(r, n) \in Seq(Int) /\ DOMAIN Append(r, n) = 1 .. (Len(r) + 1)
      /\ DOMAIN r = 1 .. Len(r) /\ Len(r) \in Nat
      /\ Append(r, n)[Len(r) + 1] = n
      /\ \A i \in DOMAIN r : Append(r, n)[i] = r[i]
  OBVIOUS
<1> USE <1>1
<1>2. \A i \in DOMAIN r : i \in DOMAIN Append(r, n)
  OBVIOUS
<1>3. Len(r) + 1 \in DOMAIN Append(r, n)
  OBVIOUS
<1> QED BY <1>2, <1>3, Zenon DEF Range

LEMMA OneAtMost ==
  ASSUME NEW q \in Seq(BlockType), Len(q) <= 1, q # <<>>
  PROVE  DOMAIN q = {1}
<1>1. Len(q) = 1 /\ DOMAIN q = 1 .. Len(q)
  BY PopOne
<1> QED BY <1>1

LEMMA PropagateKeeps ==
  ASSUME BaseInv, NEW b \in BatchNum \ {0}
  PROVE  /\ PropagateRoot(b) \in Batches
         /\ \A n \in BatchNum \ {0} : n # b => PropagateRoot(b)[n] = batches[n]
         /\ pipBatch = b => PropagateRoot(b) = batches
<1>1. batches \in Batches /\ PropagateRoot(b) \in Batches
  BY BaseTypes, PropagateTyped, Zenon
<1>2. \A n \in BatchNum \ {0} : n # b => PropagateRoot(b)[n] = batches[n]
  <2>1. CASE pipBatch # NoBatch /\ pipBatch # b
    BY <1>1, <2>1, Zenon DEF PropagateRoot, Batches
  <2>2. CASE ~(pipBatch # NoBatch /\ pipBatch # b)
    BY <2>2, Zenon DEF PropagateRoot
  <2> QED BY <2>1, <2>2, Zenon
<1> QED BY <1>1, <1>2, Zenon DEF PropagateRoot

LEMMA FinalOnly ==
  ASSUME NEW B \in Batches, NEW b \in BatchNum \ {0}, NEW r, NEW C,
         C = [B EXCEPT ![b].finalStateRoot = r]
  PROVE  /\ \A n \in BatchNum \ {0} : n # b => C[n] = B[n]
         /\ C[b].finalStateRoot = r /\ C[b].imStateRoot = B[b].imStateRoot
         /\ C[b].initialStateRoot = B[b].initialStateRoot
         /\ C[b].countOfL2Blocks = B[b].countOfL2Blocks
BY Zenon DEF Batches, BatchType

\* the L2 block of batch b is processed: where b is the batch of what was
\* executed before, its root only gets longer
LEMMA FinalGrows ==
  ASSUME BaseInv, NumInv, NEW b \in BatchNum \ {0}, proc.pc = "idle", ~l2BlockReorg,
         UNCHANGED <<toStore, sipBatch, db, l2BlockCounter, store>>,
         sipBatch <= b, \A i \in DOMAIN toStore : toStore[i].batch <= b,
         \A n \in BatchNum \ {0} : n # b => batches'[n] = batches[n],
         pipBatch = b =>
             Range(batches[b].finalStateRoot) \subseteq Range(batches'[b].finalStateRoot)
  PROVE  DbNum' /\ StoreNum'
<1>1. CASE store.pc = "halted"
  <2>1. DOMAIN toStore = {}
    <3>1. toStore \in Seq(BlockType) /\ Len(toStore) \in Nat
      BY PipeTypes
    <3>2. Len(toStore) = 0
      BY <1>1, <3>1 DEF BaseInv, QueueInv
    <3> QED BY <3>1, <3>2
  <2>2. StoredRoot' = StoredRoot
    BY Zenon DEF StoredRoot
  <2> QED BY <1>1, <2>1, <2>2, Zenon DEF NumInv, DbNum, StoreNum
<1>2. CASE store.pc # "halted"
  <2>1. Live
    BY <1>2, Zenon DEF Live
  <2>2. toStore # <<>> => DOMAIN toStore = {1}
    <3>1. toStore \in Seq(BlockType) /\ Len(toStore) \in Nat
      BY PipeTypes
    <3>2. Len(toStore) <= 1
      <4>1. storeWG <= 1 /\ storeWG = Len(toStore) + (IF store.pc = "idle" THEN 0 ELSE 1)
        BY Zenon DEF BaseInv, QueueInv
      <4> QED BY <3>1, <4>1
    <3> QED BY <3>1, <3>2, OneAtMost, Zenon
  <2>3. toStore = <<>> => DOMAIN toStore = {}
    OBVIOUS
  <2>4. ASSUME NEW i \in DOMAIN toStore
        PROVE  toStore[i].batch = b => pipBatch = b
    <3>1. i = 1 /\ toStore # <<>>
      BY <2>2, <2>3, Zenon
    <3>2. LastExecuted = toStore[i].batch
      BY <3>1, Zenon DEF LastExecuted
    <3> QED BY <2>1, <3>2, Zenon DEF NumInv, PipNum, NoBatch
  <2>5. sipBatch = b => pipBatch = b
    <3>1. SUFFICES ASSUME sipBatch = b PROVE pipBatch = b
      BY Zenon
    <3>2. CASE toStore = <<>>
      <4>1. LastExecuted = b
        BY <3>1, <3>2, Zenon DEF LastExecuted
      <4> QED BY <2>1, <4>1, Zenon DEF NumInv, PipNum, NoBatch
    <3>3. CASE toStore # <<>>
      <4>1. 1 \in DOMAIN toStore
        BY <2>2, <3>3, Zenon
      <4>2. sipBatch <= toStore[1].batch /\ toStore[1].batch <= b /\ toStore[1].batch \in Nat
        BY <4>1, PipeTypes, Zenon DEF NumInv, StoreNum, Executed
      <4>3. toStore[1].batch = b
        BY <3>1, <4>2, PipeTypes
      <4> QED BY <2>4, <4>1, <4>3, Zenon
    <3> QED BY <3>2, <3>3, Zenon
  <2>6. DbNum'
    <3>1. StoredRoot' = StoredRoot
      BY Zenon DEF StoredRoot
    <3>2. ASSUME sipBatch # NoBatch
          PROVE  Reaches(batches'[sipBatch].finalStateRoot, db)
      <4>1. sipBatch \in BatchNum \ {0} /\ batches \in Batches /\ db \in Seq(RowType)
        BY <3>2, PipeTypes, Zenon
      <4> USE <4>1
      <4>2. batches[sipBatch].finalStateRoot \in Seq(Int)
        BY Zenon DEF Batches, BatchType, Root
      <4>3. Reaches(batches[sipBatch].finalStateRoot, db)
        BY <1>2, <3>2, Zenon DEF NumInv, DbNum
      <4>4. Range(batches[sipBatch].finalStateRoot) \subseteq Range(batches'[sipBatch].finalStateRoot)
        BY <2>5, Zenon
      <4> QED BY <4>2, <4>3, <4>4, ReachesMore, Zenon
    <3> QED BY <3>1, <3>2, Zenon DEF NumInv, DbNum
  <2>7. StoreNum'
    <3>1. SUFFICES ASSUME NEW i \in DOMAIN toStore PROVE Executed(toStore[i])'
      BY Zenon DEF StoreNum
    <3>2. Executed(toStore[i]) /\ toStore[i].batch \in BatchNum \ {0}
      BY PipeTypes, Zenon DEF NumInv, StoreNum
    <3> USE <3>2
    <3>3. toStore[i].num \in Range(batches'[toStore[i].batch].finalStateRoot)
      <4>1. CASE toStore[i].batch = b
        BY <2>4, <4>1, Zenon DEF Executed
      <4>2. CASE toStore[i].batch # b
        BY <4>2, Zenon DEF Executed
      <4> QED BY <4>1, <4>2, Zenon
    <3> QED BY <3>3, Zenon DEF Executed, InWork
  <2> QED BY <2>6, <2>7, Zenon
<1> QED BY <1>1, <1>2, Zenon

\* an L2 block joins the last row
LEMMA AddNums ==
  ASSUME NEW d, NEW b, RowsOK(d, b), b # NoBatch, NEW block \in BlockType, block.batch = b,
         NEW e, e = AddL2Block(d, block)
  PROVE  /\ e[Len(e)].stateRoot = block.stateRoot
         /\ \A n \in Int : Below(d, n) /\ block.num < n => Below(e, n)
         /\ \A n \in Int : UpTo(d, n) /\ block.num <= n => UpTo(e, n)
<1>1. d \in Seq(RowType) /\ b = Len(d) /\ Len(d) >= 1 /\ \A i \in 1 .. Len(d) : d[i].num = i
  BY Zenon DEF RowsOK
<1> USE <1>1
<1>2. Len(d) \in Nat /\ DOMAIN d = 1 .. Len(d) /\ b \in 1 .. Len(d)
  OBVIOUS
<1> USE <1>2
<1>3. /\ e \in Seq(RowType) /\ Len(e) = Len(d)
      /\ \A i \in 1 .. Len(d) : i # b => e[i] = d[i]
      /\ e[b].stateRoot = block.stateRoot /\ e[b].blocks = Append(d[b].blocks, block.num)
  <2>1. /\ e \in Seq(RowType) /\ Len(e) = Len(d)
        /\ \A i \in 1 .. Len(d) : d[i].num # block.batch => e[i] = d[i]
        /\ \A i \in 1 .. Len(d) : d[i].num = block.batch =>
              /\ e[i].stateRoot = block.stateRoot
              /\ e[i].blocks = Append(d[i].blocks, block.num)
    BY AddRows, Zenon
  <2> QED BY <2>1, Zenon
<1> USE <1>3
<1>4. DOMAIN e = 1 .. Len(d)
  OBVIOUS
<1> USE <1>4
<1>5. d[b].blocks \in Seq(Int) /\ block.num \in Int
  <2>1. d[b] \in RowType
    OBVIOUS
  <2> QED BY <2>1 DEF RowType, BlockType, Root
<1>6. ASSUME NEW s \in Seq(Int), NEW x \in Int, NEW j \in DOMAIN Append(s, x)
      PROVE  Append(s, x)[j] = x \/ (j \in DOMAIN s /\ Append(s, x)[j] = s[j])
  BY <1>6
<1>7. ASSUME NEW i \in DOMAIN e, NEW j \in DOMAIN e[i].blocks
      PROVE  e[i].blocks[j] = block.num \/ \E k \in DOMAIN d[i].blocks : e[i].blocks[j] = d[i].blocks[k]
  <2>1. CASE i = b
    <3>1. e[i].blocks = Append(d[i].blocks, block.num) /\ d[i].blocks \in Seq(Int)
      BY <1>5, <2>1, Zenon
    <3> USE <3>1
    <3>2. j \in DOMAIN Append(d[i].blocks, block.num)
      BY Zenon
    <3>3. \/ Append(d[i].blocks, block.num)[j] = block.num
          \/ /\ j \in DOMAIN d[i].blocks
             /\ Append(d[i].blocks, block.num)[j] = d[i].blocks[j]
      BY <1>5, <1>6, <3>2, SMTT(30)
    <3> QED BY <3>3, Zenon
  <2>2. CASE i # b
    BY <2>2, Zenon
  <2> QED BY <2>1, <2>2, Zenon
<1>8. \A n \in Int : Below(d, n) /\ block.num < n => Below(e, n)
  BY <1>7 DEF Below
<1>9. \A n \in Int : UpTo(d, n) /\ block.num <= n => UpTo(e, n)
  BY <1>7 DEF UpTo
<1> QED BY <1>8, <1>9, Zenon

\* rows with the data of others and one more row, without L2 blocks
LEMMA OpenNums ==
  ASSUME NEW d \in Seq(RowType), NEW rows \in Seq(RowType), Len(rows) = Len(d),
         \A i \in 1 .. Len(d) : rows[i].blocks = d[i].blocks,
         NEW new \in RowType, new.blocks = <<>>, NEW e, e = Append(rows, new)
  PROVE  /\ \A n : Below(d, n) => Below(e, n)
         /\ \A n : UpTo(d, n) => UpTo(e, n)
<1>1. /\ DOMAIN d = 1 .. Len(d) /\ DOMAIN e = 1 .. (Len(d) + 1) /\ Len(d) \in Nat
      /\ e[Len(d) + 1] = new /\ \A i \in 1 .. Len(d) : e[i] = rows[i]
  OBVIOUS
<1> USE <1>1
<1>2. ASSUME NEW i \in DOMAIN e, NEW j \in DOMAIN e[i].blocks
      PROVE  i \in DOMAIN d /\ e[i].blocks = d[i].blocks
  <2>1. CASE i = Len(d) + 1
    <3>1. DOMAIN e[i].blocks = {}
      BY <2>1
    <3> QED BY <3>1, Zenon
  <2>2. CASE i # Len(d) + 1
    <3>1. i \in 1 .. Len(d)
      BY <2>2
    <3> QED BY <3>1, Zenon
  <2> QED BY <2>1, <2>2, Zenon
<1> QED BY <1>2, Zenon DEF Below, UpTo

\* what the sanity check and the restart do to the rows
LEMMA CheckedKeeps ==
  ASSUME BaseInv, SameRows(db', db)
  PROVE  /\ DOMAIN db' = DOMAIN db /\ \A i \in DOMAIN db : db'[i].blocks = db[i].blocks
         /\ StoredRoot' = StoredRoot /\ StoredRoot \in Seq(Int)
<1>1. db \in Seq(RowType) /\ Len(db) >= 1
  BY Zenon DEF BaseInv, RowsOK
<1>2. Len(db) \in Nat /\ DOMAIN db = 1 .. Len(db) /\ Len(db) \in 1 .. Len(db)
  BY <1>1
<1>3. /\ db' \in Seq(RowType) /\ Len(db') = Len(db)
      /\ \A i \in 1 .. Len(db) : db'[i].stateRoot = db[i].stateRoot /\ db'[i].blocks = db[i].blocks
  BY Zenon DEF SameRows
<1>4. DOMAIN db' = 1 .. Len(db)
  BY <1>3
<1>5. db[Len(db)].stateRoot \in Seq(Int)
  BY <1>1, <1>2, RowNums, Zenon
<1> QED BY <1>2, <1>3, <1>4, <1>5, Zenon DEF StoredRoot

LEMMA SanityCheckRows ==
  ASSUME BaseInv, BatchSanityCheck
  PROVE  SameRows(db', db)
<1>1. PICK c \in checks :
          IF SanityCheckPasses(db, c) THEN db' = UpdateBatchAsChecked(db, c.num) ELSE UNCHANGED db
  BY Zenon DEF BatchSanityCheck
<1>2. db \in Seq(RowType)
  BY Zenon DEF BaseInv, TypeOK
<1>3. CASE db' = UpdateBatchAsChecked(db, c.num)
  <2>1. db' = [i \in DOMAIN db |->
                  IF db[i].num \in {c.num} THEN [db[i] EXCEPT !.checked = TRUE] ELSE db[i]]
    BY <1>3, Zenon DEF UpdateBatchAsChecked
  <2> QED BY <1>2, <2>1, CheckRows, Zenon
<1>4. CASE UNCHANGED db
  BY <1>2, <1>4, Zenon DEF SameRows
<1> QED BY <1>1, <1>3, <1>4, Zenon

LEMMA RestartRows ==
  ASSUME BaseInv, Restart
  PROVE  SameRows(db', db)
<1> DEFINE M == {n \in BatchNum : \E i \in ChecksPassed : NotCheckedBatches[i].num = n}
<1>1. db \in Seq(RowType)
  BY Zenon DEF BaseInv, TypeOK
<1>2. \A k \in DOMAIN db : db[k].num \in BatchNum
  <2>1. \A k \in DOMAIN db : db[k] \in RowType
    BY <1>1
  <2> QED BY <2>1, Zenon DEF RowType
<1>3. db' = [k \in DOMAIN db |->
              IF \E i \in ChecksPassed : NotCheckedBatches[i].num = db[k].num
              THEN [db[k] EXCEPT !.checked = TRUE] ELSE db[k]]
  BY Zenon DEF Restart
<1>4. \A k \in DOMAIN db :
         (db[k].num \in M) <=> (\E i \in ChecksPassed : NotCheckedBatches[i].num = db[k].num)
  BY <1>2, Zenon
<1> HIDE DEF M
<1>5. db' = [k \in DOMAIN db |->
              IF db[k].num \in M THEN [db[k] EXCEPT !.checked = TRUE] ELSE db[k]]
  BY <1>3, <1>4, Zenon
<1> QED BY <1>1, <1>5, CheckRows, Zenon

LEMMA InitialNum ==
  ASSUME Init
  PROVE  NumInv
<1>1. /\ sipBatch = NoBatch /\ wipL2Block = NoBlock /\ l2BlockCounter = 0
      /\ toProcess = <<>> /\ toStore = <<>> /\ proc.pc = "idle" /\ fin.pc = "start"
      /\ db = <<Genesis>>
  BY Zenon DEF Init
<1> USE <1>1
<1>2. DOMAIN toStore = {} /\ DOMAIN toProcess = {} /\ DOMAIN db = {1} /\ db[1].blocks = <<>>
      /\ DOMAIN db[1].blocks = {}
  BY DEF Genesis, Row
<1>3. UpTo(db, 0)
  BY <1>2, Zenon DEF UpTo
<1>4. DbNum
  BY <1>3, Zenon DEF DbNum, Reaches
<1>5. StoreNum /\ ProcNum /\ ToProcNum
  BY <1>2, Zenon DEF StoreNum, ProcNum, ToProcNum
<1>6. PipNum
  BY Zenon DEF PipNum, LastExecuted
<1>7. WipNum /\ RetNum
  BY Zenon DEF WipNum, RetNum, Reloaded
<1> QED BY <1>4, <1>5, <1>6, <1>7, Zenon DEF NumInv

LEMMA StutterNum ==
  ASSUME BaseInv, NumInv, UNCHANGED vars
  PROVE  NumInv'
<1> USE DEF vars, wipVars, queueVars, reorgVars, forcedVars, dbVars
<1>1. DbNum' /\ PipNum'
  BY Zenon DEF NumInv, DbNum, PipNum, StoredRoot, Live, LastExecuted
<1>2. StoreNum' /\ ProcNum' /\ ToProcNum'
  BY Zenon DEF NumInv, StoreNum, ProcNum, ToProcNum, Executed, InWork
<1>3. WipNum' /\ RetNum'
  BY Zenon DEF NumInv, WipNum, RetNum, Newest, NoPendingL2Blocks
<1> QED BY <1>1, <1>2, <1>3, Zenon DEF NumInv

-----------------------------------------------------------------------------
(* The steps and the numbers of L2 blocks *)

LEMMA NextNum ==
  ASSUME LastNumbers, BaseInv, NumInv, Next
  PROVE  NumInv'
<1>CheckReorg. ASSUME CheckReorg PROVE NumInv'
  <2> USE <1>CheckReorg
  <2> USE DEF wipVars, queueVars, reorgVars, forcedVars, dbVars
  <2>1. /\ UNCHANGED <<wipVars, queueVars, reorgVars, forcedVars, dbVars, proc, store, halted, budget>>
        /\ fin.pc = "top" /\ fin'.pc \in {"reorg", "timer"}
    BY PipeTypes, FinGoto DEF CheckReorg, Goto
  <2>2. wipL2Block # NoBlock
    BY <2>1, BaseTypes, Zenon DEF Filling
  <2> QED BY <2>1, <2>2, MoveOn, Zenon

<1>CheckBlockTime. ASSUME CheckBlockTime PROVE NumInv'
  <2> USE <1>CheckBlockTime
  <2> USE DEF wipVars, queueVars, reorgVars, forcedVars, dbVars
  <2>1. /\ UNCHANGED <<wipBatch, pipBatch, wipL2Block, l2BlockCounter, queueVars,
                       reorgVars, forcedVars, dbVars, proc, store, budget>>
        /\ fin.pc = "timer"
    BY Zenon DEF CheckBlockTime
  <2> USE <2>1
  <2>2. wipL2Block # NoBlock
    BY BaseTypes, Zenon DEF Filling
  <2>3. CASE Goto("select") /\ UNCHANGED <<batches, halted>>
    <3>1. fin'.pc = "select"
      BY <2>3, PipeTypes, FinGoto DEF Goto
    <3> QED BY <2>2, <2>3, <3>1, MoveOn, Zenon
  <2>4. CASE l2BlockCounter < MaxBlock /\ CloseWIPL2Block("select", "open")
    BY <2>4, CloseBlockNum, Zenon DEF Filling
  <2> QED BY <2>3, <2>4, Zenon DEF CheckBlockTime

<1>SelectTx. ASSUME SelectTx PROVE NumInv'
  <2> USE <1>SelectTx
  <2> USE DEF wipVars, queueVars, reorgVars, forcedVars, dbVars
  <2>1. /\ UNCHANGED <<wipBatch, pipBatch, l2BlockCounter, queueVars, reorgVars,
                       forcedVars, dbVars, proc, store, budget>>
        /\ fin.pc = "select"
    BY Zenon DEF SelectTx
  <2> USE <2>1
  <2>2. wipL2Block # NoBlock /\ wipL2Block \in BlockType
    BY BaseTypes, Zenon DEF Filling
  <2>3. CASE /\ wipL2Block' = [wipL2Block EXCEPT !.empty = FALSE] \/ UNCHANGED wipL2Block
             /\ Goto("check") /\ UNCHANGED <<batches, halted>>
    <3>1. fin'.pc = "check"
      BY <2>3, PipeTypes, FinGoto DEF Goto
    <3>2. /\ wipL2Block' \in BlockType
          /\ wipL2Block'.num = wipL2Block.num /\ wipL2Block'.batch = wipL2Block.batch
      BY <2>2, <2>3, Zenon DEF BlockType
    <3>3. wipL2Block' # NoBlock
      BY <3>2 DEF BlockType, NoBlock
    <3> QED BY <2>2, <2>3, <3>1, <3>2, <3>3, MoveOn, Zenon
  <2>4. CASE FinalizeWIPBatch /\ UNCHANGED wipL2Block
    BY <2>4, FinalizeNum, Zenon
  <2> QED BY <2>3, <2>4, Zenon DEF SelectTx

<1>CheckFinalizeBatch. ASSUME CheckFinalizeBatch PROVE NumInv'
  <2> USE <1>CheckFinalizeBatch
  <2> USE DEF wipVars, queueVars, reorgVars, forcedVars, dbVars
  <2>1. /\ UNCHANGED <<wipBatch, pipBatch, wipL2Block, l2BlockCounter, queueVars,
                       reorgVars, forcedVars, dbVars, proc, store, budget>>
        /\ fin.pc = "check"
    BY Zenon DEF CheckFinalizeBatch
  <2> USE <2>1
  <2>2. wipL2Block # NoBlock
    BY BaseTypes, Zenon DEF Filling
  <2>3. CASE (Goto("halted") \/ Goto("top")) /\ UNCHANGED <<batches, halted>>
    <3>1. fin'.pc \in {"halted", "top"}
      <4>1. fin' = [fin EXCEPT !.pc = "halted"] \/ fin' = [fin EXCEPT !.pc = "top"]
        BY <2>3, Zenon DEF Goto
      <4>2. fin \in FinalizerType
        BY PipeTypes, Zenon
      <4> QED BY <4>1, <4>2, Zenon DEF FinalizerType
    <3> QED BY <2>2, <2>3, <3>1, MoveOn, Zenon
  <2>4. CASE FinalizeWIPBatch
    BY <2>4, FinalizeNum, Zenon
  <2> QED BY <2>3, <2>4, Zenon DEF CheckFinalizeBatch

<1>ReorgDone. ASSUME ReorgDone PROVE NumInv'
  <2> USE <1>ReorgDone
  <2> USE DEF wipVars, queueVars, reorgVars, forcedVars, dbVars
  <2>1. /\ UNCHANGED <<wipVars, queueVars, lastL2BlockWasReorg, forcedVars, dbVars,
                       proc, store, halted, budget>>
        /\ fin.pc = "reorgDone" /\ l2BlockReorg' = FALSE /\ fin'.pc = "timer"
    BY PipeTypes, FinGoto, ZenonT(30) DEF ReorgDone, Goto
  <2> USE <2>1
  <2>2. Reloaded(fin) /\ proc.pc = "idle"
    <3>1. Reloaded(fin) /\ processWG = 0
      BY Zenon DEF NumInv, RetNum, Reloaded, NoPendingL2Blocks
    <3>2. Len(toProcess) \in Nat
      BY PipeTypes
    <3> QED BY <3>1, <3>2 DEF BaseInv, QueueInv
  <2>3. DbNum' /\ StoreNum' /\ ProcNum' /\ ToProcNum' /\ PipNum'
    <3>1. Live' => Live
      BY <2>2, Zenon DEF Live
    <3> QED BY <3>1, PipeTypes, FrontStep
  <2>4. WipNum'
    BY Zenon DEF NumInv, WipNum, Newest
  <2>5. RetNum'
    BY <2>2, Zenon DEF RetNum, Reloaded
  <2> QED BY <2>3, <2>4, <2>5, Zenon DEF NumInv

<1>PushL2Block. ASSUME PushL2Block PROVE NumInv'
  <2> USE <1>PushL2Block
  <2> USE DEF wipVars, queueVars, reorgVars, forcedVars, dbVars
  <2>1. /\ UNCHANGED <<batches, wipBatch, pipBatch, l2BlockCounter, toStore, storeWG,
                       reorgVars, forcedVars, dbVars, proc, store, halted, budget>>
        /\ fin.pc = "push" /\ processWG = 0
    BY Zenon DEF PushL2Block
  <2> USE <2>1
  <2>2. wipL2Block \in BlockType /\ wipL2Block # NoBlock
    BY BaseTypes, Zenon DEF Filling
  <2>3. proc.pc = "idle" /\ Len(toProcess) = 0 /\ toProcess \in Seq(BlockType)
    <3>1. toProcess \in Seq(BlockType) /\ Len(toProcess) \in Nat
      BY DEF BaseInv, TypeOK
    <3> QED BY <3>1 DEF BaseInv, QueueInv
  <2>4. \A i \in DOMAIN toProcess' : toProcess'[i] = wipL2Block
    BY <2>2, <2>3, PushOne, Zenon DEF PushL2Block
  <2>5. /\ fin'.cont = fin.cont /\ fin'.ret = fin.ret
        /\ \/ wipL2Block' = NoBlock /\ fin'.pc = fin.cont
           \/ wipL2Block' = wipL2Block /\ fin'.pc = "sync"
    <3>1. CASE wipL2Block' = NoBlock /\ fin' = [fin EXCEPT !.pc = fin.cont]
      BY <3>1, PipeTypes, FinGoto
    <3>2. CASE wipL2Block' = wipL2Block /\ fin' = [fin EXCEPT !.pc = "sync"]
      BY <3>2, PipeTypes, FinGoto
    <3> QED BY <3>1, <3>2, Zenon DEF PushL2Block, Goto
  <2> USE <2>5
  <2>6. fin.cont \in {"open", "newBatch", "closeSip"}
    BY PipeTypes, Zenon DEF FinalizerType
  <2> USE <2>6
  <2>7. DbNum' /\ StoreNum' /\ ProcNum'
    BY Zenon DEF NumInv, DbNum, StoreNum, ProcNum, StoredRoot, Executed, InWork
  <2>8. /\ InWork(wipL2Block) /\ \A i \in DOMAIN toStore : toStore[i].num < wipL2Block.num
        /\ wipL2Block.num <= l2BlockCounter /\ wipL2Block.batch \in {NoBatch, wipBatch}
    BY <2>2, Zenon DEF NumInv, WipNum, Newest, InWork
  <2> USE <2>8
  <2>9. ToProcNum'
    <3>1. wipL2Block.batch # NoBatch =>
            /\ sipBatch <= wipL2Block.batch
            /\ \A i \in DOMAIN toStore : toStore[i].batch <= wipL2Block.batch
      <4>1. sipBatch <= wipBatch
        BY Zenon DEF BaseInv, OrderInv
      <4> QED BY <4>1, PipeTypes, Zenon
    <3>2. /\ wipL2Block.num <= MaxBlock /\ wipL2Block.num <= l2BlockCounter
          /\ Below(db, wipL2Block.num)
      BY Zenon DEF InWork
    <3> QED BY <2>4, <3>1, <3>2, Zenon DEF ToProcNum, InWork
  <2>10. WipNum'
    BY Zenon DEF WipNum
  <2>11. RetNum'
    BY <2>3, Zenon DEF NumInv, RetNum, Reloaded
  <2>12. PipNum'
    <3>1. Live' => Live
      BY Zenon DEF Live, Reloaded, NumInv, RetNum
    <3>2. LastExecuted' = LastExecuted
      BY Zenon DEF LastExecuted
    <3> QED BY <3>1, <3>2, Zenon DEF NumInv, PipNum
  <2> QED BY <2>7, <2>9, <2>10, <2>11, <2>12, Zenon DEF NumInv

<1>SyncStateRoot. ASSUME SyncStateRoot PROVE NumInv'
  <2> USE <1>SyncStateRoot
  <2> USE DEF wipVars, queueVars, reorgVars, forcedVars, dbVars
  <2>1. /\ UNCHANGED <<wipBatch, pipBatch, l2BlockCounter, queueVars, reorgVars,
                       forcedVars, dbVars, proc, store, budget>>
        /\ fin.pc = "sync"
    BY Zenon DEF SyncStateRoot
  <2> USE <2>1
  <2>2. wipBatch \in BatchNum \ {0} /\ batches \in Batches /\ fin \in FinalizerType
    BY BaseTypes, Zenon
  <2> USE <2>2
  <2>3. CASE /\ batches' = [batches EXCEPT ![wipBatch].imStateRoot = batches[wipBatch].finalStateRoot]
             /\ wipL2Block' = NoBlock /\ Goto(fin.cont)
    <3>1. fin'.pc = fin.cont /\ fin'.ret = fin.ret /\ fin.cont \in {"open", "newBatch", "closeSip"}
      BY <2>3, FinGoto, Zenon DEF Goto, FinalizerType
    <3> USE <3>1
    <3>2. Live' => Live
      BY Zenon DEF Live, Reloaded, NumInv, RetNum
    <3>3. DbNum' /\ StoreNum' /\ ProcNum' /\ ToProcNum' /\ PipNum'
      BY <2>3, <3>2, PipeTypes, ImKeepsFinal, FrontStep
    <3>4. WipNum'
      BY <2>3, Zenon DEF WipNum
    <3>5. RetNum'
      BY Zenon DEF NumInv, RetNum, Reloaded
    <3> QED BY <3>3, <3>4, <3>5, Zenon DEF NumInv
  <2>4. CASE Goto("halted") /\ UNCHANGED <<batches, wipL2Block>>
    <3> USE <2>4
    <3>1. fin'.pc = "halted"
      BY FinGoto DEF Goto
    <3> USE <3>1
    <3>2. Live' => Live
      BY Zenon DEF Live, Reloaded
    <3>3. DbNum' /\ StoreNum' /\ ProcNum' /\ ToProcNum' /\ PipNum'
      BY <3>2, PipeTypes, FrontStep
    <3>4. WipNum'
      BY Zenon DEF NumInv, WipNum
    <3>5. RetNum'
      BY Zenon DEF NumInv, RetNum, Reloaded
    <3> QED BY <3>3, <3>4, <3>5, Zenon DEF NumInv
  <2> QED BY <2>3, <2>4, Zenon DEF SyncStateRoot

<1>OpenNewWIPL2Block. ASSUME OpenNewWIPL2Block PROVE NumInv'
  <2> USE <1>OpenNewWIPL2Block
  <2> USE DEF wipVars, queueVars, reorgVars, forcedVars, dbVars
  <2>1. /\ UNCHANGED <<wipBatch, pipBatch, queueVars, reorgVars, forcedVars, dbVars,
                       proc, store, halted, budget>>
        /\ fin.pc = "open" /\ l2BlockCounter' = l2BlockCounter + 1
    BY Zenon DEF OpenNewWIPL2Block
  <2> USE <2>1
  <2>2. wipBatch \in BatchNum \ {0} /\ batches \in Batches /\ fin \in FinalizerType
        /\ fin.ret \in {"top", "select", "reorgDone"}
    BY BaseTypes, Zenon DEF FinalizerType
  <2> USE <2>2
  <2>3. \E r : batches' = [batches EXCEPT ![wipBatch].imStateRoot = r]
    BY Zenon DEF OpenNewWIPL2Block
  <2>4. /\ wipL2Block'.num = l2BlockCounter + 1 /\ wipL2Block'.batch \in {NoBatch, wipBatch}
        /\ fin'.ret = fin.ret
        /\ \/ fin'.pc = fin.ret
           \/ fin'.pc = "newBatch" /\ l2BlockCounter < MaxBlock
    <3>1. /\ wipL2Block'.num = l2BlockCounter + 1 /\ wipL2Block'.batch \in {NoBatch, wipBatch}
          /\ \/ fin' = [fin EXCEPT !.pc = fin.ret]
             \/ fin' = [fin EXCEPT !.pc = "newBatch"] /\ l2BlockCounter < MaxBlock
      BY DEF OpenNewWIPL2Block, Goto
    <3>2. CASE fin' = [fin EXCEPT !.pc = fin.ret]
      BY <3>1, <3>2, FinGoto
    <3>3. CASE fin' = [fin EXCEPT !.pc = "newBatch"] /\ l2BlockCounter < MaxBlock
      BY <3>1, <3>3, FinGoto, ZenonT(30)
    <3> QED BY <3>1, <3>2, <3>3, Zenon
  <2> USE <2>4
  <2>5. Live' => Live
    BY Zenon DEF Live, Reloaded
  <2>6. l2BlockCounter \in Nat /\ l2BlockCounter' \in Nat /\ l2BlockCounter <= l2BlockCounter'
    BY PipeTypes
  <2> USE <2>6
  <2>7. DbNum' /\ StoreNum' /\ ProcNum' /\ ToProcNum' /\ PipNum'
    <3>1. \A n \in BatchNum \ {0} : batches'[n].finalStateRoot = batches[n].finalStateRoot
      BY <2>3, ImKeepsFinal
    <3> QED BY <2>5, <3>1, FrontStep, Zenon
  <2>8. WipNum'
    <3>1. Newest(l2BlockCounter + 1)
      BY NewestOpen, Zenon
    <3>2. Newest(wipL2Block.num)'
      BY <3>1, Zenon DEF Newest
    <3>3. l2BlockCounter < MaxBlock => l2BlockCounter + 1 <= MaxBlock
      BY FinalizerAssumption
    <3>4. wipL2Block'.num <= l2BlockCounter'
      OBVIOUS
    <3> QED BY <3>2, <3>3, <3>4, Zenon DEF WipNum
  <2>9. RetNum'
    BY Zenon DEF NumInv, RetNum, Reloaded, NoPendingL2Blocks
  <2> QED BY <2>7, <2>8, <2>9, Zenon DEF NumInv

<1>CloseAndOpenNewWIPBatch. ASSUME CloseAndOpenNewWIPBatch PROVE NumInv'
  <2> USE <1>CloseAndOpenNewWIPBatch
  <2> USE DEF wipVars, queueVars, reorgVars, forcedVars, dbVars
  <2>1. /\ UNCHANGED <<pipBatch, l2BlockCounter, queueVars, reorgVars, forcedVars,
                       dbVars, proc, store, budget>>
        /\ fin.pc = "newBatch" /\ wipBatch < MaxBatch
    BY Zenon DEF CloseAndOpenNewWIPBatch, BaseInv, ControlInv, Closing
  <2> USE <2>1
  <2>2. wipBatch \in BatchNum \ {0} /\ batches \in Batches /\ fin \in FinalizerType
        /\ fin.ret \in {"top", "select", "reorgDone"} /\ l2BlockCounter \in Nat
    BY BaseTypes, PipeTypes, Zenon DEF FinalizerType
  <2> USE <2>2
  <2>3. CASE UNCHANGED <<batches, wipBatch, wipL2Block>> /\ (Goto("halted") \/ Goto("haltOnBatch"))
    <3> USE <2>3
    <3>1. fin'.pc \in {"halted", "haltOnBatch"}
      <4>1. fin' = [fin EXCEPT !.pc = "halted"] \/ fin' = [fin EXCEPT !.pc = "haltOnBatch"]
        BY Zenon DEF Goto
      <4> QED BY <4>1, Zenon DEF FinalizerType
    <3> USE <3>1
    <3>2. Live' => Live
      BY Zenon DEF Live, Reloaded
    <3>3. DbNum' /\ StoreNum' /\ ProcNum' /\ ToProcNum' /\ PipNum'
      BY <3>2, FrontStep
    <3>4. WipNum'
      BY Zenon DEF NumInv, WipNum, Newest
    <3>5. RetNum'
      BY Zenon DEF NumInv, RetNum, Reloaded
    <3> QED BY <3>3, <3>4, <3>5, Zenon DEF NumInv
  <2>4. CASE /\ wipBatch' = wipBatch + 1
             /\ batches' = [batches EXCEPT ![wipBatch'] = OpenNewWIPBatch(batches[wipBatch].imStateRoot)]
             /\ IF wipL2Block = NoBlock
                THEN Goto("open") /\ UNCHANGED wipL2Block
                ELSE Goto(fin.ret) /\ wipL2Block' = [wipL2Block EXCEPT !.batch = wipBatch']
    <3>1. wipBatch + 1 \in BatchNum \ {0} /\ ~(wipBatch + 1 <= wipBatch)
      BY FinalizerAssumption DEF BatchNum
    <3>2. \A n \in BatchNum \ {0} : n <= wipBatch =>
              batches'[n].finalStateRoot = batches[n].finalStateRoot
      BY <2>4, <3>1, OpenKeepsOthers
    <3>3. /\ fin'.ret = fin.ret
          /\ \/ wipL2Block' = NoBlock /\ fin'.pc = "open"
             \/ /\ fin'.pc = fin.ret /\ wipL2Block # NoBlock
                /\ wipL2Block' = [wipL2Block EXCEPT !.batch = wipBatch']
      <4>1. CASE wipL2Block = NoBlock
        BY <2>4, <4>1, FinGoto DEF Goto
      <4>2. CASE wipL2Block # NoBlock
        <5>1. /\ fin' = [fin EXCEPT !.pc = fin.ret]
              /\ wipL2Block' = [wipL2Block EXCEPT !.batch = wipBatch']
          BY <2>4, <4>2, Zenon DEF Goto
        <5>2. fin'.pc = fin.ret /\ fin'.ret = fin.ret
          BY <5>1, Zenon DEF FinalizerType
        <5> QED BY <4>2, <5>1, <5>2, Zenon
      <4> QED BY <4>1, <4>2, Zenon
    <3>4. Live' => Live
      BY <3>3, Zenon DEF Live, Reloaded
    <3>5. DbNum' /\ StoreNum' /\ ProcNum' /\ ToProcNum' /\ PipNum'
      BY <3>2, <3>4, FrontStep
    <3>6. WipNum'
      <4>1. CASE wipL2Block' = NoBlock /\ fin'.pc = "open"
        BY <4>1, Zenon DEF WipNum
      <4>2. CASE /\ fin'.pc = fin.ret /\ wipL2Block # NoBlock
                 /\ wipL2Block' = [wipL2Block EXCEPT !.batch = wipBatch']
        <5>1. wipL2Block'.num = wipL2Block.num /\ wipL2Block'.batch = wipBatch'
          BY <4>2, PipeTypes, Zenon DEF BlockType
        <5>2. Newest(wipL2Block.num) /\ wipL2Block.num <= l2BlockCounter
          BY <4>2, Zenon DEF NumInv, WipNum
        <5>3. Newest(wipL2Block.num)'
          BY <5>1, <5>2, Zenon DEF Newest
        <5> QED BY <4>2, <5>1, <5>2, <5>3, Zenon DEF WipNum
      <4> QED BY <3>3, <4>1, <4>2, Zenon
    <3>7. RetNum'
      BY <3>3, Zenon DEF NumInv, RetNum, Reloaded, NoPendingL2Blocks
    <3> QED BY <3>5, <3>6, <3>7, Zenon DEF NumInv
  <2> QED BY <2>3, <2>4, Zenon DEF CloseAndOpenNewWIPBatch

<1>CloseForForcedBatches. ASSUME CloseForForcedBatches PROVE NumInv'
  <2> USE <1>CloseForForcedBatches
  <2> USE DEF wipVars, queueVars, reorgVars, forcedVars, dbVars
  <2>1. /\ UNCHANGED <<wipBatch, pipBatch, wipL2Block, l2BlockCounter, queueVars,
                       reorgVars, forcedVars, dbVars, proc, store, budget>>
        /\ fin.pc = "newBatch"
    BY Zenon DEF CloseForForcedBatches
  <2> USE <2>1
  <2>2. wipBatch \in BatchNum \ {0} /\ batches \in Batches /\ fin \in FinalizerType
        /\ l2BlockCounter \in Nat
    BY BaseTypes, PipeTypes, Zenon
  <2> USE <2>2
  <2>3. CASE wipL2Block = NoBlock
    <3>1. UNCHANGED batches /\ fin'.pc = "halted"
      <4>1. UNCHANGED batches /\ fin' = [fin EXCEPT !.pc = "halted"]
        BY <2>3, Zenon DEF CloseForForcedBatches, CloseWIPL2Block, Goto
      <4> QED BY <4>1, FinGoto, ZenonT(30)
    <3> USE <3>1
    <3>2. Live' => Live
      BY Zenon DEF Live, Reloaded
    <3>3. DbNum' /\ StoreNum' /\ ProcNum' /\ ToProcNum' /\ PipNum'
      BY <3>2, FrontStep
    <3>4. WipNum'
      BY <2>3, Zenon DEF NumInv, WipNum
    <3>5. RetNum'
      BY Zenon DEF NumInv, RetNum, Reloaded
    <3> QED BY <3>3, <3>4, <3>5, Zenon DEF NumInv
  <2>4. CASE wipL2Block # NoBlock
    <3>1. /\ batches' = [batches EXCEPT ![wipBatch].countOfL2Blocks = @ + 1]
          /\ fin' = [fin EXCEPT !.pc = "push", !.ret = fin.ret, !.cont = "closeSip"]
      BY <2>4, Zenon DEF CloseForForcedBatches, CloseWIPL2Block
    <3>2. fin'.pc = "push" /\ fin'.cont = "closeSip"
      BY <3>1, Zenon DEF FinalizerType
    <3> USE <3>2
    <3>3. \A n \in BatchNum \ {0} : batches'[n].finalStateRoot = batches[n].finalStateRoot
      BY <3>1, CountKeepsFinal
    <3>4. Live' => Live
      BY Zenon DEF Live, Reloaded
    <3>5. DbNum' /\ StoreNum' /\ ProcNum' /\ ToProcNum' /\ PipNum'
      BY <3>3, <3>4, FrontStep
    <3>6. WipNum'
      BY Zenon DEF NumInv, WipNum, Newest
    <3>7. RetNum'
      BY Zenon DEF NumInv, RetNum, Reloaded
    <3> QED BY <3>5, <3>6, <3>7, Zenon DEF NumInv
  <2> QED BY <2>3, <2>4, Zenon

<1>ForcedBatchesDone. ASSUME ForcedBatchesDone PROVE NumInv'
  <2> USE <1>ForcedBatchesDone
  <2> USE DEF wipVars, queueVars, reorgVars, forcedVars, dbVars
  <2>1. /\ UNCHANGED <<pipBatch, wipL2Block, l2BlockCounter, queueVars, reorgVars, dbVars,
                       lastForcedBatchNum, deadline, proc, store, halted, budget>>
        /\ fin.pc \in {"forced", "forcedFailed"}
        /\ fin' = [fin EXCEPT !.pc = "open", !.i = 0, !.num = 0, !.root = <<>>]
    BY Zenon DEF ForcedBatchesDone
  <2>2. NoPendingL2Blocks /\ sipBatch = NoBatch
    BY <2>1, Zenon DEF BaseInv, ControlInv, Quiet
  <2>3. fin'.pc = "open" /\ fin'.ret = fin.ret
    BY <2>1, PipeTypes, Zenon DEF FinalizerType
  <2>4. DbNum' /\ StoreNum' /\ ProcNum' /\ ToProcNum' /\ PipNum'
    <3>1. StoredRoot' = StoredRoot
      BY <2>1, Zenon DEF StoredRoot
    <3> QED BY <2>1, <2>2, <3>1, DrainedStep, Zenon
  <2>5. WipNum'
    <3>1. wipL2Block' = NoBlock
      BY <2>1, Zenon DEF NumInv, WipNum
    <3> QED BY <2>3, <3>1, Zenon DEF WipNum
  <2>6. RetNum'
    BY <2>1, <2>2, <2>3, Zenon DEF NumInv, RetNum, NoPendingL2Blocks
  <2> QED BY <2>4, <2>5, <2>6, Zenon DEF NumInv

<1>CheckForcedBatches. ASSUME CheckForcedBatches PROVE NumInv'
  <2> USE <1>CheckForcedBatches
  <2> USE DEF wipVars, queueVars, reorgVars, dbVars
  <2>1. UNCHANGED <<wipVars, queueVars, reorgVars, dbVars, fin, proc, store, halted, budget>>
    BY Zenon DEF CheckForcedBatches
  <2> USE <2>1
  <2>2. DbNum' /\ StoreNum' /\ ProcNum' /\ ToProcNum' /\ PipNum'
    <3>1. Live' => Live
      BY Zenon DEF Live
    <3> QED BY <3>1, PipeTypes, FrontStep
  <2>3. WipNum' /\ RetNum'
    BY Zenon DEF NumInv, WipNum, RetNum, Newest, NoPendingL2Blocks
  <2> QED BY <2>2, <2>3, Zenon DEF NumInv

<1>HaltOnBatch. ASSUME HaltOnBatch PROVE NumInv'
  <2> USE <1>HaltOnBatch
  <2> USE DEF wipVars, queueVars, reorgVars, forcedVars, dbVars
  <2>1. /\ UNCHANGED <<wipVars, queueVars, reorgVars, forcedVars, proc, store, budget>>
        /\ fin.pc = "haltOnBatch" /\ NoPendingL2Blocks
    BY Zenon DEF HaltOnBatch
  <2> USE <2>1
  <2>2. fin'.pc \in {"halted", "keepHalting"}
    <3>1. fin' = [fin EXCEPT !.pc = "halted"] \/ fin' = [fin EXCEPT !.pc = "keepHalting"]
      BY Zenon DEF HaltOnBatch, Goto
    <3> QED BY <3>1, BaseTypes, Zenon DEF FinalizerType
  <2> USE <2>2
  <2>3. Live' => Live
    BY Zenon DEF Live, Reloaded
  <2>4. RetNum'
    BY Zenon DEF NumInv, RetNum, Reloaded
  <2>5. CASE UNCHANGED dbVars
    <3>1. DbNum' /\ StoreNum' /\ ProcNum' /\ ToProcNum' /\ PipNum'
      BY <2>3, <2>5, PipeTypes, FrontStep
    <3>2. WipNum'
      BY <2>5, Zenon DEF NumInv, WipNum, Newest
    <3> QED BY <2>4, <3>1, <3>2, Zenon DEF NumInv
  <2>6. CASE FinalizeSIPBatch /\ sipBatch' = NoBatch
    <3>1. /\ DOMAIN db' = DOMAIN db /\ \A i \in DOMAIN db : db'[i].blocks = db[i].blocks
          /\ StoredRoot' = StoredRoot
      BY <2>6, CloseKeeps, Zenon
    <3>2. DbNum' /\ StoreNum' /\ ProcNum' /\ ToProcNum' /\ PipNum'
      BY <2>6, <3>1, DrainedStep, Zenon
    <3>3. WipNum'
      <4>1. \A n : Below(db', n) <=> Below(db, n)
        BY <3>1, SameData, Zenon
      <4>2. wipL2Block # NoBlock => /\ wipL2Block.num <= l2BlockCounter
                                    /\ wipL2Block.batch \in {NoBatch, wipBatch}
                                    /\ Newest(wipL2Block.num)
        BY Zenon DEF NumInv, WipNum
      <4>3. wipL2Block # NoBlock => Newest(wipL2Block.num)'
        BY <4>1, <4>2, Zenon DEF Newest
      <4> QED BY <4>2, <4>3, Zenon DEF WipNum
    <3> QED BY <2>4, <3>2, <3>3, Zenon DEF NumInv
  <2> QED BY <2>5, <2>6, Zenon DEF HaltOnBatch

<1>Start. ASSUME Start PROVE NumInv'
  <2> USE <1>Start
  <2>1. NoPendingL2Blocks /\ UNCHANGED db
        /\ UNCHANGED <<l2BlockCounter, queueVars, reorgVars, forcedVars, proc, store>>
    BY Zenon DEF Start, BaseInv, ControlInv, Quiet
  <2>2. RowsOK(db', NoBatch) /\ InitWIPBatch(db', "top") /\ StoredRoot' = StoredRoot
    BY <2>1, RowsNoSip, Zenon DEF BaseInv, Start, StoredRoot
  <2> QED BY <2>1, <2>2, InitNum, Zenon

<1>ProcessL2BlockReorg. ASSUME ProcessL2BlockReorg PROVE NumInv'
  <2> USE <1>ProcessL2BlockReorg
  <2> USE DEF wipVars, queueVars, reorgVars, forcedVars, dbVars
  <2>1. /\ UNCHANGED <<l2BlockCounter, queueVars, reorgVars, forcedVars, proc, store>>
        /\ fin.pc = "reorg" /\ NoPendingL2Blocks
    BY Zenon DEF ProcessL2BlockReorg
  <2> USE <2>1
  <2>2. wipBatch \in BatchNum \ {0} /\ fin \in FinalizerType
    BY BaseTypes, Zenon
  <2> USE <2>2
  <2>3. CASE InitWIPBatch(db, "reorgDone") /\ UNCHANGED db
    <3>1. RowsOK(db', NoBatch) /\ InitWIPBatch(db', "reorgDone") /\ StoredRoot' = StoredRoot
      BY <2>3, RowsNoSip, Zenon DEF BaseInv, StoredRoot
    <3> QED BY <2>3, <3>1, InitNum, Zenon
  <2>4. CASE /\ sipBatch # NoBatch /\ sipBatch # wipBatch /\ FinalizeSIPBatch
             /\ InitWIPBatch(db', "reorgDone")
    <3> USE <2>4
    <3>1. sipBatch = Len(db) /\ sipBatch <= wipBatch /\ Len(db) \in Nat
      BY DEF RowsOK, BaseInv, OrderInv
    <3>2. Len(db) < Top
      BY <3>1, FinalizerAssumption DEF Top, BatchNum
    <3>3. RowsOK(db', NoBatch)
      BY <3>2, DbClose, Zenon DEF FinalizeSIPBatch, BaseInv
    <3>4. /\ DOMAIN db' = DOMAIN db /\ \A i \in DOMAIN db : db'[i].blocks = db[i].blocks
          /\ StoredRoot' = StoredRoot
      BY CloseKeeps, Zenon
    <3> QED BY <3>3, <3>4, InitNum, Zenon
  <2>5. CASE /\ Goto("halted") /\ UNCHANGED <<dbVars, wipBatch, pipBatch, wipL2Block, batches>>
    <3> USE <2>5
    <3>1. fin'.pc = "halted"
      <4>1. fin' = [fin EXCEPT !.pc = "halted"]
        BY Zenon DEF Goto
      <4> QED BY <4>1, FinGoto
    <3>2. Live' => Live
      BY <3>1, Zenon DEF Live, Reloaded
    <3>3. DbNum' /\ StoreNum' /\ ProcNum' /\ ToProcNum' /\ PipNum'
      BY <3>2, PipeTypes, FrontStep
    <3>4. WipNum' /\ RetNum'
      BY <3>1, Zenon DEF NumInv, WipNum, RetNum, Reloaded
    <3> QED BY <3>3, <3>4, Zenon DEF NumInv
  <2>6. CASE /\ sipBatch' = NoBatch /\ Goto("timer")
             /\ UNCHANGED <<db, wipBatch, pipBatch, wipL2Block, batches>>
    <3> USE <2>6
    <3>1. fin'.pc = "timer"
      <4>1. fin' = [fin EXCEPT !.pc = "timer"]
        BY Zenon DEF Goto
      <4> QED BY <4>1, FinGoto
    <3>2. DbNum' /\ StoreNum' /\ ProcNum' /\ ToProcNum' /\ PipNum'
      <4>1. StoredRoot' = StoredRoot
        BY Zenon DEF StoredRoot
      <4> QED BY <4>1, DrainedStep, Zenon
    <3>3. WipNum' /\ RetNum'
      BY <3>1, Zenon DEF NumInv, WipNum, RetNum, Reloaded, Newest
    <3> QED BY <3>2, <3>3, Zenon DEF NumInv
  <2> QED BY <2>3, <2>4, <2>5, <2>6, Zenon DEF ProcessL2BlockReorg

<1>StartForcedBatches. ASSUME StartForcedBatches PROVE NumInv'
  <2> USE <1>StartForcedBatches
  <2> USE DEF wipVars, queueVars, reorgVars, forcedVars, dbVars
  <2>1. /\ UNCHANGED <<wipVars, queueVars, reorgVars, nextForcedBatches, lastForcedBatchNum,
                       proc, store, budget>>
        /\ fin.pc = "closeSip" /\ NoPendingL2Blocks
    BY Zenon DEF StartForcedBatches
  <2> USE <2>1
  <2>2. fin \in FinalizerType /\ wipL2Block = NoBlock
    BY BaseTypes, Zenon DEF NumInv, WipNum
  <2> USE <2>2
  <2>3. CASE Goto("halted") /\ UNCHANGED dbVars
    <3>1. fin'.pc = "halted"
      <4>1. fin' = [fin EXCEPT !.pc = "halted"]
        BY <2>3, Zenon DEF Goto
      <4> QED BY <4>1, FinGoto, ZenonT(30)
    <3>2. Live' => Live
      BY <3>1, Zenon DEF Live, Reloaded
    <3>3. DbNum' /\ StoreNum' /\ ProcNum' /\ ToProcNum' /\ PipNum'
      BY <2>3, <3>2, PipeTypes, FrontStep
    <3>4. WipNum' /\ RetNum'
      BY <3>1, Zenon DEF NumInv, WipNum, RetNum, Reloaded
    <3> QED BY <3>3, <3>4, Zenon DEF NumInv
  <2>4. CASE /\ SIPBatchClosable /\ FinalizeSIPBatch /\ sipBatch' = NoBatch
             /\ \/ Goto("haltOnBatch")
                \/ fin' = [fin EXCEPT !.pc = "forced", !.i = 1, !.num = wipBatch,
                                      !.root = batches[sipBatch].finalStateRoot]
    <3>1. /\ DOMAIN db' = DOMAIN db /\ \A i \in DOMAIN db : db'[i].blocks = db[i].blocks
          /\ StoredRoot' = StoredRoot
      BY <2>4, CloseKeeps, Zenon
    <3>2. DbNum' /\ StoreNum' /\ ProcNum' /\ ToProcNum' /\ PipNum'
      BY <2>4, <3>1, DrainedStep, Zenon
    <3>3. \/ fin'.pc = "haltOnBatch"
          \/ fin'.pc = "forced" /\ fin'.root = batches[sipBatch].finalStateRoot
      <4>1. CASE Goto("haltOnBatch")
        <5>1. fin' = [fin EXCEPT !.pc = "haltOnBatch"]
          BY <4>1, Zenon DEF Goto
        <5> QED BY <5>1, FinGoto
      <4>2. CASE fin' = [fin EXCEPT !.pc = "forced", !.i = 1, !.num = wipBatch,
                                    !.root = batches[sipBatch].finalStateRoot]
        BY <4>2, Zenon DEF FinalizerType
      <4> QED BY <2>4, <4>1, <4>2, Zenon
    <3> USE <3>3
    <3>4. WipNum'
      <4>1. Reaches(batches[sipBatch].finalStateRoot, db)
        BY <2>4, Drained, Zenon DEF NumInv, DbNum, SIPBatchClosable
      <4>2. \A r : Reaches(r, db') <=> Reaches(r, db)
        BY <3>1, SameData, Zenon
      <4>3. fin'.pc = "forced" => Reaches(fin'.root, db')
        BY <4>1, <4>2, Zenon
      <4> QED BY <4>3, Zenon DEF WipNum
    <3>5. RetNum'
      BY Zenon DEF NumInv, RetNum, Reloaded
    <3> QED BY <3>2, <3>4, <3>5, Zenon DEF NumInv
  <2> QED BY <2>3, <2>4, Zenon DEF StartForcedBatches

<1>ProcessForcedBatch. ASSUME ProcessForcedBatch PROVE NumInv'
  <2> USE <1>ProcessForcedBatch
  <2> USE DEF wipVars, queueVars, reorgVars, forcedVars
  <2> DEFINE next == LastTrustedForced(db) + 1
             root == Append(fin.root, -next)
  <2>1. /\ UNCHANGED <<wipVars, queueVars, reorgVars, forcedVars, sipBatch, checks,
                       proc, store, halted>>
        /\ fin.pc = "forced" /\ NoPendingL2Blocks /\ sipBatch = NoBatch
    BY Zenon DEF ProcessForcedBatch, BaseInv, ControlInv, Quiet
  <2> USE <2>1
  <2>2. fin \in FinalizerType /\ fin.root \in Seq(Int) /\ fin.num \in Nat /\ fin.i \in Nat
    <3>1. fin \in FinalizerType
      BY BaseTypes, Zenon
    <3> QED BY <3>1, FinalizerAssumption DEF FinalizerType, Root, BatchNum
  <2> USE <2>2
  <2>3. wipL2Block = NoBlock /\ Reaches(fin.root, db)
    BY Zenon DEF NumInv, WipNum
  <2> USE <2>3
  <2>4. CASE UNCHANGED db /\ (fin' = [fin EXCEPT !.i = @ + 1] \/ Goto("forcedFailed"))
    <3>1. fin'.pc \in {"forced", "forcedFailed"} /\ fin'.root = fin.root
      BY <2>4, Zenon DEF Goto, FinalizerType
    <3>2. Live' => Live
      BY <3>1, Zenon DEF Live, Reloaded
    <3>3. DbNum' /\ StoreNum' /\ ProcNum' /\ ToProcNum' /\ PipNum'
      BY <2>4, <3>2, PipeTypes, FrontStep DEF dbVars
    <3>4. WipNum' /\ RetNum'
      BY <2>4, <3>1, Zenon DEF NumInv, WipNum, RetNum, Reloaded
    <3> QED BY <3>3, <3>4, Zenon DEF NumInv
  <2>5. CASE /\ db' = Append(db, Row(fin.num + 1, root, <<-next>>, FALSE, TRUE))
             /\ fin' = [fin EXCEPT !.i = @ + 1, !.num = @ + 1, !.root = root]
    <3>1. next \in Nat \ {0}
      <4>1. LastTrustedForced(db) \in 0 .. MaxForced
        BY LastForced, Zenon DEF BaseInv
      <4> QED BY <4>1, FinalizerAssumption
    <3>2. root \in Seq(Int) /\ Range(fin.root) \subseteq Range(root)
      BY <3>1, AppendRange
    <3> HIDE DEF next, root
    <3>3. fin'.pc = "forced" /\ fin'.root = root
      BY <2>5, Zenon DEF FinalizerType
    <3>4. db \in Seq(RowType) /\ l2BlockCounter \in Nat
      BY PipeTypes, Zenon
    <3> USE <3>4
    <3> DEFINE row == Row(fin.num + 1, root, <<-next>>, FALSE, TRUE)
    <3>5. db' = Append(db, row) /\ row.stateRoot = root /\ row.blocks = <<-next>>
      BY <2>5, Zenon DEF Row
    <3> USE <3>5
    <3> HIDE DEF row
    <3>6. /\ Len(db') = Len(db) + 1 /\ DOMAIN db = 1 .. Len(db) /\ DOMAIN db' = 1 .. (Len(db) + 1)
          /\ \A i \in 1 .. Len(db) : db'[i] = db[i]
          /\ db'[Len(db) + 1] = row /\ Len(db) \in Nat
      OBVIOUS
    <3> USE <3>6
    <3>7. ASSUME NEW n \in Nat, UpTo(db, n) PROVE UpTo(db', n)
      <4>1. SUFFICES ASSUME NEW i \in DOMAIN db', NEW j \in DOMAIN db'[i].blocks
                     PROVE  db'[i].blocks[j] <= n
        BY Zenon DEF UpTo
      <4>2. CASE i = Len(db) + 1
        <5>1. db'[i].blocks = <<-next>>
          BY <4>2, Zenon
        <5>2. db'[i].blocks[j] = -next
          BY <5>1
        <5> QED BY <3>1, <5>2
      <4>3. CASE i # Len(db) + 1
        <5>1. i \in DOMAIN db /\ db'[i] = db[i]
          BY <4>3
        <5> QED BY <3>7, <5>1, Zenon DEF UpTo
      <4> QED BY <4>2, <4>3, Zenon
    <3>8. Reaches(root, db')
      BY <3>2, <3>7, ReachesMore, Zenon
    <3>9. StoredRoot' = root
      BY Zenon DEF StoredRoot
    <3>10. DbNum'
      <4>1. UpTo(db', l2BlockCounter')
        BY <3>7, Zenon DEF NumInv, DbNum
      <4> QED BY <3>8, <3>9, <4>1, Zenon DEF DbNum
    <3>11. /\ toStore' = <<>> /\ toProcess' = <<>> /\ proc'.pc = "idle"
           /\ DOMAIN toStore' = {} /\ DOMAIN toProcess' = {}
      BY Drained, Zenon
    <3>12. StoreNum' /\ ProcNum' /\ ToProcNum'
      BY <3>11, Zenon DEF StoreNum, ProcNum, ToProcNum
    <3>13. PipNum'
      BY <3>11, Zenon DEF PipNum, LastExecuted
    <3>14. WipNum' /\ RetNum'
      BY <3>3, <3>8, Zenon DEF NumInv, WipNum, RetNum, Reloaded
    <3> QED BY <3>10, <3>12, <3>13, <3>14, Zenon DEF NumInv
  <2> QED BY <2>4, <2>5, Zenon DEF ProcessForcedBatch

<1>DiscardL2Block. ASSUME DiscardL2Block PROVE NumInv'
  <2> USE <1>DiscardL2Block
  <2> USE DEF wipVars, queueVars, reorgVars, forcedVars, dbVars
  <2>1. /\ UNCHANGED <<wipVars, toStore, storeWG, reorgVars, forcedVars, dbVars,
                       fin, proc, store, halted, budget>>
        /\ proc.pc = "idle" /\ toProcess # <<>> /\ toProcess' = Tail(toProcess)
    BY Zenon DEF DiscardL2Block
  <2> USE <2>1
  <2>2. DOMAIN toProcess' = {} /\ processWG # 0
    <3>1. toProcess \in Seq(BlockType) /\ Len(toProcess) \in Nat
      BY DEF BaseInv, TypeOK
    <3>2. Len(toProcess) <= 1 /\ processWG = Len(toProcess)
      BY <3>1 DEF BaseInv, QueueInv
    <3> QED BY <3>1, <3>2, PopOne
  <2> USE <2>2
  <2>3. ~Reloaded(fin)
    BY Zenon DEF NumInv, RetNum, NoPendingL2Blocks
  <2>4. DbNum' /\ ProcNum' /\ PipNum'
    <3>1. StoredRoot' = StoredRoot /\ LastExecuted' = LastExecuted
      BY Zenon DEF StoredRoot, LastExecuted
    <3> QED BY <3>1, Zenon DEF NumInv, DbNum, ProcNum, PipNum, Live
  <2>5. StoreNum'
    BY Zenon DEF NumInv, StoreNum, Executed, InWork
  <2>6. ToProcNum'
    BY Zenon DEF ToProcNum
  <2>7. WipNum'
    BY Zenon DEF NumInv, WipNum, Newest
  <2>8. RetNum'
    BY <2>3, Zenon DEF NumInv, RetNum
  <2> QED BY <2>4, <2>5, <2>6, <2>7, <2>8, Zenon DEF NumInv

<1>ProcessFailed. ASSUME ProcessFailed PROVE NumInv'
  <2> USE <1>ProcessFailed
  <2> USE DEF wipVars, queueVars, reorgVars, forcedVars, dbVars
  <2>1. /\ UNCHANGED <<wipVars, toProcess, toStore, storeWG, reorgVars, forcedVars, dbVars,
                       fin, store, halted, budget>>
        /\ proc.pc = "failed" /\ proc'.pc = "idle"
    <3>1. proc \in ProcessorType
      BY Zenon DEF BaseInv, TypeOK
    <3> QED BY <3>1, ProcTyped, Zenon DEF ProcessFailed
  <2> USE <2>1
  <2>2. processWG # 0
    <3>1. Len(toProcess) \in Nat
      BY PipeTypes
    <3> QED BY <3>1 DEF BaseInv, QueueInv
  <2>3. ~Reloaded(fin) /\ l2BlockReorg
    BY <2>2, Zenon DEF NumInv, RetNum, NoPendingL2Blocks
  <2>4. DbNum'
    <3>1. StoredRoot' = StoredRoot
      BY Zenon DEF StoredRoot
    <3> QED BY <3>1, Zenon DEF NumInv, DbNum
  <2>5. ~Live'
    BY <2>3, Zenon DEF Live
  <2>6. StoreNum' /\ ToProcNum'
    BY Zenon DEF NumInv, StoreNum, ToProcNum, Executed, InWork
  <2>7. ProcNum' /\ PipNum'
    BY <2>5, Zenon DEF ProcNum, PipNum
  <2>8. WipNum'
    BY Zenon DEF NumInv, WipNum, Newest
  <2>9. RetNum'
    BY <2>3, Zenon DEF NumInv, RetNum
  <2> QED BY <2>4, <2>6, <2>7, <2>8, <2>9, Zenon DEF NumInv

<1>PushToStore. ASSUME PushToStore PROVE NumInv'
  <2> USE <1>PushToStore
  <2> USE DEF wipVars, queueVars, reorgVars, forcedVars, dbVars
  <2>1. /\ UNCHANGED <<wipVars, toProcess, l2BlockReorg, forcedVars, dbVars, fin, store, halted, budget>>
        /\ proc.pc = "toStore" /\ storeWG = 0 /\ toStore' = Append(toStore, proc.block)
        /\ proc'.pc = "idle"
    BY Zenon DEF PushToStore
  <2> USE <2>1
  <2>2. /\ DOMAIN toProcess = {} /\ processWG # 0
        /\ toStore = <<>> /\ toStore' = <<proc.block>>
    <3>1. toStore \in Seq(BlockType) /\ toProcess \in Seq(BlockType)
          /\ Len(toStore) \in Nat /\ Len(toProcess) \in Nat
      BY PipeTypes
    <3>2. Len(toStore) = 0 /\ Len(toProcess) = 0 /\ processWG # 0 /\ proc.block \in BlockType
      BY <3>1 DEF BaseInv, QueueInv
    <3> QED BY <3>1, <3>2, PushOne, SMTT(30)
  <2> USE <2>2
  <2>3. DOMAIN toStore' = {1} /\ toStore'[1] = proc.block /\ toStore' # <<>>
    OBVIOUS
  <2> USE <2>3
  <2>4. ~Reloaded(fin)
    BY Zenon DEF NumInv, RetNum, NoPendingL2Blocks
  <2>5. DbNum'
    <3>1. StoredRoot' = StoredRoot
      BY Zenon DEF StoredRoot
    <3> QED BY <3>1, Zenon DEF NumInv, DbNum
  <2>6. StoreNum'
    <3>1. Executed(proc.block)
      BY Zenon DEF NumInv, ProcNum
    <3> QED BY <3>1, Zenon DEF StoreNum, Executed, InWork
  <2>7. ProcNum' /\ ToProcNum'
    BY Zenon DEF ProcNum, ToProcNum
  <2>8. PipNum'
    <3>1. LastExecuted' = LastExecuted
      BY Zenon DEF LastExecuted
    <3>2. Live' => Live
      BY Zenon DEF Live
    <3> QED BY <3>1, <3>2, Zenon DEF NumInv, PipNum
  <2>9. WipNum'
    BY Zenon DEF NumInv, WipNum, Newest
  <2>10. RetNum'
    BY <2>4, Zenon DEF NumInv, RetNum
  <2> QED BY <2>5, <2>6, <2>7, <2>8, <2>9, <2>10, Zenon DEF NumInv

<1>ProcessL2Block. ASSUME ProcessL2Block PROVE NumInv'
  <2> USE <1>ProcessL2Block
  <2> USE DEF wipVars, queueVars, reorgVars, forcedVars, dbVars
  <2> DEFINE block == Head(toProcess)
             b == block.batch
             root == Append(PropagateRoot(b)[b].finalStateRoot, block.num)
  <2>1. /\ UNCHANGED <<wipBatch, wipL2Block, l2BlockCounter, processWG, toStore, storeWG,
                       forcedVars, dbVars, fin, store>>
        /\ proc.pc = "idle" /\ toProcess # <<>> /\ toProcess' = Tail(toProcess) /\ ~l2BlockReorg
    BY Zenon DEF ProcessL2Block, MayProcess
  <2> USE <2>1
  <2>2. /\ DOMAIN toProcess' = {} /\ processWG # 0 /\ block = toProcess[1] /\ 1 \in DOMAIN toProcess
        /\ proc \in ProcessorType
    <3>1. toProcess \in Seq(BlockType) /\ Len(toProcess) \in Nat /\ proc \in ProcessorType
      BY DEF BaseInv, TypeOK
    <3>2. Len(toProcess) <= 1 /\ processWG = Len(toProcess)
      BY <3>1 DEF BaseInv, QueueInv
    <3> QED BY <3>1, <3>2, PopOne
  <2> USE <2>2
  <2>3. /\ block \in BlockType /\ block.num \in Nat /\ b \in BatchNum
        /\ InWork(block) /\ \A i \in DOMAIN toStore : toStore[i].num < block.num
        /\ b # NoBatch => sipBatch <= b /\ \A i \in DOMAIN toStore : toStore[i].batch <= b
    BY PipeTypes, Zenon DEF NumInv, ToProcNum
  <2> USE <2>3
  <2>4. ~Reloaded(fin)
    BY Zenon DEF NumInv, RetNum, NoPendingL2Blocks
  <2> USE <2>4
  <2>5. ToProcNum'
    BY Zenon DEF ToProcNum
  <2> USE <2>5
  <2>6. wipL2Block # NoBlock /\ fin.pc \notin {"sync", "halted"} => block.num < wipL2Block.num
    BY Zenon DEF NumInv, WipNum, Newest
  <2>7. CASE b = NoBatch
    <3>1. proc'.pc = "halted" /\ UNCHANGED <<batches, pipBatch, reorgVars, budget>>
      <4>1. /\ proc' = [proc EXCEPT !.pc = "halted"]
            /\ UNCHANGED <<batches, pipBatch, reorgVars, budget>>
        BY <2>7, Zenon DEF ProcessL2Block
      <4> QED BY <4>1, ProcTyped, Zenon
    <3> USE <3>1
    <3>2. DbNum' /\ StoreNum'
      <4>1. StoredRoot' = StoredRoot
        BY Zenon DEF StoredRoot
      <4> QED BY <4>1, Zenon DEF NumInv, DbNum, StoreNum, Executed, InWork
    <3>3. ProcNum' /\ PipNum'
      BY Zenon DEF ProcNum, PipNum, Live
    <3>4. WipNum'
      BY Zenon DEF NumInv, WipNum, Newest
    <3>5. RetNum'
      BY Zenon DEF NumInv, RetNum
    <3> QED BY <3>2, <3>3, <3>4, <3>5, Zenon DEF NumInv
  <2>8. CASE b # NoBatch
    <3> USE <2>8
    <3>1. b \in BatchNum \ {0}
      BY Zenon DEF NoBatch
    <3> USE <3>1
    <3>2. /\ PropagateRoot(b) \in Batches
          /\ \A n \in BatchNum \ {0} : n # b => PropagateRoot(b)[n] = batches[n]
          /\ pipBatch = b => PropagateRoot(b) = batches
      BY PropagateKeeps, Zenon
    <3> USE <3>2
    <3>3. PropagateRoot(b)[b].finalStateRoot \in Seq(Int)
      BY Zenon DEF Batches, BatchType, Root
    <3>4. pipBatch' = b
      BY Zenon DEF ProcessL2Block
    <3>5. CASE /\ batches' = [PropagateRoot(b) EXCEPT ![b].finalStateRoot = root]
               /\ proc' = [pc |-> "toStore", block |-> [block EXCEPT !.stateRoot = root]]
               /\ UNCHANGED <<reorgVars, halted, budget>>
      <4>1. /\ root \in Seq(Int) /\ block.num \in Range(root)
            /\ Range(PropagateRoot(b)[b].finalStateRoot) \subseteq Range(root)
        BY <3>3, AppendRange
      <4> HIDE DEF root, block, b
      <4>2. /\ \A n \in BatchNum \ {0} : n # b => batches'[n] = batches[n]
            /\ batches'[b].finalStateRoot = root
        <5> DEFINE P == PropagateRoot(b)
        <5>1. batches' = [P EXCEPT ![b].finalStateRoot = root] /\ P \in Batches
          BY <3>5, Zenon
        <5>2. \A n \in BatchNum \ {0} : n # b => P[n] = batches[n]
          BY Zenon
        <5> HIDE DEF P
        <5>3. /\ \A n \in BatchNum \ {0} : n # b => batches'[n] = P[n]
              /\ batches'[b].finalStateRoot = root
          BY <5>1, Zenon DEF Batches, BatchType
        <5> QED BY <5>2, <5>3, Zenon
      <4>3. proc'.pc = "toStore" /\ proc'.block.num = block.num /\ proc'.block.batch = b
            /\ proc'.block.stateRoot = root
        BY <3>5, Zenon DEF BlockType, b
      <4> USE <4>3
      <4>4. DbNum' /\ StoreNum'
        BY <4>1, <4>2, FinalGrows, Zenon
      <4>5. ProcNum'
        <5>1. Executed(proc.block)'
          BY <4>1, <4>2, Zenon DEF Executed, InWork
        <5> QED BY <5>1, Zenon DEF ProcNum
      <4>6. PipNum'
        BY <3>4, Zenon DEF PipNum, LastExecuted
      <4>7. WipNum'
        BY <2>6, Zenon DEF NumInv, WipNum, Newest
      <4>8. RetNum'
        BY Zenon DEF NumInv, RetNum
      <4> QED BY <4>4, <4>5, <4>6, <4>7, <4>8, Zenon DEF NumInv
    <3>6. CASE /\ batches' = PropagateRoot(b)
               /\ \/ proc' = [proc EXCEPT !.pc = "halted"] /\ UNCHANGED reorgVars
                  \/ l2BlockReorg' = TRUE /\ proc' = [proc EXCEPT !.pc = "failed"]
      <4> HIDE DEF b
      <4>1. proc'.pc = "halted" \/ (proc'.pc = "failed" /\ l2BlockReorg')
        BY <3>6, ProcTyped, Zenon
      <4> USE <4>1
      <4>2. /\ \A n \in BatchNum \ {0} : n # b => batches'[n] = batches[n]
            /\ pipBatch = b =>
                 Range(batches[b].finalStateRoot) \subseteq Range(batches'[b].finalStateRoot)
        BY <3>6, Zenon
      <4>3. DbNum' /\ StoreNum'
        BY <4>2, FinalGrows, Zenon
      <4>4. ~Live'
        BY Zenon DEF Live
      <4>5. ProcNum' /\ PipNum'
        BY <4>4, Zenon DEF ProcNum, PipNum
      <4>6. WipNum'
        BY Zenon DEF NumInv, WipNum, Newest
      <4>7. RetNum'
        BY Zenon DEF NumInv, RetNum
      <4> QED BY <4>3, <4>5, <4>6, <4>7, Zenon DEF NumInv
    <3> QED BY <3>5, <3>6, Zenon DEF ProcessL2Block
  <2> QED BY <2>7, <2>8, Zenon

<1>StoreL2Block. ASSUME StoreL2Block PROVE NumInv'
  <2> USE <1>StoreL2Block
  <2> USE DEF wipVars, queueVars, reorgVars, forcedVars, dbVars
  <2> DEFINE block == Head(toStore)
             b == block.batch
             rows == IF sipBatch = NoBatch THEN db ELSE CloseWIPBatch(db, sipBatch)
             new == Row(b, batches[b].initialStateRoot, <<>>, TRUE, FALSE)
  <2>1. /\ UNCHANGED <<wipVars, toProcess, processWG, storeWG, reorgVars, forcedVars,
                       fin, proc, budget>>
        /\ store.pc = "idle" /\ toStore # <<>> /\ toStore' = Tail(toStore)
    BY Zenon DEF StoreL2Block
  <2> USE <2>1
  <2>2. /\ DOMAIN toStore' = {} /\ toStore' = <<>> /\ storeWG # 0 /\ block \in BlockType
        /\ block = toStore[1] /\ 1 \in DOMAIN toStore /\ store \in StorerType
    <3>1. toStore \in Seq(BlockType) /\ Len(toStore) \in Nat /\ store \in StorerType
      BY DEF BaseInv, TypeOK
    <3>2. Len(toStore) <= 1 /\ storeWG = Len(toStore)
      BY <3>1 DEF BaseInv, QueueInv
    <3> QED BY <3>1, <3>2, PopOne
  <2> USE <2>2
  <2>3. /\ b \in BatchNum \ {0} /\ b # NoBatch /\ b \in Nat /\ block.num \in Nat /\ Executed(block)
    BY PipeTypes, Zenon DEF NumInv, StoreNum, NoBatch
  <2> USE <2>3
  <2>4. ~Reloaded(fin)
    BY Zenon DEF NumInv, RetNum, NoPendingL2Blocks
  <2>5. RetNum'
    BY <2>4, Zenon DEF NumInv, RetNum
  <2>6. StoreNum'
    BY Zenon DEF StoreNum
  <2>7. db \in Seq(RowType) /\ RowsOK(db, sipBatch) /\ batches \in Batches
    BY Zenon DEF BaseInv, TypeOK
  <2> USE <2>7
  <2>8. CASE /\ store' = [store EXCEPT !.pc = "halted"] /\ UNCHANGED dbVars
    <3>1. store'.pc = "halted"
      BY <2>8, StoreTyped, Zenon
    <3>2. DbNum' /\ PipNum'
      <4>1. StoredRoot' = StoredRoot
        BY <2>8, Zenon DEF StoredRoot
      <4> QED BY <2>8, <3>1, <4>1, Zenon DEF NumInv, DbNum, PipNum, Live
    <3>3. ProcNum' /\ ToProcNum'
      BY <2>8, Zenon DEF NumInv, ProcNum, ToProcNum, Executed, InWork
    <3>4. WipNum'
      BY <2>8, Zenon DEF NumInv, WipNum, Newest
    <3> QED BY <2>5, <2>6, <3>2, <3>3, <3>4, Zenon DEF NumInv
  <2>9. CASE /\ sipBatch' = b
             /\ StoredRoot' = block.stateRoot
             /\ \A n \in Int : Below(db, n) /\ block.num < n => Below(db', n)
             /\ \A n \in Int : UpTo(db, n) /\ block.num <= n => UpTo(db', n)
    <3> USE <2>9
    <3> HIDE DEF b, block
    <3>1. UpTo(db, block.num) /\ UpTo(db', block.num)
      BY BelowUpTo DEF Executed, InWork
    <3>2. DbNum'
      <4>1. UpTo(db', l2BlockCounter)
        BY PipeTypes DEF NumInv, DbNum, Executed, InWork
      <4>2. Reaches(block.stateRoot, db') /\ Reaches(batches[b].finalStateRoot, db')
        BY <3>1, Zenon DEF Reaches, Executed, b
      <4> QED BY <4>1, <4>2, Zenon DEF DbNum
    <3>3. ProcNum'
      <4>1. SUFFICES ASSUME proc.pc = "toStore" PROVE Executed(proc.block)'
        BY Zenon DEF ProcNum
      <4>2. /\ Executed(proc.block) /\ block.num < proc.block.num /\ b <= proc.block.batch
            /\ proc.block.num \in Nat
        BY <4>1, PipeTypes, Zenon DEF NumInv, ProcNum, b
      <4>3. Below(db', proc.block.num)
        BY <4>2 DEF Executed, InWork
      <4> QED BY <4>2, <4>3, Zenon DEF Executed, InWork
    <3>4. ToProcNum'
      <4>1. ASSUME NEW k \in DOMAIN toProcess
            PROVE  /\ toProcess[k].num <= MaxBlock /\ toProcess[k].num <= l2BlockCounter
                   /\ Below(db', toProcess[k].num)
                   /\ toProcess[k].batch = NoBatch \/ b <= toProcess[k].batch
        <5>1. /\ InWork(toProcess[k]) /\ block.num < toProcess[k].num
              /\ toProcess[k].batch = NoBatch \/ b <= toProcess[k].batch
              /\ toProcess[k].num \in Nat
          BY PipeTypes, Zenon DEF NumInv, ToProcNum, b
        <5>2. Below(db', toProcess[k].num)
          BY <5>1 DEF InWork
        <5> QED BY <5>1, <5>2, Zenon DEF InWork
      <4> QED BY <4>1, Zenon DEF ToProcNum, InWork
    <3>5. PipNum'
      <4>1. LastExecuted' = LastExecuted
        BY Zenon DEF LastExecuted, b
      <4>2. Live' => Live
        BY Zenon DEF Live
      <4> QED BY <4>1, <4>2, Zenon DEF NumInv, PipNum
    <3>6. WipNum'
      <4>1. ASSUME wipL2Block # NoBlock, Newest(wipL2Block.num)
            PROVE  Newest(wipL2Block.num)'
        <5>1. Below(db, wipL2Block.num) /\ block.num < wipL2Block.num /\ wipL2Block.num \in Nat
          BY <4>1, PipeTypes, Zenon DEF Newest
        <5>2. Below(db', wipL2Block.num)
          BY <5>1
        <5> QED BY <4>1, <5>2, Zenon DEF Newest
      <4>2. fin.pc \notin {"forced", "forcedFailed"}
        BY Zenon DEF BaseInv, ControlInv, Quiet, NoPendingL2Blocks
      <4> QED BY <4>1, <4>2, Zenon DEF NumInv, WipNum
    <3> QED BY <2>5, <2>6, <3>2, <3>3, <3>4, <3>5, <3>6, ZenonT(30) DEF NumInv
  <2>10. CASE /\ sipBatch = b /\ db' = AddL2Block(db, block) /\ UNCHANGED sipBatch
    <3>1. /\ db'[Len(db')].stateRoot = block.stateRoot
          /\ \A n \in Int : Below(db, n) /\ block.num < n => Below(db', n)
          /\ \A n \in Int : UpTo(db, n) /\ block.num <= n => UpTo(db', n)
      <4> HIDE DEF b, block
      <4>1. block.batch = b
        BY Zenon DEF b
      <4> QED BY <2>10, <4>1, AddNums
    <3>2. StoredRoot' = block.stateRoot
      BY <3>1, Zenon DEF StoredRoot
    <3> QED BY <2>9, <2>10, <3>1, <3>2, Zenon
  <2>11. CASE /\ MayOpen(rows, b)
              /\ db' = AddL2Block(Append(rows, new), block)
              /\ sipBatch' = b
    <3> USE <2>11
    <3>1. batches[b].initialStateRoot \in Root
      BY Zenon DEF Batches, BatchType
    <3>2. rows = IF sipBatch = NoBatch THEN db ELSE CloseWIPBatch(db, sipBatch)
      BY Zenon
    <3>3. new = Row(b, batches[b].initialStateRoot, <<>>, TRUE, FALSE)
      BY Zenon
    <3>4. MayOpen(rows, b)
      BY Zenon
    <3>5. block.batch = b /\ db' = AddL2Block(Append(rows, new), block)
      BY Zenon
    <3> HIDE DEF b, rows, new, block
    <3>6. RowsOK(Append(rows, new), b)
      BY <3>1, <3>2, <3>3, <3>4, OpenRows, Zenon
    <3>7. /\ db'[Len(db')].stateRoot = block.stateRoot
          /\ \A n \in Int : Below(Append(rows, new), n) /\ block.num < n => Below(db', n)
          /\ \A n \in Int : UpTo(Append(rows, new), n) /\ block.num <= n => UpTo(db', n)
      BY <3>5, <3>6, AddNums
    <3>8. /\ rows \in Seq(RowType) /\ Len(rows) = Len(db)
          /\ \A i \in 1 .. Len(db) : rows[i].blocks = db[i].blocks
      <4>1. CASE sipBatch = NoBatch
        BY <3>2, <4>1, Zenon
      <4>2. CASE sipBatch # NoBatch
        <5>1. rows = CloseWIPBatch(db, sipBatch)
          BY <3>2, <4>2, Zenon
        <5> QED BY <5>1, CloseRows
      <4> QED BY <4>1, <4>2, Zenon
    <3>9. new \in RowType /\ new.blocks = <<>>
      <4>1. <<>> \in Root
        BY EmptySeq, Zenon DEF Root
      <4> QED BY <3>1, <3>3, <4>1, Zenon DEF Row, RowType
    <3>10. /\ \A n : Below(db, n) => Below(Append(rows, new), n)
           /\ \A n : UpTo(db, n) => UpTo(Append(rows, new), n)
      BY <3>8, <3>9, OpenNums, Zenon
    <3>11. StoredRoot' = block.stateRoot
      BY <3>7, Zenon DEF StoredRoot
    <3> QED BY <2>9, <3>7, <3>10, <3>11, Zenon
  <2> QED BY <2>8, <2>10, <2>11, Zenon DEF StoreL2Block

<1>L2BlockStored. ASSUME L2BlockStored PROVE NumInv'
  <2> USE <1>L2BlockStored
  <2> USE DEF wipVars, queueVars, reorgVars, forcedVars, dbVars
  <2>1. /\ UNCHANGED <<wipVars, toProcess, processWG, toStore, reorgVars, forcedVars, dbVars,
                       fin, proc, halted, budget>>
        /\ store.pc = "stored"
    BY ZenonT(30) DEF L2BlockStored
  <2> USE <2>1
  <2>2. storeWG # 0
    <3>1. Len(toStore) \in Nat
      BY PipeTypes
    <3> QED BY <3>1, SMTT(30) DEF BaseInv, QueueInv
  <2>3. ~Reloaded(fin)
    BY <2>2, Zenon DEF NumInv, RetNum, NoPendingL2Blocks
  <2>4. DbNum' /\ PipNum'
    <3>1. StoredRoot' = StoredRoot /\ LastExecuted' = LastExecuted
      BY Zenon DEF StoredRoot, LastExecuted
    <3>2. Live' => Live
      BY Zenon DEF Live
    <3> QED BY <3>1, <3>2, Zenon DEF NumInv, DbNum, PipNum
  <2>5. StoreNum' /\ ProcNum' /\ ToProcNum'
    BY Zenon DEF NumInv, StoreNum, ProcNum, ToProcNum, Executed, InWork
  <2>6. WipNum' /\ RetNum'
    BY <2>3, Zenon DEF NumInv, WipNum, RetNum, Newest
  <2> QED BY <2>4, <2>5, <2>6, Zenon DEF NumInv

<1>BatchSanityCheck. ASSUME BatchSanityCheck PROVE NumInv'
  <2> USE <1>BatchSanityCheck
  <2> USE DEF wipVars, queueVars, reorgVars, forcedVars
  <2>1. UNCHANGED <<wipVars, queueVars, reorgVars, forcedVars, sipBatch, fin, proc, store, budget>>
    BY Zenon DEF BatchSanityCheck
  <2> USE <2>1
  <2>2. /\ DOMAIN db' = DOMAIN db /\ \A i \in DOMAIN db : db'[i].blocks = db[i].blocks
        /\ StoredRoot' = StoredRoot
    BY SanityCheckRows, CheckedKeeps, Zenon
  <2>3. /\ \A n : UpTo(db', n) <=> UpTo(db, n)
        /\ \A n : Below(db', n) <=> Below(db, n)
        /\ \A r : Reaches(r, db') <=> Reaches(r, db)
    BY <2>2, SameData, Zenon
  <2> USE <2>3
  <2>4. DbNum' /\ PipNum'
    BY <2>2, Zenon DEF NumInv, DbNum, PipNum, Live, LastExecuted
  <2>5. StoreNum' /\ ProcNum' /\ ToProcNum'
    BY Zenon DEF NumInv, StoreNum, ProcNum, ToProcNum, Executed, InWork
  <2>6. WipNum'
    BY Zenon DEF NumInv, WipNum, Newest
  <2>7. RetNum'
    BY Zenon DEF NumInv, RetNum, NoPendingL2Blocks
  <2> QED BY <2>4, <2>5, <2>6, <2>7, Zenon DEF NumInv

<1>Restart. ASSUME Restart PROVE NumInv'
  <2> USE <1>Restart
  <2>1. /\ sipBatch' = NoBatch /\ wipL2Block' = NoBlock
        /\ toProcess' = <<>> /\ toStore' = <<>> /\ proc'.pc = "idle"
        /\ l2BlockCounter' = LastBlockNum
    BY Zenon DEF Restart
  <2> USE <2>1
  <2>2. fin'.pc \in {"start", "halted"}
    <3> DEFINE idle == [pc |-> "start", ret |-> "top", cont |-> "open", i |-> 0,
                        num |-> 0, root |-> <<>>]
    <3>1. fin' = idle \/ fin' = [idle EXCEPT !.pc = "halted"]
      BY Zenon DEF Restart
    <3> QED BY <3>1
  <2>3. /\ DOMAIN db' = DOMAIN db /\ \A i \in DOMAIN db : db'[i].blocks = db[i].blocks
        /\ StoredRoot' = StoredRoot /\ StoredRoot \in Seq(Int)
    BY RestartRows, CheckedKeeps, Zenon
  <2> USE <2>3
  <2>4. /\ \A n : UpTo(db', n) <=> UpTo(db, n)
        /\ \A r : Reaches(r, db') <=> Reaches(r, db)
    BY SameData, Zenon
  <2>5. UpTo(db, LastBlockNum)
    <3>1. PICK n \in {0} \cup Range(StoredRoot) :
             n \in Nat /\ \A m \in {0} \cup Range(StoredRoot) : m <= n
      BY Zenon DEF LastNumbers
    <3>2. LastBlockNum = CHOOSE n1 \in {0} \cup Range(StoredRoot) :
                            \A m \in {0} \cup Range(StoredRoot) : m <= n1
      BY Zenon DEF LastBlockNum, StoredRoot
    <3>3. /\ LastBlockNum \in {0} \cup Range(StoredRoot)
          /\ \A m \in {0} \cup Range(StoredRoot) : m <= LastBlockNum
      BY <3>1, <3>2, Zenon
    <3>4. \A x \in {0} \cup Range(StoredRoot) : x \in Int
      BY DEF Range
    <3>5. PICK k \in {0} \cup Range(StoredRoot) : UpTo(db, k)
      BY Zenon DEF NumInv, DbNum, Reaches
    <3>6. k \in Int /\ LastBlockNum \in Int /\ k <= LastBlockNum
      BY <3>3, <3>4, <3>5, Zenon
    <3> QED BY <3>5, <3>6, PipeTypes, UpToMore, Zenon
  <2>6. DbNum'
    BY <2>4, <2>5, Zenon DEF NumInv, DbNum
  <2>7. DOMAIN toStore' = {} /\ DOMAIN toProcess' = {}
    OBVIOUS
  <2>8. StoreNum' /\ ProcNum' /\ ToProcNum'
    BY <2>7, Zenon DEF StoreNum, ProcNum, ToProcNum
  <2>9. PipNum'
    BY Zenon DEF PipNum, LastExecuted
  <2>10. WipNum' /\ RetNum'
    BY <2>2, Zenon DEF WipNum, RetNum, Reloaded
  <2> QED BY <2>6, <2>8, <2>9, <2>10, Zenon DEF NumInv

<1>1. CASE FinalizerNext
  BY <1>1, <1>CheckReorg, <1>CheckBlockTime, <1>SelectTx, <1>CheckFinalizeBatch, ZenonT(30),
     <1>PushL2Block, <1>SyncStateRoot, <1>OpenNewWIPL2Block, <1>CloseAndOpenNewWIPBatch,
     <1>HaltOnBatch, StutterNum, <1>ProcessL2BlockReorg, <1>ReorgDone, <1>Start,
     <1>CloseForForcedBatches, <1>StartForcedBatches, <1>ProcessForcedBatch,
     <1>ForcedBatchesDone
     DEF FinalizerNext, KeepHalting
<1>2. CASE ProcessorNext
  BY <1>2, <1>DiscardL2Block, <1>ProcessL2Block, <1>PushToStore, <1>ProcessFailed, Zenon
     DEF ProcessorNext
<1>3. CASE StorerNext
  BY <1>3, <1>StoreL2Block, <1>L2BlockStored, Zenon DEF StorerNext
<1>4. CASE BatchSanityCheck
  BY <1>4, <1>BatchSanityCheck, Zenon
<1>5. CASE CheckForcedBatches
  BY <1>5, <1>CheckForcedBatches, Zenon
<1>6. CASE Restart
  BY <1>6, <1>Restart, Zenon
<1> QED BY <1>1, <1>2, <1>3, <1>4, <1>5, <1>6, Zenon DEF Next

-----------------------------------------------------------------------------
(* The rows of the state database as TrustedState sees them *)

LEMMA SeenRows ==
  ASSUME NEW d \in Seq(RowType)
  PROVE  /\ Seen(d) = [i \in 1 .. Len(d) |-> [num |-> d[i].num, items |-> d[i].blocks, open |-> d[i].wip]]
         /\ Len(Seen(d)) = Len(d) /\ DOMAIN Seen(d) = 1 .. Len(d)
         /\ \A i \in 1 .. Len(d) :
               /\ Seen(d)[i] = [num |-> d[i].num, items |-> d[i].blocks, open |-> d[i].wip]
               /\ Seen(d)[i].num = d[i].num /\ Seen(d)[i].items = d[i].blocks
               /\ Seen(d)[i].open = d[i].wip
<1>1. Len(d) \in Nat /\ DOMAIN d = 1 .. Len(d)
  OBVIOUS
<1>2. Seen(d) = [i \in 1 .. Len(d) |-> [num |-> d[i].num, items |-> d[i].blocks, open |-> d[i].wip]]
  BY <1>1, Zenon DEF Seen
<1> USE <1>2
<1>3. DOMAIN Seen(d) = 1 .. Len(d)
  BY Zenon
<1>4. Len(Seen(d)) = Len(d)
  BY <1>1
<1> QED BY <1>3, <1>4

LEMMA SeenRowClosed ==
  ASSUME NEW n, NEW s, NEW o, NEW r, r = [num |-> n, items |-> s, open |-> o],
         NEW q, q = [r EXCEPT !.open = FALSE]
  PROVE  q = [num |-> n, items |-> s, open |-> FALSE]
BY Zenon

LEMMA SeenRowAdded ==
  ASSUME NEW n, NEW s, NEW o, NEW t, NEW r, r = [num |-> n, items |-> s, open |-> o],
         NEW q, q = [r EXCEPT !.items = Append(@, t)]
  PROVE  q = [num |-> n, items |-> Append(s, t), open |-> o]
BY Zenon

LEMMA AppendAsFunction ==
  ASSUME NEW T, NEW s \in Seq(T), NEW x \in T
  PROVE  Append(s, x) = [i \in 1 .. (Len(s) + 1) |-> IF i = Len(s) + 1 THEN x ELSE s[i]]
<1> DEFINE g == [i \in 1 .. (Len(s) + 1) |-> IF i = Len(s) + 1 THEN x ELSE s[i]]
<1>1. Len(s) \in Nat /\ Append(s, x) \in Seq(T) /\ Len(Append(s, x)) = Len(s) + 1
  OBVIOUS
<1>2. \A i \in 1 .. (Len(s) + 1) : Append(s, x)[i] = IF i = Len(s) + 1 THEN x ELSE s[i]
  OBVIOUS
<1>3. Append(s, x) = [i \in 1 .. (Len(s) + 1) |-> Append(s, x)[i]]
  <2> DEFINE q == Append(s, x)
  <2>1. q \in Seq(T) /\ Len(q) = Len(s) + 1
    BY <1>1, Zenon
  <2> HIDE DEF q
  <2>2. q = [i \in 1 .. (Len(s) + 1) |-> q[i]]
    BY <1>1, <2>1
  <2> QED BY <2>2, Zenon DEF q
<1> QED BY <1>2, <1>3, Zenon

LEMMA SeenSame ==
  ASSUME NEW d \in Seq(RowType), NEW e, SameRows(e, d)
  PROVE  Seen(e) = Seen(d)
<1>1. e \in Seq(RowType) /\ Len(e) = Len(d)
  BY Zenon DEF SameRows
<1>2. \A i \in 1 .. Len(d) : /\ e[i].num = d[i].num /\ e[i].blocks = d[i].blocks
                             /\ e[i].wip = d[i].wip
  BY Zenon DEF SameRows
<1> QED BY <1>1, <1>2, SeenRows, Zenon

\* the last batch is closed
LEMMA SeenClose ==
  ASSUME NEW d, NEW sip, RowsOK(d, sip), sip # NoBatch, NEW e, e = CloseWIPBatch(d, sip)
  PROVE  /\ Seen(d)[Len(Seen(d))].open
         /\ Seen(e) = [Seen(d) EXCEPT ![Len(Seen(d))].open = FALSE]
<1>1. /\ d \in Seq(RowType) /\ Len(d) >= 1 /\ sip = Len(d) /\ d[Len(d)].wip
      /\ \A i \in 1 .. Len(d) : d[i].num = i
  BY Zenon DEF RowsOK
<1>2. Len(d) \in Nat /\ Len(d) \in 1 .. Len(d)
  BY <1>1
<1>3. /\ e \in Seq(RowType) /\ Len(e) = Len(d)
      /\ \A i \in 1 .. Len(d) :
            /\ e[i].num = d[i].num /\ e[i].blocks = d[i].blocks
            /\ IF d[i].num = sip THEN ~e[i].wip ELSE e[i].wip = d[i].wip
  BY <1>1, CloseRows
<1>4. e[Len(d)].wip = FALSE
  <2>1. e[Len(d)] \in RowType /\ ~e[Len(d)].wip
    BY <1>1, <1>2, <1>3
  <2> QED BY <2>1, Zenon DEF RowType
<1>5. \A i \in 1 .. Len(d) : i # Len(d) => e[i].wip = d[i].wip
  BY <1>1, <1>3, Zenon
<1>6. /\ Len(Seen(d)) = Len(d) /\ DOMAIN Seen(d) = 1 .. Len(d)
      /\ \A i \in 1 .. Len(d) :
               /\ Seen(d)[i] = [num |-> d[i].num, items |-> d[i].blocks, open |-> d[i].wip]
               /\ Seen(d)[i].open = d[i].wip
  BY <1>1, SeenRows, Zenon
<1>7. Seen(d)[Len(Seen(d))].open
  BY <1>1, <1>2, <1>6, Zenon
<1>8. Seen(e) = [i \in 1 .. Len(d) |-> [num |-> e[i].num, items |-> e[i].blocks, open |-> e[i].wip]]
  BY <1>3, SeenRows, Zenon
<1>9. [Seen(d) EXCEPT ![Len(d)].open = FALSE]
        = [i \in 1 .. Len(d) |-> IF i = Len(d) THEN [Seen(d)[i] EXCEPT !.open = FALSE] ELSE Seen(d)[i]]
  BY <1>6, Zenon
<1>10. ASSUME NEW i \in 1 .. Len(d)
       PROVE  [num |-> e[i].num, items |-> e[i].blocks, open |-> e[i].wip]
                = IF i = Len(d) THEN [Seen(d)[i] EXCEPT !.open = FALSE] ELSE Seen(d)[i]
  <2>1. CASE i = Len(d)
    <3>1. Seen(d)[i] = [num |-> d[i].num, items |-> d[i].blocks, open |-> d[i].wip]
      BY <1>6, Zenon
    <3>2. [Seen(d)[i] EXCEPT !.open = FALSE] = [num |-> d[i].num, items |-> d[i].blocks, open |-> FALSE]
      BY <3>1, SeenRowClosed, ZenonT(30)
    <3> QED BY <1>3, <1>4, <2>1, <3>2, Zenon
  <2>2. CASE i # Len(d)
    BY <1>3, <1>5, <1>6, <2>2, Zenon
  <2> QED BY <2>1, <2>2, Zenon
<1> QED BY <1>6, <1>7, <1>8, <1>9, <1>10, Zenon

\* an L2 block joins the last batch
LEMMA LastRowAdded ==
  ASSUME NEW d, NEW b, RowsOK(d, b), b # NoBatch, NEW block \in BlockType, block.batch = b,
         NEW e, e = AddL2Block(d, block)
  PROVE  /\ e \in Seq(RowType) /\ Len(e) = Len(d)
         /\ \A i \in 1 .. Len(d) : i # Len(d) => e[i] = d[i]
         /\ e[Len(d)].blocks = Append(d[Len(d)].blocks, block.num)
         /\ e[Len(d)].num = d[Len(d)].num /\ e[Len(d)].wip = d[Len(d)].wip
<1>1. /\ d \in Seq(RowType) /\ Len(d) >= 1 /\ b = Len(d)
      /\ \A i \in 1 .. Len(d) : d[i].num = i
  BY Zenon DEF RowsOK
<1>2. Len(d) \in Nat /\ Len(d) \in 1 .. Len(d)
  BY <1>1
<1>3. /\ e \in Seq(RowType) /\ Len(e) = Len(d)
      /\ \A i \in 1 .. Len(d) : d[i].num # block.batch => e[i] = d[i]
      /\ \A i \in 1 .. Len(d) : d[i].num = block.batch =>
              /\ e[i].num = d[i].num
              /\ e[i].blocks = Append(d[i].blocks, block.num)
              /\ e[i].wip = d[i].wip
  BY <1>1, AddRows, Zenon
<1> QED BY <1>1, <1>2, <1>3, Zenon

LEMMA SeenAdd ==
  ASSUME NEW d, NEW b, RowsOK(d, b), b # NoBatch, NEW block \in BlockType, block.batch = b,
         NEW e, e = AddL2Block(d, block)
  PROVE  /\ Seen(d)[Len(Seen(d))].open
         /\ Seen(e) = [Seen(d) EXCEPT ![Len(Seen(d))].items = Append(@, block.num)]
<1>1. /\ d \in Seq(RowType) /\ Len(d) >= 1 /\ b = Len(d) /\ d[Len(d)].wip
      /\ \A i \in 1 .. Len(d) : d[i].num = i
  BY Zenon DEF RowsOK
<1>2. Len(d) \in Nat /\ Len(d) \in 1 .. Len(d)
  BY <1>1
<1>3. /\ e \in Seq(RowType) /\ Len(e) = Len(d)
      /\ \A i \in 1 .. Len(d) : i # Len(d) => e[i] = d[i]
      /\ e[Len(d)].blocks = Append(d[Len(d)].blocks, block.num)
      /\ e[Len(d)].num = d[Len(d)].num /\ e[Len(d)].wip = d[Len(d)].wip
  BY LastRowAdded, ZenonT(30)
<1>4. /\ Len(Seen(d)) = Len(d) /\ DOMAIN Seen(d) = 1 .. Len(d)
      /\ \A i \in 1 .. Len(d) :
               /\ Seen(d)[i] = [num |-> d[i].num, items |-> d[i].blocks, open |-> d[i].wip]
               /\ Seen(d)[i].open = d[i].wip
  BY <1>1, SeenRows, Zenon
<1>5. Seen(d)[Len(Seen(d))].open
  BY <1>1, <1>2, <1>4, Zenon
<1>6. Seen(e) = [i \in 1 .. Len(d) |-> [num |-> e[i].num, items |-> e[i].blocks, open |-> e[i].wip]]
  BY <1>3, SeenRows, Zenon
<1>7. [Seen(d) EXCEPT ![Len(d)].items = Append(@, block.num)]
        = [i \in 1 .. Len(d) |-> IF i = Len(d)
                                 THEN [Seen(d)[i] EXCEPT !.items = Append(@, block.num)]
                                 ELSE Seen(d)[i]]
  BY <1>4, Zenon
<1>8. ASSUME NEW i \in 1 .. Len(d)
      PROVE  [num |-> e[i].num, items |-> e[i].blocks, open |-> e[i].wip]
                = IF i = Len(d) THEN [Seen(d)[i] EXCEPT !.items = Append(@, block.num)]
                                ELSE Seen(d)[i]
  <2>1. CASE i = Len(d)
    <3>1. Seen(d)[i] = [num |-> d[i].num, items |-> d[i].blocks, open |-> d[i].wip]
      BY <1>4, Zenon
    <3> DEFINE r == Seen(d)[i]
               q == [r EXCEPT !.items = Append(@, block.num)]
               t == block.num
    <3>2. r = [num |-> d[i].num, items |-> d[i].blocks, open |-> d[i].wip]
          /\ q = [r EXCEPT !.items = Append(@, t)]
      BY <3>1, Zenon
    <3>3. q = [num |-> d[i].num, items |-> Append(d[i].blocks, t), open |-> d[i].wip]
      <4> HIDE DEF r, q, t
      <4> QED BY <3>2, SeenRowAdded, Zenon
    <3> QED BY <1>3, <2>1, <3>3, Zenon
  <2>2. CASE i # Len(d)
    BY <1>3, <1>4, <2>2, Zenon
  <2> QED BY <2>1, <2>2, Zenon
<1>9. Seen(e) = [Seen(d) EXCEPT ![Len(d)].items = Append(@, block.num)]
  BY <1>6, <1>7, <1>8, Zenon
<1>10. Seen(e) = [Seen(d) EXCEPT ![Len(Seen(d))].items = Append(@, block.num)]
  BY <1>4, <1>9, Zenon
<1> QED BY <1>5, <1>10, Zenon

LEMMA SeenOpen ==
  ASSUME NEW d \in Seq(RowType), Len(d) >= 1, d[Len(d)].num = Len(d),
         NEW e \in Seq(RowType), Len(e) = Len(d) + 1,
         \A i \in 1 .. Len(d) : /\ e[i].num = d[i].num /\ e[i].blocks = d[i].blocks
                                /\ ~e[i].wip,
         e[Len(e)].num = Len(d) + 1, e[Len(e)].wip
  PROVE  Seen(e) = OpenedAfter(Seen(d), e[Len(e)].blocks)
<1> DEFINE items == e[Len(e)].blocks
<1>1. Len(d) \in Nat /\ Len(d) \in 1 .. Len(d)
  OBVIOUS
<1> USE <1>1
<1>4. e[Len(d) + 1].blocks = items /\ e[Len(d) + 1].num = Len(d) + 1
      /\ e[Len(d) + 1].wip = TRUE
  <2>1. e[Len(d) + 1] \in RowType /\ e[Len(d) + 1].wip
    OBVIOUS
  <2>2. e[Len(d) + 1].wip = TRUE
    BY <2>1, Zenon DEF RowType
  <2> QED BY <2>2, Zenon
<1>5. ASSUME NEW i \in 1 .. Len(d)
      PROVE  e[i].num = d[i].num /\ e[i].blocks = d[i].blocks /\ e[i].wip = FALSE
  <2>1. e[i] \in RowType /\ ~e[i].wip
    OBVIOUS
  <2>2. e[i].wip = FALSE
    BY <2>1, Zenon DEF RowType
  <2> QED BY <2>2, Zenon
<1>6. /\ Len(Seen(d)) = Len(d)
      /\ \A i \in 1 .. Len(d) :
               /\ Seen(d)[i] = [num |-> d[i].num, items |-> d[i].blocks, open |-> d[i].wip]
               /\ Seen(d)[i].num = d[i].num
  BY SeenRows, SMTT(30)
<1> USE <1>6
<1>7. Seen(e) = [i \in 1 .. (Len(d) + 1) |->
                    [num |-> e[i].num, items |-> e[i].blocks, open |-> e[i].wip]]
  BY SeenRows
<1>8. ASSUME NEW i \in 1 .. (Len(d) + 1)
      PROVE  [num |-> e[i].num, items |-> e[i].blocks, open |-> e[i].wip]
               = IF i <= Len(d) THEN [Seen(d)[i] EXCEPT !.open = FALSE]
                 ELSE [num |-> Seen(d)[Len(d)].num + 1, items |-> items, open |-> TRUE]
  <2>1. CASE i <= Len(d)
    <3>1. i \in 1 .. Len(d)
      BY <2>1
    <3>2. Seen(d)[i] = [num |-> d[i].num, items |-> d[i].blocks, open |-> d[i].wip]
      BY <3>1, Zenon
    <3> DEFINE r == Seen(d)[i]
               q == [r EXCEPT !.open = FALSE]
    <3>3. q = [num |-> d[i].num, items |-> d[i].blocks, open |-> FALSE]
      <4>1. r = [num |-> d[i].num, items |-> d[i].blocks, open |-> d[i].wip]
            /\ q = [r EXCEPT !.open = FALSE]
        BY <3>2, Zenon
      <4> HIDE DEF r, q
      <4> QED BY <4>1, SeenRowClosed, Zenon
    <3> QED BY <1>5, <2>1, <3>1, <3>3, Zenon
  <2>2. CASE ~(i <= Len(d))
    <3>1. i = Len(d) + 1
      BY <2>2
    <3>2. Seen(d)[Len(d)].num + 1 = Len(d) + 1
      BY Zenon
    <3> QED BY <1>4, <2>2, <3>1, <3>2, Zenon
  <2> QED BY <2>1, <2>2, Zenon
<1>9. Seen(e) = [i \in 1 .. (Len(d) + 1) |->
                    IF i <= Len(d) THEN [Seen(d)[i] EXCEPT !.open = FALSE]
                    ELSE [num |-> Seen(d)[Len(d)].num + 1, items |-> items, open |-> TRUE]]
  BY <1>7, <1>8, Zenon
<1> QED BY <1>9, Zenon DEF OpenedAfter

\* a forced batch becomes the next batch
LEMMA SeenForced ==
  ASSUME NEW d \in Seq(RowType), Len(d) >= 1, ~d[Len(d)].wip, NEW row \in RowType, NEW item,
         row.num = d[Len(d)].num + 1, row.blocks = <<item>>, ~row.wip,
         NEW e, e = Append(d, row)
  PROVE  /\ ~Seen(d)[Len(Seen(d))].open
         /\ Seen(e) = Append(Seen(d), [num |-> Seen(d)[Len(Seen(d))].num + 1,
                                       items |-> <<item>>, open |-> FALSE])
<1>1. Len(d) \in Nat /\ Len(d) \in 1 .. Len(d)
  OBVIOUS
<1> USE <1>1
<1>2. /\ e \in Seq(RowType) /\ Len(e) = Len(d) + 1 /\ e[Len(d) + 1] = row
      /\ \A i \in 1 .. Len(d) : e[i] = d[i]
  OBVIOUS
<1> USE <1>2
<1>3. row.wip = FALSE
  BY Zenon DEF RowType
<1>4. /\ Len(Seen(d)) = Len(d) /\ DOMAIN Seen(d) = 1 .. Len(d)
      /\ Seen(d) = [i \in 1 .. Len(d) |-> [num |-> d[i].num, items |-> d[i].blocks, open |-> d[i].wip]]
      /\ \A i \in 1 .. Len(d) :
               /\ Seen(d)[i] = [num |-> d[i].num, items |-> d[i].blocks, open |-> d[i].wip]
               /\ Seen(d)[i].num = d[i].num /\ Seen(d)[i].open = d[i].wip
  BY SeenRows, Zenon
<1>5. ~Seen(d)[Len(Seen(d))].open
  BY <1>4, Zenon
<1> DEFINE x == [num |-> d[Len(d)].num + 1, items |-> <<item>>, open |-> FALSE]
<1>6. Seen(e) = [i \in 1 .. (Len(d) + 1) |->
                    [num |-> e[i].num, items |-> e[i].blocks, open |-> e[i].wip]]
  BY SeenRows, Zenon
<1>7. Append(Seen(d), x) = [i \in 1 .. (Len(d) + 1) |-> IF i = Len(d) + 1 THEN x ELSE Seen(d)[i]]
  <2> DEFINE T == {Seen(d)[i] : i \in 1 .. Len(d)} \cup {x}
  <2>2. Seen(d) \in [1 .. Len(d) -> T]
    BY <1>4, Zenon
  <2>3. Seen(d) \in Seq(T)
    <3> HIDE DEF T
    <3> QED BY <2>2
  <2>4. x \in T
    BY Zenon
  <2> HIDE DEF T, x
  <2> QED BY <1>4, <2>3, <2>4, AppendAsFunction
<1>8. ASSUME NEW i \in 1 .. (Len(d) + 1)
      PROVE  [num |-> e[i].num, items |-> e[i].blocks, open |-> e[i].wip]
               = IF i = Len(d) + 1 THEN x ELSE Seen(d)[i]
  <2>1. CASE i = Len(d) + 1
    BY <1>3, <2>1, Zenon
  <2>2. CASE i # Len(d) + 1
    <3>1. i \in 1 .. Len(d)
      BY <2>2
    <3> QED BY <1>4, <2>2, <3>1, Zenon
  <2> QED BY <2>1, <2>2, Zenon
<1>9. Seen(e) = Append(Seen(d), x)
  <2> HIDE DEF x
  <2> QED BY <1>6, <1>7, <1>8, Zenon
<1>10. Seen(d)[Len(Seen(d))].num = d[Len(d)].num
  BY <1>4, Zenon
<1> QED BY <1>5, <1>9, <1>10, Zenon

\* the steps of TrustedState, on the rows it sees
LEMMA TrustedAddBlock ==
  ASSUME NEW item \in (-MaxForced) .. MaxBlock,
         Seen(db)[Len(Seen(db))].open,
         \A i \in 1 .. Len(Seen(db)) : \A j \in 1 .. Len(Seen(db)[i].items) : Seen(db)[i].items[j] # item,
         Seen(db)' = [Seen(db) EXCEPT ![Len(Seen(db))].items = Append(@, item)]
  PROVE  Trusted!Next
<1>1. Trusted!AddBlock(item)
  BY Zenon DEF Seen, Trusted!AddBlock, Trusted!Fresh, Trusted!last
<1> QED BY <1>1, Zenon DEF Trusted!Next

LEMMA TrustedAddBatch ==
  ASSUME NEW item \in (-MaxForced) .. MaxBlock,
         \A i \in 1 .. Len(Seen(db)) : \A j \in 1 .. Len(Seen(db)[i].items) : Seen(db)[i].items[j] # item,
         Seen(db)' = OpenedAfter(Seen(db), <<item>>)
  PROVE  Trusted!Next
<1>1. Trusted!AddBatch(item)
  BY Zenon DEF Seen, OpenedAfter, Trusted!AddBatch, Trusted!Fresh, Trusted!last, Trusted!Batch
<1> QED BY <1>1, Zenon DEF Trusted!Next

LEMMA TrustedAddForced ==
  ASSUME NEW item \in (-MaxForced) .. MaxBlock,
         ~Seen(db)[Len(Seen(db))].open,
         \A i \in 1 .. Len(Seen(db)) : \A j \in 1 .. Len(Seen(db)[i].items) : Seen(db)[i].items[j] # item,
         Seen(db)' = Append(Seen(db), [num |-> Seen(db)[Len(Seen(db))].num + 1,
                                       items |-> <<item>>, open |-> FALSE])
  PROVE  Trusted!Next
<1>1. Trusted!AddForcedBatch(item)
  BY Zenon DEF Seen, Trusted!AddForcedBatch, Trusted!Fresh, Trusted!last, Trusted!Batch
<1> QED BY <1>1, Zenon DEF Trusted!Next

LEMMA TrustedCloseBatch ==
  ASSUME Seen(db)[Len(Seen(db))].open,
         Seen(db)' = [Seen(db) EXCEPT ![Len(Seen(db))].open = FALSE]
  PROVE  Trusted!Next
<1>1. Trusted!CloseBatch
  BY Zenon DEF Seen, Trusted!CloseBatch, Trusted!last
<1> QED BY <1>1, Zenon DEF Trusted!Next

\* closing the batch being stored is the abstract step CloseBatch
LEMMA FinalizeSeen ==
  ASSUME BaseInv, FinalizeSIPBatch, sipBatch # NoBatch
  PROVE  Trusted!Next
<1>1. RowsOK(db, sipBatch) /\ sipBatch # NoBatch /\ db' = CloseWIPBatch(db, sipBatch)
  BY Zenon DEF BaseInv, FinalizeSIPBatch
<1>2. /\ Seen(db)[Len(Seen(db))].open
      /\ Seen(db') = [Seen(db) EXCEPT ![Len(Seen(db))].open = FALSE]
  BY <1>1, SeenClose, Zenon
<1> QED BY <1>2, TrustedCloseBatch, Zenon

\* an L2 block with a larger number than every stored one is a new item
LEMMA FreshBlock ==
  ASSUME db \in Seq(RowType), NEW n \in Nat, Below(db, n)
  PROVE  \A i \in 1 .. Len(Seen(db)) : \A j \in 1 .. Len(Seen(db)[i].items) : Seen(db)[i].items[j] # n
<1>1. /\ Len(Seen(db)) = Len(db) /\ DOMAIN db = 1 .. Len(db)
      /\ \A i \in 1 .. Len(db) : Seen(db)[i].items = db[i].blocks
  BY SeenRows
<1> USE <1>1
<1>2. ASSUME NEW i \in 1 .. Len(db), NEW j \in 1 .. Len(db[i].blocks)
      PROVE  db[i].blocks[j] # n
  <2>1. db[i] \in RowType
    OBVIOUS
  <2>2. db[i].blocks \in Seq(Int)
    BY <2>1, Zenon DEF RowType, Root
  <2>3. j \in DOMAIN db[i].blocks /\ db[i].blocks[j] \in Int
    BY <2>2
  <2>4. db[i].blocks[j] < n
    BY <2>3, Zenon DEF Below
  <2> QED BY <2>3, <2>4
<1> QED BY <1>2, Zenon

\* a forced batch that is not in the trusted state is a new item
LEMMA FreshForced ==
  ASSUME db \in Seq(RowType), NEW f \in 1 .. MaxForced, f \notin ForcedIn(db)
  PROVE  \A i \in 1 .. Len(Seen(db)) : \A j \in 1 .. Len(Seen(db)[i].items) : Seen(db)[i].items[j] # -f
<1>1. /\ Len(Seen(db)) = Len(db) /\ DOMAIN db = 1 .. Len(db)
      /\ \A i \in 1 .. Len(db) : Seen(db)[i].items = db[i].blocks
  BY SeenRows
<1> USE <1>1
<1>2. ASSUME NEW i \in 1 .. Len(db), NEW j \in 1 .. Len(db[i].blocks), db[i].blocks[j] = -f
      PROVE  FALSE
  <2>1. db[i].blocks \in Seq(Int)
    <3>1. db[i] \in RowType
      OBVIOUS
    <3> QED BY <3>1, Zenon DEF RowType, Root
  <2>2. -f \in Range(db[i].blocks)
    BY <1>2, <2>1 DEF Range
  <2> QED BY <2>2, Zenon DEF ForcedIn
<1> QED BY <1>2, Zenon

LEMMA StoreL2BlockSeen ==
  ASSUME BaseInv, NumInv, StoreL2Block
  PROVE  Trusted!Next \/ Seen(db)' = Seen(db)
<1> DEFINE block == Head(toStore)
           b == block.batch
           rows == IF sipBatch = NoBatch THEN db ELSE CloseWIPBatch(db, sipBatch)
           new == Row(b, batches[b].initialStateRoot, <<>>, TRUE, FALSE)
<1>1. block \in BlockType /\ block = toStore[1] /\ 1 \in DOMAIN toStore
  <2>1. toStore \in Seq(BlockType) /\ Len(toStore) \in Nat /\ store.pc = "idle" /\ toStore # <<>>
    <3>1. toStore \in Seq(BlockType)
      BY Zenon DEF BaseInv, TypeOK
    <3>2. store.pc = "idle" /\ toStore # <<>>
      BY Zenon DEF StoreL2Block
    <3> QED BY <3>1, <3>2
  <2>2. Len(toStore) <= 1
    BY <2>1 DEF BaseInv, QueueInv
  <2> QED BY <2>1, <2>2, PopOne, Zenon
<1> USE <1>1
<1>2. /\ b \in BatchNum \ {0} /\ b # NoBatch /\ block.num \in Nat /\ Below(db, block.num)
      /\ block.num <= MaxBlock
  BY PipeTypes, Zenon DEF NumInv, StoreNum, NoBatch, Executed, InWork
<1> USE <1>2
<1>3. db \in Seq(RowType) /\ RowsOK(db, sipBatch) /\ batches \in Batches
  BY Zenon DEF BaseInv, TypeOK
<1> USE <1>3
<1>4. block.num \in (-MaxForced) .. MaxBlock
  BY FinalizerAssumption
<1>5. \A i \in 1 .. Len(Seen(db)) : \A j \in 1 .. Len(Seen(db)[i].items) :
         Seen(db)[i].items[j] # block.num
  BY FreshBlock, Zenon
<1>6. /\ block.batch = b
      /\ rows = IF sipBatch = NoBatch THEN db ELSE CloseWIPBatch(db, sipBatch)
      /\ new = Row(b, batches[b].initialStateRoot, <<>>, TRUE, FALSE)
  BY Zenon
<1>7. \/ UNCHANGED dbVars
      \/ sipBatch = b /\ db' = AddL2Block(db, block)
      \/ MayOpen(rows, b) /\ db' = AddL2Block(Append(rows, new), block)
  BY Zenon DEF StoreL2Block
<1> HIDE DEF block, b, rows, new
<1>8. CASE UNCHANGED dbVars
  BY <1>8, Zenon DEF dbVars, Seen
<1>9. CASE sipBatch = b /\ db' = AddL2Block(db, block)
  <2>1. /\ Seen(db)[Len(Seen(db))].open
        /\ Seen(db') = [Seen(db) EXCEPT ![Len(Seen(db))].items = Append(@, block.num)]
    BY <1>6, <1>9, SeenAdd, Zenon
  <2> QED BY <1>4, <1>5, <2>1, TrustedAddBlock, Zenon
<1>10. CASE MayOpen(rows, b) /\ db' = AddL2Block(Append(rows, new), block)
  <2> USE <1>10
  <2>1. batches[b].initialStateRoot \in Root
    BY Zenon DEF Batches, BatchType
  <2>2. RowsOK(Append(rows, new), b)
    BY <1>6, <2>1, OpenRows, Zenon
  <2>3. /\ Len(db) \in Nat /\ Len(db) >= 1 /\ Len(db) \in 1 .. Len(db)
        /\ \A i \in 1 .. Len(db) : db[i].num = i /\ (i # Len(db) => ~db[i].wip)
        /\ sipBatch # NoBatch => sipBatch = Len(db)
    <3>1. Len(db) \in Nat
      OBVIOUS
    <3> QED BY <3>1 DEF RowsOK
  <2> USE <2>3
  <2>4. /\ rows \in Seq(RowType) /\ Len(rows) = Len(db)
        /\ \A i \in 1 .. Len(db) : /\ rows[i].num = db[i].num /\ rows[i].blocks = db[i].blocks
                                   /\ i # Len(db) => ~rows[i].wip
    <3>1. CASE sipBatch = NoBatch
      BY <1>6, <3>1, Zenon
    <3>2. CASE sipBatch # NoBatch
      <4>1. rows = CloseWIPBatch(db, sipBatch)
        BY <1>6, <3>2, ZenonT(30)
      <4>2. /\ rows \in Seq(RowType) /\ Len(rows) = Len(db)
            /\ \A i \in 1 .. Len(db) :
                  /\ rows[i].num = db[i].num /\ rows[i].blocks = db[i].blocks
                  /\ IF db[i].num = sipBatch THEN ~rows[i].wip ELSE rows[i].wip = db[i].wip
        BY <4>1, CloseRows
      <4> QED BY <4>2, Zenon
    <3> QED BY <3>1, <3>2, Zenon
  <2> USE <2>4
  <2>5. rows[Len(db)].num + 1 = b /\ ~rows[Len(db)].wip
    BY Zenon DEF MayOpen
  <2>6. \A i \in 1 .. Len(db) : /\ rows[i].num = db[i].num /\ rows[i].blocks = db[i].blocks
                                /\ ~rows[i].wip
    BY <2>5, Zenon
  <2>7. b = Len(db) + 1 /\ db[Len(db)].num = Len(db)
    BY <2>5, Zenon
  <2>8. new \in RowType /\ new.num = b /\ new.blocks = <<>> /\ new.wip
    <3>1. <<>> \in Root
      BY EmptySeq, ZenonT(30) DEF Root
    <3> QED BY <1>6, <2>1, <3>1, Zenon DEF Row, RowType
  <2> DEFINE f == Append(rows, new)
  <2>9. /\ f \in Seq(RowType) /\ Len(f) = Len(db) + 1 /\ f[Len(f)] = new
        /\ \A i \in 1 .. Len(db) : f[i] = rows[i]
    BY <2>8
  <2>10. RowsOK(f, b) /\ db' = AddL2Block(f, block)
    BY <2>2, Zenon
  <2> HIDE DEF f
  <2>11. /\ db' \in Seq(RowType) /\ Len(db') = Len(f)
         /\ \A i \in 1 .. Len(f) : i # Len(f) => db'[i] = f[i]
         /\ db'[Len(f)].blocks = Append(f[Len(f)].blocks, block.num)
         /\ db'[Len(f)].num = f[Len(f)].num /\ db'[Len(f)].wip = f[Len(f)].wip
    <3>1. block \in BlockType /\ block.batch = b /\ b # NoBatch
      BY <1>6, <2>1, ZenonT(30)
    <3> HIDE <1>10, <2>3, <2>4
    <3> QED BY <2>10, <3>1, LastRowAdded
  <2> USE <2>11
  <2>12. Append(<<>>, block.num) = <<block.num>>
    OBVIOUS
  <2>13. /\ Len(db') = Len(db) + 1 /\ db'[Len(db')].num = Len(db) + 1
         /\ db'[Len(db')].blocks = <<block.num>> /\ db'[Len(db')].wip
    BY <2>7, <2>8, <2>9, <2>12, ZenonT(30)
  <2>14. \A i \in 1 .. Len(db) : db'[i] = rows[i]
    BY <2>9
  <2>15. Seen(db') = OpenedAfter(Seen(db), <<block.num>>)
    <3>1. Len(db) >= 1 /\ db[Len(db)].num = Len(db)
      BY <2>7, Zenon
    <3>2. \A i \in 1 .. Len(db) : /\ db'[i].num = db[i].num /\ db'[i].blocks = db[i].blocks
                                  /\ ~db'[i].wip
      BY <2>6, <2>14, Zenon
    <3>3. Seen(db') = OpenedAfter(Seen(db), db'[Len(db')].blocks)
      BY <2>13, <3>1, <3>2, SeenOpen, ZenonT(30)
    <3> QED BY <2>13, <3>3, Zenon
  <2> QED BY <1>4, <1>5, <2>15, TrustedAddBatch, Zenon
<1> QED BY <1>7, <1>8, <1>9, <1>10, Zenon

LEMMA ProcessForcedBatchSeen ==
  ASSUME BaseInv, ProcessForcedBatch
  PROVE  Trusted!Next \/ Seen(db)' = Seen(db)
<1> DEFINE next == LastTrustedForced(db) + 1
           root == Append(fin.root, -next)
           row == Row(fin.num + 1, root, <<-next>>, FALSE, TRUE)
<1>1. /\ fin.pc = "forced" /\ fin.i <= Len(nextForcedBatches) /\ UNCHANGED sipBatch
  BY Zenon DEF ProcessForcedBatch
<1>2. /\ fin \in FinalizerType /\ fin.i \in Nat /\ fin.i >= 1 /\ fin.num \in Nat
      /\ fin.root \in Root /\ db \in Seq(RowType) /\ sipBatch = NoBatch
  <2>1. fin \in FinalizerType
    BY BaseTypes, Zenon
  <2>2. fin.i >= 1 /\ sipBatch = NoBatch
    BY <1>1, Zenon DEF BaseInv, ControlInv, Quiet
  <2> QED BY <2>1, <2>2, PipeTypes, FinalizerAssumption DEF FinalizerType, BatchNum
<1> USE <1>2
<1>3. LastTrustedForced(db) \in 0 .. MaxForced /\ ForcedIn(db) = 1 .. LastTrustedForced(db)
  BY LastForced, Zenon DEF BaseInv
<1>4. \/ UNCHANGED db
      \/ /\ ~(nextForcedBatches[fin.i] < next)
         /\ MayOpen(db, fin.num + 1)
         /\ db' = Append(db, row)
  BY Zenon DEF ProcessForcedBatch
<1>5. CASE UNCHANGED db
  BY <1>5, Zenon DEF Seen
<1>6. CASE /\ ~(nextForcedBatches[fin.i] < next)
           /\ MayOpen(db, fin.num + 1)
           /\ db' = Append(db, row)
  <2> USE <1>6
  <2>1. nextForcedBatches[fin.i] \in 1 .. MaxForced
    <3>1. nextForcedBatches \in Seq(1 .. MaxForced)
      BY Zenon DEF BaseInv, TypeOK
    <3>2. fin.i \in DOMAIN nextForcedBatches
      BY <1>1, <3>1
    <3> QED BY <3>1, <3>2, FinalizerAssumption
  <2>2. next \in 1 .. MaxForced /\ next \notin ForcedIn(db) /\ next \in Nat
    <3>1. next \in Nat /\ next >= 1 /\ next \notin 1 .. LastTrustedForced(db)
      BY <1>3
    <3>2. next <= MaxForced
      BY <2>1, <3>1, FinalizerAssumption, SMTT(30)
    <3> QED BY <1>3, <3>1, <3>2, FinalizerAssumption, SMTT(30)
  <2> USE <2>2
  <2>3. -next \in (-MaxForced) .. MaxBlock
    BY FinalizerAssumption
  <2>4. \A i \in 1 .. Len(Seen(db)) : \A j \in 1 .. Len(Seen(db)[i].items) :
           Seen(db)[i].items[j] # -next
    <3> HIDE DEF next
    <3> QED BY FreshForced, Zenon
  <2>5. Len(db) >= 1 /\ ~db[Len(db)].wip /\ db[Len(db)].num + 1 = fin.num + 1
    BY Zenon DEF MayOpen, BaseInv, RowsOK
  <2> USE <2>5
  <2>6. root \in Root /\ <<-next>> \in Root
    <3> HIDE DEF next
    <3> QED BY DEF Root
  <2>7. fin.num + 1 \in BatchNum
    <3>1. RowsOK(db, NoBatch)
      BY Zenon DEF BaseInv
    <3>2. Len(db) \in Nat /\ Len(db) \in 1 .. Len(db)
      OBVIOUS
    <3>3. Len(db) < Top /\ db[Len(db)].num = Len(db)
      BY <3>1, <3>2, Zenon DEF RowsOK
    <3> QED BY <3>2, <3>3, FinalizerAssumption DEF BatchNum, Top
  <2>8. row \in RowType /\ row.num = fin.num + 1 /\ row.blocks = <<-next>> /\ ~row.wip
    <3> HIDE DEF next, root
    <3> QED BY <2>6, <2>7, Zenon DEF Row, RowType
  <2> DEFINE item == -next
  <2> HIDE DEF item, row
  <2>9. /\ ~Seen(db)[Len(Seen(db))].open
        /\ Seen(db') = Append(Seen(db), [num |-> Seen(db)[Len(Seen(db))].num + 1,
                                         items |-> <<item>>, open |-> FALSE])
    <3>1. row.num = db[Len(db)].num + 1 /\ row.blocks = <<item>> /\ db' = Append(db, row)
      BY <2>8, Zenon DEF item
    <3> QED BY <2>8, <3>1, SeenForced, Zenon
  <2>10. /\ item \in (-MaxForced) .. MaxBlock
         /\ \A i \in 1 .. Len(Seen(db)) : \A j \in 1 .. Len(Seen(db)[i].items) :
               Seen(db)[i].items[j] # item
    BY <2>3, <2>4, Zenon DEF item
  <2> QED BY <2>9, <2>10, TrustedAddForced, Zenon
<1> QED BY <1>4, <1>5, <1>6, Zenon

\* every step of the node is a step of the trusted state, or leaves it as it is
LEMMA NextSeen ==
  ASSUME BaseInv, NumInv, [Next]_vars
  PROVE  Trusted!Next \/ Seen(db)' = Seen(db)
<1> USE DEF dbVars
<1>1. UNCHANGED db => Seen(db)' = Seen(db)
  BY Zenon DEF Seen
<1> USE <1>1
<1>2. CASE UNCHANGED vars
  BY <1>2, Zenon DEF vars
<1>3. CASE FinalizerNext
  <2>1. ASSUME FinalizeSIPBatch, SIPBatchClosable PROVE Trusted!Next
    BY <2>1, FinalizeSeen, Zenon DEF SIPBatchClosable
  <2>2. CASE HaltOnBatch
    BY <2>1, <2>2, Zenon DEF HaltOnBatch
  <2>3. CASE ProcessL2BlockReorg
    BY <2>1, <2>3, Zenon DEF ProcessL2BlockReorg
  <2>4. CASE StartForcedBatches
    BY <2>1, <2>4, Zenon DEF StartForcedBatches
  <2>5. CASE ProcessForcedBatch
    BY <2>5, ProcessForcedBatchSeen, Zenon
  <2>6. CASE CheckReorg \/ CheckBlockTime \/ SelectTx \/ CheckFinalizeBatch
    BY <2>6, Zenon DEF CheckReorg, CheckBlockTime, SelectTx, CheckFinalizeBatch
  <2>7. CASE PushL2Block \/ SyncStateRoot \/ OpenNewWIPL2Block \/ CloseAndOpenNewWIPBatch
    BY <2>7, Zenon DEF PushL2Block, SyncStateRoot, OpenNewWIPL2Block, CloseAndOpenNewWIPBatch
  <2>8. CASE KeepHalting \/ ReorgDone \/ CloseForForcedBatches \/ ForcedBatchesDone
    BY <2>8, Zenon DEF KeepHalting, vars, ReorgDone, CloseForForcedBatches, ForcedBatchesDone
  <2>9. CASE Start
    BY <2>9, Zenon DEF Start, InitWIPBatch
  <2> QED BY <1>3, <2>2, <2>3, <2>4, <2>5, <2>6, <2>7, <2>8, <2>9, ZenonT(30) DEF FinalizerNext
<1>4. CASE ProcessorNext
  BY <1>4, Zenon DEF ProcessorNext, DiscardL2Block, ProcessL2Block, PushToStore, ProcessFailed
<1>5. CASE StorerNext
  <2>1. CASE StoreL2Block
    BY <2>1, StoreL2BlockSeen, Zenon
  <2>2. CASE L2BlockStored
    BY <2>2, Zenon DEF L2BlockStored
  <2> QED BY <1>5, <2>1, <2>2, Zenon DEF StorerNext
<1>6. CASE BatchSanityCheck
  BY <1>6, SanityCheckRows, SeenSame, PipeTypes, Zenon
<1>7. CASE CheckForcedBatches
  BY <1>7, Zenon DEF CheckForcedBatches
<1>8. CASE Restart
  BY <1>8, RestartRows, SeenSame, PipeTypes, Zenon
<1> QED BY <1>2, <1>3, <1>4, <1>5, <1>6, <1>7, <1>8, Zenon DEF Next

LEMMA InitialSeen ==
  ASSUME Init
  PROVE  Trusted!Init
<1>1. db = <<Genesis>>
  BY Zenon DEF Init
<1>2. Len(db) = 1 /\ DOMAIN db = 1 .. 1 /\ db[1] = Genesis
  BY <1>1
<1> USE <1>2
<1>3. Genesis.num = 1 /\ Genesis.blocks = <<>> /\ Genesis.wip = FALSE
  BY Zenon DEF Genesis, Row
<1> DEFINE x == [num |-> 1, items |-> <<>>, open |-> FALSE]
<1>4. [num |-> db[1].num, items |-> db[1].blocks, open |-> db[1].wip] = x
  BY <1>3, Zenon
<1>5. Seen(db) = [i \in 1 .. 1 |-> x]
  <2>1. \A i \in DOMAIN db : [num |-> db[i].num, items |-> db[i].blocks, open |-> db[i].wip] = x
    BY <1>4
  <2> HIDE DEF x
  <2> QED BY <2>1, Zenon DEF Seen
<1>6. [i \in 1 .. 1 |-> x] = <<x>>
  <2> HIDE DEF x
  <2> QED OBVIOUS
<1>7. Seen(db) = <<x>>
  BY <1>5, <1>6, Zenon
<1> QED BY <1>7, Zenon DEF Seen, Trusted!Init, Trusted!Batch

-----------------------------------------------------------------------------
(* Theorems *)

\* The L2 blocks that the pipeline holds are numbered upwards from the database
\* through the storer and the processor to the wip L2 block, none above MaxBlock
\* is closed, and after a restart the counter is read back from the stored root
\* (openNewWIPL2Block, closeWIPL2Block, processL2Block, storeL2Block), for any
\* constants.
THEOREM BlockNumbersGrow == Spec => [](BaseInv /\ NumInv)
<1>1. LastNumbers
  BY LastNumber, Zenon DEF LastNumbers
<1>2. Init => NumInv
  BY InitialNum, Zenon
<1>3. BaseInv /\ NumInv /\ [Next]_vars => NumInv'
  BY <1>1, NextNum, StutterNum, Zenon
<1> QED BY <1>2, <1>3, PipelineInvariant, PTL DEF Spec

\* The pipeline implements TrustedState: the trusted state is a chain of
\* consecutively numbered batches, of which only the last may be open, and the
\* only changes to it are that an L2 block is appended to the open batch, that
\* the next batch begins with an L2 block, that a forced batch is added after a
\* closed one and that the open batch is closed; none holds an L2 block or a
\* forced batch twice, across L2 block reorgs, halts, failed commits, crashes and
\* restarts (storeL2Block, closeSIPBatch, processForcedBatch), for any constants.
THEOREM PipelineImplementsTrustedState == Spec => ImplementsTrustedState
<1>1. Init => Trusted!Init
  BY InitialSeen, Zenon
<1>2. BaseInv /\ NumInv /\ [Next]_vars => [Trusted!Next]_(Seen(db))
  BY NextSeen, Zenon
<1> QED BY <1>1, <1>2, BlockNumbersGrow, PTL
        DEF Spec, ImplementsTrustedState, Trusted!Spec, Seen
=============================================================================
