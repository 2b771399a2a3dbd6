-------------------------- MODULE FinalizerProofs --------------------------
(***************************************************************************)
(* The control of the L2 block pipeline: every step keeps BaseInv, for any *)
(* constants, which gives the types, the order of the forced batches and   *)
(* the clean stop.  A leaf that needs no arithmetic cites Zenon, which is  *)
(* the faster prover for such a leaf.                                      *)
(***************************************************************************)
EXTENDS Finalizer, WellFoundedInduction, TLAPS

-----------------------------------------------------------------------------
(* The control of the pipeline *)

\* e has the batches of d, maybe with others of them marked as checked
SameRows(e, d) ==
    /\ e \in Seq(RowType) /\ Len(e) = Len(d)
    /\ \A i \in 1 .. Len(d) : /\ e[i].num = d[i].num /\ e[i].stateRoot = d[i].stateRoot
                              /\ e[i].blocks = d[i].blocks /\ e[i].wip = d[i].wip

\* the largest batch number there is room for
Top == MaxBatch + MaxForced + 2

\* Rows are numbered from 1, only the last one may be open, and the storer
\* (sipBatch) works on it.
RowsOK(d, sip) ==
    /\ d \in Seq(RowType) /\ Len(d) >= 1
    /\ \A i \in 1 .. Len(d) : d[i].num = i
    /\ \A i \in 1 .. Len(d) : i < Len(d) \/ i = 1 => ~d[i].wip
    /\ ~d[Len(d)].wip => Len(d) < Top
    /\ sip # NoBatch => sip = Len(d) /\ d[Len(d)].wip

\* the forced batches in the trusted state, and the rows that are forced batches
ForcedIn(d) == {k \in 1 .. MaxForced : \E i \in DOMAIN d : -k \in Range(d[i].blocks)}
IsForced(row) == \E f \in 1 .. MaxForced : row.blocks = <<-f>>

\* The forced batches are those up to some number, in order; every other row
\* has L2 blocks only.
ForcedOK(d) ==
    /\ \E m \in 0 .. MaxForced : ForcedIn(d) = 1 .. m
    /\ \A i \in DOMAIN d :
          \/ IsForced(d[i]) /\ ~d[i].wip
          \/ \A j \in DOMAIN d[i].blocks : d[i].blocks[j] > 0
    /\ \A i, j \in DOMAIN d :
          i < j /\ IsForced(d[i]) /\ IsForced(d[j]) => d[i].blocks[1] > d[j].blocks[1]

\* The wait groups count what is in the channels and in work, one at most:
\* closeWIPL2Block and processL2Block wait for the previous L2 block.
QueueInv ==
    /\ processWG = Len(toProcess) + (IF proc.pc = "idle" THEN 0 ELSE 1) /\ processWG <= 1
    /\ storeWG = Len(toStore) + (IF store.pc = "idle" THEN 0 ELSE 1) /\ storeWG <= 1
    /\ proc.pc = "toStore" => proc.block \in BlockType /\ proc.block.batch # NoBatch
    /\ \A i \in DOMAIN toStore : toStore[i].batch # NoBatch

\* Nothing is ahead of the wip batch.
OrderInv ==
    /\ sipBatch <= wipBatch
    /\ \A i \in DOMAIN toProcess : toProcess[i].batch <= wipBatch
    /\ \A i \in DOMAIN toStore : toStore[i].batch <= wipBatch
    /\ proc.pc = "toStore" => proc.block.batch <= wipBatch
    /\ wipL2Block # NoBlock => wipL2Block.batch <= wipBatch

\* where the finalizer has nothing pending and no sip batch, where it has a wip
\* L2 block, and where it is going to close the wip batch
Quiet == {"start", "forced", "forcedFailed", "keepHalting"}
Filling == {"top", "timer", "select", "check", "reorg", "reorgDone", "push", "sync"}
Closing(f) ==
    \/ f.pc \in {"newBatch", "haltOnBatch", "closeSip"}
    \/ f.pc \in {"push", "sync"} /\ f.cont \in {"newBatch", "closeSip"}

ControlInv ==
    /\ fin.pc \in Quiet => NoPendingL2Blocks /\ sipBatch = NoBatch
    /\ fin.pc \notin {"start", "halted"} => wipBatch >= 1
    /\ fin.pc \in Filling => wipL2Block # NoBlock
    /\ Closing(fin) => wipBatch < MaxBatch
    /\ fin.pc = "haltOnBatch" => wipBatch + 1 = HaltOnBatchNumber
    /\ fin.pc \in {"forced", "forcedFailed"} =>
          fin.i >= 1 /\ wipBatch <= fin.num /\ fin.num < MaxBatch + LastTrustedForced(db)
    /\ fin.pc = "keepHalting" => ~db[Len(db)].wip /\ Len(db) < HaltOnBatchNumber

BaseInv ==
    TypeOK /\ RowsOK(db, sipBatch) /\ ForcedOK(db) /\ QueueInv /\ OrderInv /\ ControlInv

\* a sequence of numbers has a largest one, if it has any
LastNumbers ==
    \A s \in Seq(Int) :
        \E n \in {0} \cup Range(s) : n \in Nat /\ \A m \in {0} \cup Range(s) : m <= n

-----------------------------------------------------------------------------
(* Numbers: least elements, and the last L2 block number in a state root *)

LEMMA LeastNat ==
  ASSUME NEW T \in SUBSET Nat, T # {}
  PROVE  \E x \in T : \A y \in T : x <= y
<1> DEFINE Less == {p \in Nat \X Nat : p[1] < p[2]}
<1>1. IsWellFoundedOn(Less, Nat)
  BY NatLessThanWellFounded, Zenon DEF OpToRel
<1>2. PICK x \in T : \A y \in T : ~(<<y, x>> \in Less)
  <2> HIDE DEF Less
  <2> QED BY <1>1, WFMin, Zenon
<1>3. \A y \in T : ~(y < x)
  BY <1>2, Zenon
<1> QED BY <1>3

LEMMA SeqBounded ==
  ASSUME NEW s \in Seq(Int)
  PROVE  \E n \in Nat : \A k \in DOMAIN s : s[k] <= n
<1> DEFINE Bounded(n) == \E b \in Nat : \A k \in 1 .. n : s[k] <= b
           T == {n \in 0 .. Len(s) : ~Bounded(n)}
<1>0. Len(s) \in Nat /\ DOMAIN s = 1 .. Len(s) /\ \A k \in 1 .. Len(s) : s[k] \in Int
  OBVIOUS
<1> USE <1>0
<1>1. Bounded(0)
  <2>1. \A k \in 1 .. 0 : s[k] <= 0
    OBVIOUS
  <2> QED BY <2>1, Zenon
<1>2. ASSUME NEW n \in 1 .. Len(s), Bounded(n - 1)
      PROVE  Bounded(n)
  <2>1. PICK b \in Nat : \A k \in 1 .. (n - 1) : s[k] <= b
    BY <1>2, Zenon
  <2>2. PICK c \in Nat : s[n] <= c /\ b <= c
    <3>1. s[n] \in Int
      BY Zenon
    <3>2. CASE s[n] <= b
      BY <3>2
    <3>3. CASE s[n] > b
      <4>1. s[n] \in Nat /\ s[n] <= s[n] /\ b <= s[n]
        BY <3>1, <3>3
      <4> QED BY <4>1, Zenon
    <3> QED BY <3>1, <3>2, <3>3
  <2>3. \A k \in 1 .. n : s[k] <= c
    <3>1. SUFFICES ASSUME NEW k \in 1 .. n PROVE s[k] <= c
      BY Zenon
    <3>2. CASE k = n
      BY <2>2, <3>2, Zenon
    <3>3. CASE k # n
      <4>1. k \in 1 .. (n - 1) /\ s[k] \in Int
        BY <3>3
      <4> QED BY <4>1, <2>1, <2>2
    <3> QED BY <3>2, <3>3, Zenon
  <2> QED BY <2>3, Zenon
<1>3. T = {}
  <2>1. SUFFICES ASSUME T # {} PROVE FALSE
    BY Zenon
  <2>2. T \in SUBSET Nat
    OBVIOUS
  <2> HIDE DEF T
  <2>3. PICK x \in T : \A y \in T : x <= y
    BY <2>1, <2>2, LeastNat, Zenon
  <2> USE <2>3
  <2> USE DEF T
  <2> HIDE DEF Bounded
  <2>4. x \in 0 .. Len(s) /\ x # 0
    BY <1>1, Zenon
  <2>5. x \in 1 .. Len(s) /\ x - 1 \in 0 .. Len(s) /\ ~(x <= x - 1)
    BY <2>4
  <2>6. Bounded(x - 1)
    BY <2>5, Zenon
  <2> QED BY <2>6, <2>5, <1>2, Zenon
<1>4. Bounded(Len(s))
  <2> HIDE DEF Bounded
  <2>1. Len(s) \in 0 .. Len(s)
    OBVIOUS
  <2> QED BY <2>1, <1>3, Zenon
<1> QED BY <1>4, Zenon

\* the largest number of a state root, or 0
LEMMA LastNumber ==
  ASSUME NEW s \in Seq(Int)
  PROVE  \E n \in {0} \cup Range(s) : n \in Nat /\ \A m \in {0} \cup Range(s) : m <= n
<1> DEFINE N == {0} \cup Range(s)
           T == {n \in Nat : \A m \in N : m <= n}
<1>1. N \subseteq Int /\ 0 \in N
  BY DEF Range
<1>2. T # {}
  <2>1. PICK b \in Nat : \A k \in DOMAIN s : s[k] <= b
    BY SeqBounded, Zenon
  <2>2. \A m \in N : m <= b
    BY <2>1 DEF Range
  <2> QED BY <2>2, Zenon
<1> HIDE DEF N
<1>3. T \in SUBSET Nat
  BY Zenon
<1>4. PICK x \in T : \A y \in T : x <= y
  <2> HIDE DEF T
  <2> QED BY <1>2, <1>3, LeastNat, Zenon
<1>5. x \in N
  <2>1. SUFFICES ASSUME x \notin N PROVE FALSE
    BY Zenon
  <2>2. x # 0 /\ x \in Nat
    BY <2>1, <1>1, Zenon
  <2>3. \A m \in N : m <= x - 1
    BY <2>1, <1>1
  <2>4. x - 1 \in T
    BY <2>2, <2>3
  <2> QED BY <2>4, <1>4, <2>2
<1> QED BY <1>5, Zenon DEF N

-----------------------------------------------------------------------------
(* Sequences *)

LEMMA EmptySeq ==
  ASSUME NEW S
  PROVE  /\ <<>> \in Seq(S) /\ Len(<<>>) = 0
         /\ \A s \in Seq(S) : s = <<>> <=> Len(s) = 0
OBVIOUS

LEMMA JoinSeq ==
  ASSUME NEW S, NEW s \in Seq(S), NEW t \in Seq(S)
  PROVE  /\ s \o t \in Seq(S) /\ Len(s \o t) = Len(s) + Len(t)
         /\ \A i \in 1 .. Len(s) : (s \o t)[i] = s[i]
         /\ \A i \in 1 .. Len(t) : (s \o t)[Len(s) + i] = t[i]
OBVIOUS

-----------------------------------------------------------------------------
(* The rows of the state database *)

LEMMA RowMap ==
  ASSUME NEW d \in Seq(RowType), NEW e, DOMAIN e = DOMAIN d,
         e = [i \in DOMAIN d |-> e[i]], \A i \in 1 .. Len(d) : e[i] \in RowType
  PROVE  e \in Seq(RowType) /\ Len(e) = Len(d)
<1>1. Len(d) \in Nat /\ DOMAIN d = 1 .. Len(d)
  OBVIOUS
<1>2. e = [i \in 1 .. Len(d) |-> e[i]]
  BY <1>1, Zenon
<1>3. e \in [1 .. Len(d) -> RowType]
  BY <1>2, Zenon
<1> QED BY <1>1, <1>3

LEMMA CloseRow ==
  ASSUME NEW r \in RowType, NEW q, q = [r EXCEPT !.wip = FALSE]
  PROVE  /\ q.num = r.num /\ q.stateRoot = r.stateRoot
         /\ q.blocks = r.blocks /\ q.checked = r.checked /\ ~q.wip
         /\ q \in RowType
BY Zenon DEF RowType

LEMMA CloseRows ==
  ASSUME NEW d \in Seq(RowType), NEW n
  PROVE  LET e == CloseWIPBatch(d, n)
         IN  /\ e \in Seq(RowType) /\ Len(e) = Len(d)
             /\ \A i \in 1 .. Len(d) :
                   /\ e[i].num = d[i].num /\ e[i].stateRoot = d[i].stateRoot
                   /\ e[i].blocks = d[i].blocks /\ e[i].checked = d[i].checked
                   /\ IF d[i].num = n THEN ~e[i].wip ELSE e[i].wip = d[i].wip
<1> DEFINE e == CloseWIPBatch(d, n)
<1>1. DOMAIN e = DOMAIN d /\ e = [i \in DOMAIN d |-> e[i]] /\ DOMAIN d = 1 .. Len(d)
  BY DEF CloseWIPBatch
<1>2. ASSUME NEW i \in 1 .. Len(d)
      PROVE  /\ e[i].num = d[i].num /\ e[i].stateRoot = d[i].stateRoot
             /\ e[i].blocks = d[i].blocks /\ e[i].checked = d[i].checked
             /\ IF d[i].num = n THEN ~e[i].wip ELSE e[i].wip = d[i].wip
             /\ e[i] \in RowType
  <2>1. d[i] \in RowType
    OBVIOUS
  <2>2. e[i] = IF d[i].num = n THEN [d[i] EXCEPT !.wip = FALSE] ELSE d[i]
    BY <1>1, Zenon DEF CloseWIPBatch
  <2>3. CASE d[i].num = n
    <3>1. e[i] = [d[i] EXCEPT !.wip = FALSE]
      BY <2>2, <2>3, Zenon
    <3> QED BY <2>1, <2>3, <3>1, CloseRow, Zenon
  <2>4. CASE d[i].num # n
    <3>1. e[i] = d[i]
      BY <2>2, <2>4, Zenon
    <3> QED BY <2>1, <2>4, <3>1, Zenon
  <2> QED BY <2>3, <2>4, Zenon
<1> HIDE DEF e
<1>3. e \in Seq(RowType) /\ Len(e) = Len(d)
  BY <1>1, <1>2, RowMap, Zenon
<1> QED BY <1>2, <1>3, Zenon DEF e

LEMMA AddRows ==
  ASSUME NEW d \in Seq(RowType), NEW block \in BlockType
  PROVE  LET e == AddL2Block(d, block)
         IN  /\ e \in Seq(RowType) /\ Len(e) = Len(d)
             /\ \A i \in 1 .. Len(d) : d[i].num # block.batch => e[i] = d[i]
             /\ \A i \in 1 .. Len(d) : d[i].num = block.batch =>
                   /\ e[i].num = d[i].num /\ e[i].stateRoot = block.stateRoot
                   /\ e[i].blocks = Append(d[i].blocks, block.num)
                   /\ e[i].wip = d[i].wip
<1> DEFINE e == AddL2Block(d, block)
<1>1. DOMAIN e = DOMAIN d /\ e = [i \in DOMAIN d |-> e[i]] /\ DOMAIN d = 1 .. Len(d)
  BY DEF AddL2Block
<1>2. ASSUME NEW i \in 1 .. Len(d)
      PROVE  /\ d[i].num # block.batch => e[i] = d[i]
             /\ d[i].num = block.batch =>
                   /\ e[i].num = d[i].num /\ e[i].stateRoot = block.stateRoot
                   /\ e[i].blocks = Append(d[i].blocks, block.num)
                   /\ e[i].wip = d[i].wip
             /\ e[i] \in RowType
  <2>1. d[i] \in RowType
    OBVIOUS
  <2>2. e[i] = IF d[i].num = block.batch
               THEN [d[i] EXCEPT !.blocks = Append(@, block.num), !.stateRoot = block.stateRoot]
               ELSE d[i]
    BY <1>1, Zenon DEF AddL2Block
  <2>3. block.num \in Int /\ block.stateRoot \in Root
    BY DEF BlockType
  <2>4. Append(d[i].blocks, block.num) \in Root
    BY <2>1, <2>3 DEF RowType, Root
  <2> QED BY <2>1, <2>2, <2>3, <2>4, Zenon DEF RowType
<1> HIDE DEF e
<1>3. e \in Seq(RowType) /\ Len(e) = Len(d)
  BY <1>1, <1>2, RowMap, Zenon
<1> QED BY <1>2, <1>3, Zenon DEF e

LEMMA CheckRow ==
  ASSUME NEW r \in RowType, NEW q, q = [r EXCEPT !.checked = TRUE]
  PROVE  /\ q.num = r.num /\ q.stateRoot = r.stateRoot
         /\ q.blocks = r.blocks /\ q.wip = r.wip
         /\ q \in RowType
BY Zenon DEF RowType

LEMMA CheckRows ==
  ASSUME NEW d \in Seq(RowType), NEW M, NEW e,
         e = [i \in DOMAIN d |-> IF d[i].num \in M THEN [d[i] EXCEPT !.checked = TRUE] ELSE d[i]]
  PROVE  SameRows(e, d)
<1>1. DOMAIN e = DOMAIN d /\ e = [i \in DOMAIN d |-> e[i]] /\ DOMAIN d = 1 .. Len(d)
  OBVIOUS
<1>2. ASSUME NEW i \in 1 .. Len(d)
      PROVE  /\ e[i].num = d[i].num /\ e[i].stateRoot = d[i].stateRoot
             /\ e[i].blocks = d[i].blocks /\ e[i].wip = d[i].wip
             /\ e[i] \in RowType
  <2>1. d[i] \in RowType
    OBVIOUS
  <2>2. e[i] = IF d[i].num \in M THEN [d[i] EXCEPT !.checked = TRUE] ELSE d[i]
    BY <1>1, Zenon
  <2>3. CASE d[i].num \in M
    <3>1. e[i] = [d[i] EXCEPT !.checked = TRUE]
      BY <2>2, <2>3, Zenon
    <3> QED BY <2>1, <3>1, CheckRow, Zenon
  <2>4. CASE d[i].num \notin M
    <3>1. e[i] = d[i]
      BY <2>2, <2>4, Zenon
    <3> QED BY <2>1, <3>1, Zenon
  <2> QED BY <2>3, <2>4, Zenon
<1>3. e \in Seq(RowType) /\ Len(e) = Len(d)
  BY <1>1, <1>2, RowMap, Zenon
<1> QED BY <1>2, <1>3, Zenon DEF SameRows

LEMMA LastForced ==
  ASSUME NEW d, ForcedOK(d)
  PROVE  LastTrustedForced(d) \in 0 .. MaxForced /\ ForcedIn(d) = 1 .. LastTrustedForced(d)
<1> USE FinalizerAssumption
<1>1. PICK m \in 0 .. MaxForced : ForcedIn(d) = 1 .. m
  BY Zenon DEF ForcedOK
<1>2. LastTrustedForced(d) =
        IF ForcedIn(d) = {} THEN 0 ELSE CHOOSE k \in ForcedIn(d) : \A j \in ForcedIn(d) : j <= k
  BY Zenon DEF LastTrustedForced, ForcedIn
<1>3. LastTrustedForced(d) = IF m = 0 THEN 0 ELSE CHOOSE k \in 1 .. m : \A j \in 1 .. m : j <= k
  BY <1>1, <1>2
<1>4. m # 0 => (CHOOSE k \in 1 .. m : \A j \in 1 .. m : j <= k) = m
  OBVIOUS
<1> QED BY <1>1, <1>3, <1>4, Zenon

LEMMA SameForced ==
  ASSUME NEW d, NEW e, ForcedIn(e) = ForcedIn(d)
  PROVE  LastTrustedForced(e) = LastTrustedForced(d)
<1> DEFINE LastOf(F) == IF F = {} THEN 0 ELSE CHOOSE k \in F : \A j \in F : j <= k
<1>1. \A x : LastTrustedForced(x) = LastOf(ForcedIn(x))
  BY Zenon DEF LastTrustedForced, ForcedIn
<1> HIDE DEF LastOf
<1> QED BY <1>1, Zenon

\* rows that keep their data
LEMMA ForcedKept ==
  ASSUME NEW d \in Seq(RowType), NEW e \in Seq(RowType), ForcedOK(d), Len(e) = Len(d),
         \A i \in 1 .. Len(d) : e[i].blocks = d[i].blocks /\ (e[i].wip => d[i].wip)
  PROVE  ForcedOK(e) /\ LastTrustedForced(e) = LastTrustedForced(d)
<1>1. DOMAIN d = 1 .. Len(d) /\ DOMAIN e = 1 .. Len(d)
  OBVIOUS
<1> USE <1>1
<1>2. ForcedIn(e) = ForcedIn(d)
  BY Zenon DEF ForcedIn
<1>3. \A i \in 1 .. Len(d) : IsForced(e[i]) = IsForced(d[i])
  BY Zenon DEF IsForced
<1>4. ForcedOK(e)
  <2>1. \E m \in 0 .. MaxForced : ForcedIn(e) = 1 .. m
    BY <1>2, Zenon DEF ForcedOK
  <2>2. \A i \in DOMAIN e : \/ IsForced(e[i]) /\ ~e[i].wip
                            \/ \A j \in DOMAIN e[i].blocks : e[i].blocks[j] > 0
    BY <1>3, Zenon DEF ForcedOK
  <2>3. \A i, j \in DOMAIN e :
          i < j /\ IsForced(e[i]) /\ IsForced(e[j]) => e[i].blocks[1] > e[j].blocks[1]
    BY <1>3, Zenon DEF ForcedOK
  <2> QED BY <2>1, <2>2, <2>3, Zenon DEF ForcedOK
<1> QED BY <1>2, <1>4, SameForced, Zenon

LEMMA DbSame ==
  ASSUME NEW d, NEW e, NEW sip, RowsOK(d, sip), ForcedOK(d), SameRows(e, d)
  PROVE  RowsOK(e, sip) /\ ForcedOK(e) /\ LastTrustedForced(e) = LastTrustedForced(d)
<1>1. RowsOK(e, sip)
  BY DEF RowsOK, SameRows
<1> QED BY <1>1, ForcedKept, Zenon DEF RowsOK, SameRows

LEMMA DbClose ==
  ASSUME NEW d, NEW sip, RowsOK(d, sip), ForcedOK(d), sip # NoBatch, Len(d) < Top
  PROVE  LET e == CloseWIPBatch(d, sip)
         IN  /\ RowsOK(e, NoBatch) /\ ForcedOK(e) /\ LastTrustedForced(e) = LastTrustedForced(d)
             /\ Len(e) = Len(d) /\ ~e[Len(e)].wip
<1> DEFINE e == CloseWIPBatch(d, sip)
<1>1. d \in Seq(RowType) /\ sip = Len(d) /\ Len(d) \in Nat /\ Len(d) >= 1
  BY DEF RowsOK
<1> USE <1>1
<1>2. /\ e \in Seq(RowType) /\ Len(e) = Len(d)
      /\ \A i \in 1 .. Len(d) :
            /\ e[i].num = d[i].num /\ e[i].blocks = d[i].blocks
            /\ IF d[i].num = sip THEN ~e[i].wip ELSE e[i].wip = d[i].wip
  BY CloseRows
<1> HIDE DEF e
<1>3. ASSUME NEW i \in 1 .. Len(d) PROVE ~e[i].wip
  <2>1. d[i].num = i /\ (i < Len(d) => ~d[i].wip)
    BY Zenon DEF RowsOK
  <2>2. CASE i = sip
    BY <2>1, <2>2, <1>2, Zenon
  <2>3. CASE i # sip
    BY <2>1, <2>3, <1>2
  <2> QED BY <2>2, <2>3, Zenon
<1>4. RowsOK(e, NoBatch)
  BY <1>2, <1>3, Zenon DEF RowsOK
<1>5. \A i \in 1 .. Len(d) : e[i].blocks = d[i].blocks /\ (e[i].wip => d[i].wip)
  BY <1>2, <1>3, Zenon
<1>6. ForcedOK(e) /\ LastTrustedForced(e) = LastTrustedForced(d)
  BY <1>2, <1>5, ForcedKept, Zenon
<1>7. ~e[Len(e)].wip
  BY <1>2, <1>3
<1> QED BY <1>2, <1>4, <1>6, <1>7, Zenon DEF e

\* an L2 block joins the row of the sip batch
LEMMA DbAdd ==
  ASSUME NEW d, NEW sip, RowsOK(d, sip), ForcedOK(d), sip # NoBatch,
         NEW block \in BlockType, block.batch = sip
  PROVE  LET e == AddL2Block(d, block)
         IN  /\ RowsOK(e, sip) /\ ForcedOK(e) /\ LastTrustedForced(e) = LastTrustedForced(d)
             /\ Len(e) = Len(d)
<1> DEFINE e == AddL2Block(d, block)
<1>1. d \in Seq(RowType) /\ sip = Len(d) /\ Len(d) \in Nat /\ Len(d) >= 1
      /\ d[sip].wip /\ \A i \in 1 .. Len(d) : d[i].num = i
  BY DEF RowsOK
<1>2. /\ e \in Seq(RowType) /\ Len(e) = Len(d)
      /\ \A i \in 1 .. Len(d) : i # sip => e[i] = d[i]
      /\ e[sip].num = sip /\ e[sip].blocks = Append(d[sip].blocks, block.num)
      /\ e[sip].wip = d[sip].wip
  <2>1. /\ e \in Seq(RowType) /\ Len(e) = Len(d)
        /\ \A i \in 1 .. Len(d) : d[i].num # block.batch => e[i] = d[i]
        /\ \A i \in 1 .. Len(d) : d[i].num = block.batch =>
              /\ e[i].num = d[i].num /\ e[i].stateRoot = block.stateRoot
              /\ e[i].blocks = Append(d[i].blocks, block.num)
              /\ e[i].wip = d[i].wip
    BY <1>1, AddRows, Zenon
  <2> HIDE DEF e
  <2>2. sip \in 1 .. Len(d) /\ d[sip].num = sip
    BY <1>1
  <2> QED BY <1>1, <2>1, <2>2, Zenon
<1> HIDE DEF e
<1>3. RowsOK(e, sip)
  BY <1>1, <1>2, Zenon DEF RowsOK
<1>4. DOMAIN d = 1 .. Len(d) /\ DOMAIN e = 1 .. Len(d) /\ sip \in 1 .. Len(d)
  BY <1>1, <1>2
<1>5. \A j \in DOMAIN d[sip].blocks : d[sip].blocks[j] > 0
  BY <1>1, <1>4, Zenon DEF ForcedOK
<1>6. \A j \in DOMAIN e[sip].blocks : e[sip].blocks[j] > 0
  <2>0. d[sip] \in RowType
    BY <1>1, <1>4
  <2>1. d[sip].blocks \in Seq(Int)
    BY <2>0, Zenon DEF RowType, Root
  <2>2. block.num \in Nat \ {0}
    BY Zenon DEF BlockType
  <2> HIDE DEF Root
  <2> QED BY <1>2, <1>5, <2>1, <2>2, SMTT(30)
<1>7. ~IsForced(e[sip]) /\ ~IsForced(d[sip])
  <2>1. ASSUME NEW row, \A j \in DOMAIN row.blocks : row.blocks[j] > 0
        PROVE  ~IsForced(row)
    <3>1. SUFFICES ASSUME NEW f \in 1 .. MaxForced, row.blocks = <<-f>> PROVE FALSE
      BY Zenon DEF IsForced
    <3>2. 1 \in DOMAIN row.blocks /\ row.blocks[1] = -f
      BY <3>1
    <3> QED BY <2>1, <3>2, FinalizerAssumption
  <2> QED BY <2>1, <1>5, <1>6, Zenon
<1>8. ForcedIn(e) = ForcedIn(d)
  <2>1. ASSUME NEW k \in 1 .. MaxForced, NEW i \in 1 .. Len(d)
        PROVE  (-k \in Range(e[i].blocks)) = (-k \in Range(d[i].blocks))
    <3>1. CASE i # sip
      BY <3>1, <1>2, Zenon
    <3>2. CASE i = sip
      <4>1. -k \notin Range(e[sip].blocks)
        BY <1>6, FinalizerAssumption DEF Range
      <4>2. -k \notin Range(d[sip].blocks)
        BY <1>5, FinalizerAssumption DEF Range
      <4> QED BY <4>1, <4>2, <3>2
    <3> QED BY <3>1, <3>2, Zenon
  <2> QED BY <2>1, <1>4, Zenon DEF ForcedIn
<1>9. ForcedOK(e)
  <2>1. \E m \in 0 .. MaxForced : ForcedIn(e) = 1 .. m
    BY <1>8, Zenon DEF ForcedOK
  <2>2. ASSUME NEW i \in DOMAIN e
        PROVE  \/ IsForced(e[i]) /\ ~e[i].wip
               \/ \A j \in DOMAIN e[i].blocks : e[i].blocks[j] > 0
    <3>1. CASE i = sip
      BY <3>1, <1>6, Zenon
    <3>2. CASE i # sip
      <4>1. i \in DOMAIN d /\ e[i] = d[i]
        BY <3>2, <1>2, <1>4, Zenon
      <4> QED BY <4>1, Zenon DEF ForcedOK
    <3> QED BY <3>1, <3>2, Zenon
  <2>3. ASSUME NEW i \in DOMAIN e, NEW j \in DOMAIN e,
               i < j, IsForced(e[i]), IsForced(e[j])
        PROVE  e[i].blocks[1] > e[j].blocks[1]
    <3>1. i # sip /\ j # sip
      BY <2>3, <1>7, Zenon
    <3>2. e[i] = d[i] /\ e[j] = d[j] /\ i \in DOMAIN d /\ j \in DOMAIN d
      BY <3>1, <1>2, <1>4, Zenon
    <3> QED BY <2>3, <3>2, Zenon DEF ForcedOK
  <2> QED BY <2>1, <2>2, <2>3, Zenon DEF ForcedOK
<1> QED BY <1>2, <1>3, <1>8, <1>9, SameForced, Zenon DEF e

\* rows and one more
LEMMA AppendRow ==
  ASSUME NEW d \in Seq(RowType), NEW row \in RowType
  PROVE  LET e == Append(d, row)
         IN  /\ e \in Seq(RowType) /\ Len(e) = Len(d) + 1
             /\ \A i \in 1 .. Len(d) : e[i] = d[i]
             /\ e[Len(d) + 1] = row
             /\ DOMAIN d = 1 .. Len(d) /\ DOMAIN e = 1 .. (Len(d) + 1)
OBVIOUS

\* the next batch is opened, without L2 blocks
LEMMA DbOpen ==
  ASSUME NEW d, RowsOK(d, NoBatch), ForcedOK(d), ~d[Len(d)].wip,
         NEW row \in RowType, row.num = Len(d) + 1, row.blocks = <<>>, row.wip
  PROVE  LET e == Append(d, row)
         IN  /\ RowsOK(e, Len(d) + 1) /\ ForcedOK(e)
             /\ LastTrustedForced(e) = LastTrustedForced(d)
             /\ Len(e) = Len(d) + 1
<1> DEFINE e == Append(d, row)
<1>1. d \in Seq(RowType) /\ Len(d) \in Nat /\ Len(d) >= 1
  BY DEF RowsOK
<1> USE <1>1
<1>2. /\ e \in Seq(RowType) /\ Len(e) = Len(d) + 1
      /\ \A i \in 1 .. Len(d) : e[i] = d[i]
      /\ e[Len(d) + 1] = row
      /\ DOMAIN d = 1 .. Len(d) /\ DOMAIN e = 1 .. (Len(d) + 1)
  BY AppendRow, Zenon
<1> USE <1>2
<1> HIDE DEF e
<1>3. RowsOK(e, Len(d) + 1)
  BY DEF RowsOK
<1>4. ~IsForced(row)
  BY DEF IsForced
<1>5. ForcedIn(e) = ForcedIn(d)
  <2>1. Range(row.blocks) = {}
    BY DEF Range
  <2>2. \A k : (\E i \in DOMAIN e : -k \in Range(e[i].blocks))
                  = (\E i \in DOMAIN d : -k \in Range(d[i].blocks))
    BY <2>1
  <2> QED BY <2>2, Zenon DEF ForcedIn
<1>6. ForcedOK(e)
  <2>1. \E m \in 0 .. MaxForced : ForcedIn(e) = 1 .. m
    BY <1>5, Zenon DEF ForcedOK
  <2>2. ASSUME NEW i \in DOMAIN e
        PROVE  \/ IsForced(e[i]) /\ ~e[i].wip
               \/ \A j \in DOMAIN e[i].blocks : e[i].blocks[j] > 0
    <3>1. CASE i = Len(d) + 1
      <4>1. DOMAIN e[i].blocks = {}
        BY <3>1
      <4> QED BY <4>1, Zenon
    <3>2. CASE i # Len(d) + 1
      <4>1. i \in DOMAIN d /\ e[i] = d[i]
        BY <3>2
      <4> QED BY <4>1, Zenon DEF ForcedOK
    <3> QED BY <3>1, <3>2, Zenon
  <2>3. ASSUME NEW i \in DOMAIN e, NEW j \in DOMAIN e,
               i < j, IsForced(e[i]), IsForced(e[j])
        PROVE  e[i].blocks[1] > e[j].blocks[1]
    <3>1. i # Len(d) + 1 /\ j # Len(d) + 1
      BY <2>3, <1>4, Zenon
    <3>2. e[i] = d[i] /\ e[j] = d[j] /\ i \in DOMAIN d /\ j \in DOMAIN d
      BY <3>1
    <3> QED BY <2>3, <3>2, Zenon DEF ForcedOK
  <2> QED BY <2>1, <2>2, <2>3, Zenon DEF ForcedOK
<1> QED BY <1>3, <1>5, <1>6, SameForced, Zenon DEF e

\* the next forced batch is appended
LEMMA DbForced ==
  ASSUME NEW d, RowsOK(d, NoBatch), ForcedOK(d), ~d[Len(d)].wip, Len(d) + 1 < Top,
         LastTrustedForced(d) + 1 <= MaxForced,
         NEW row \in RowType, row.num = Len(d) + 1, ~row.wip,
         row.blocks = <<-(LastTrustedForced(d) + 1)>>
  PROVE  LET e == Append(d, row)
         IN  /\ RowsOK(e, NoBatch) /\ ForcedOK(e)
             /\ LastTrustedForced(e) = LastTrustedForced(d) + 1
             /\ Len(e) = Len(d) + 1
<1> USE FinalizerAssumption
<1> DEFINE e == Append(d, row)
           n == LastTrustedForced(d)
<1>1. d \in Seq(RowType) /\ Len(d) \in Nat /\ Len(d) >= 1
  BY DEF RowsOK
<1> USE <1>1
<1>2. /\ e \in Seq(RowType) /\ Len(e) = Len(d) + 1
      /\ \A i \in 1 .. Len(d) : e[i] = d[i]
      /\ e[Len(d) + 1] = row
      /\ DOMAIN d = 1 .. Len(d) /\ DOMAIN e = 1 .. (Len(d) + 1)
  BY AppendRow, Zenon
<1> USE <1>2
<1>3. n \in 0 .. MaxForced /\ ForcedIn(d) = 1 .. n /\ n + 1 \in 1 .. MaxForced
  BY LastForced
<1> USE <1>3
<1> HIDE DEF e, n
<1>4. RowsOK(e, NoBatch)
  BY DEF RowsOK
<1>5. ForcedIn(e) = 1 .. (n + 1)
  <2>1. Range(row.blocks) = {-(n + 1)}
    BY DEF Range, n
  <2>2. ASSUME NEW k \in 1 .. MaxForced
        PROVE  (\E i \in DOMAIN e : -k \in Range(e[i].blocks))
                  <=> (k = n + 1 \/ \E i \in DOMAIN d : -k \in Range(d[i].blocks))
    <3>1. -k \in Range(row.blocks) <=> k = n + 1
      BY <2>1
    <3>2. ASSUME NEW i \in DOMAIN e, -k \in Range(e[i].blocks)
          PROVE  k = n + 1 \/ \E h \in DOMAIN d : -k \in Range(d[h].blocks)
      <4>1. CASE i = Len(d) + 1
        BY <4>1, <3>1, <3>2, Zenon
      <4>2. CASE i # Len(d) + 1
        <5>1. i \in DOMAIN d /\ e[i] = d[i]
          BY <4>2
        <5> QED BY <5>1, <3>2, Zenon
      <4> QED BY <4>1, <4>2, Zenon
    <3>3. k = n + 1 => \E i \in DOMAIN e : -k \in Range(e[i].blocks)
      BY <3>1
    <3>4. ASSUME NEW i \in DOMAIN d, -k \in Range(d[i].blocks)
          PROVE  \E h \in DOMAIN e : -k \in Range(e[h].blocks)
      BY <3>4
    <3> QED BY <3>2, <3>3, <3>4, Zenon
  <2>3. \A k \in 1 .. MaxForced : k \in ForcedIn(e) <=> (k = n + 1 \/ k \in ForcedIn(d))
    BY <2>2, Zenon DEF ForcedIn
  <2>4. \A k \in ForcedIn(e) : k \in 1 .. MaxForced
    BY Zenon DEF ForcedIn
  <2>5. \A k : k \in 1 .. (n + 1) <=> (k \in 1 .. MaxForced /\ (k = n + 1 \/ k \in 1 .. n))
    OBVIOUS
  <2> QED BY <2>3, <2>4, <2>5, Zenon
<1>6. LastTrustedForced(e) = n + 1
  <2>1. LastTrustedForced(e) =
          IF ForcedIn(e) = {} THEN 0 ELSE CHOOSE k \in ForcedIn(e) : \A j \in ForcedIn(e) : j <= k
    BY Zenon DEF LastTrustedForced, ForcedIn
  <2>2. LastTrustedForced(e) = CHOOSE k \in 1 .. (n + 1) : \A j \in 1 .. (n + 1) : j <= k
    BY <1>5, <2>1, SMTT(30)
  <2> QED BY <2>2
<1>7. ForcedOK(e)
  <2>1. \E m \in 0 .. MaxForced : ForcedIn(e) = 1 .. m
    BY <1>5
  <2>2. ASSUME NEW i \in DOMAIN e
        PROVE  \/ IsForced(e[i]) /\ ~e[i].wip
               \/ \A j \in DOMAIN e[i].blocks : e[i].blocks[j] > 0
    <3>1. CASE i = Len(d) + 1
      BY <3>1, Zenon DEF IsForced, n
    <3>2. CASE i # Len(d) + 1
      <4>1. i \in DOMAIN d /\ e[i] = d[i]
        BY <3>2
      <4> QED BY <4>1, Zenon DEF ForcedOK
    <3> QED BY <3>1, <3>2, Zenon
  <2>3. ASSUME NEW i \in DOMAIN e, NEW j \in DOMAIN e,
               i < j, IsForced(e[i]), IsForced(e[j])
        PROVE  e[i].blocks[1] > e[j].blocks[1]
    <3> USE <2>3
    <3>1. e[i] = d[i] /\ i \in DOMAIN d
      OBVIOUS
    <3> USE <3>1
    <3>2. CASE j = Len(d) + 1
      <4>1. PICK f \in 1 .. MaxForced : d[i].blocks = <<-f>>
        BY Zenon DEF IsForced
      <4>2. -f \in Range(d[i].blocks)
        BY <4>1 DEF Range
      <4>3. f \in ForcedIn(d)
        BY <4>2, Zenon DEF ForcedIn
      <4>4. e[j].blocks[1] = -(n + 1) /\ e[i].blocks[1] = -f
        BY <3>2, <4>1 DEF n
      <4> QED BY <4>3, <4>4
    <3>3. CASE j # Len(d) + 1
      <4>1. e[j] = d[j] /\ j \in DOMAIN d
        BY <3>3
      <4> QED BY <4>1, Zenon DEF ForcedOK
    <3> QED BY <3>2, <3>3, Zenon
  <2> QED BY <2>1, <2>2, <2>3, Zenon DEF ForcedOK
<1> QED BY <1>4, <1>6, <1>7, Zenon DEF e, n

-----------------------------------------------------------------------------
(* The invariant of the control of the pipeline, for any constants *)

LEMMA BatchesCount ==
  ASSUME NEW B \in Batches, NEW n \in BatchNum \ {0}
  PROVE  [B EXCEPT ![n].countOfL2Blocks = @ + 1] \in Batches
BY DEF Batches, BatchType

LEMMA BatchesIm ==
  ASSUME NEW B \in Batches, NEW n \in BatchNum \ {0}, NEW r \in Root
  PROVE  [B EXCEPT ![n].imStateRoot = r] \in Batches
BY Zenon DEF Batches, BatchType

LEMMA BatchesFinal ==
  ASSUME NEW B \in Batches, NEW n \in BatchNum \ {0}, NEW r \in Root
  PROVE  [B EXCEPT ![n].finalStateRoot = r] \in Batches
BY Zenon DEF Batches, BatchType

LEMMA BatchesInitial ==
  ASSUME NEW B \in Batches, NEW n \in BatchNum \ {0}, NEW r \in Root
  PROVE  [B EXCEPT ![n].initialStateRoot = r, ![n].finalStateRoot = r] \in Batches
BY Zenon DEF Batches, BatchType

LEMMA BatchesOpen ==
  ASSUME NEW B \in Batches, NEW n \in BatchNum \ {0}, NEW b \in BatchType
  PROVE  [B EXCEPT ![n] = b] \in Batches
BY Zenon DEF Batches

LEMMA OpenTyped ==
  ASSUME NEW r \in Root
  PROVE  OpenNewWIPBatch(r) \in BatchType
BY Zenon DEF OpenNewWIPBatch, BatchType

LEMMA FinGoto ==
  ASSUME NEW f \in FinalizerType, NEW pc, NEW g, g = [f EXCEPT !.pc = pc]
  PROVE  /\ g.pc = pc /\ g.ret = f.ret /\ g.cont = f.cont
         /\ g.i = f.i /\ g.num = f.num /\ g.root = f.root
         /\ pc \in FinalizerPoints => g \in FinalizerType
BY Zenon DEF FinalizerType

LEMMA BaseTypes ==
  ASSUME BaseInv
  PROVE  /\ batches \in Batches /\ fin \in FinalizerType
         /\ wipBatch \in BatchNum /\ (fin.pc \notin {"start", "halted"} => wipBatch \in BatchNum \ {0})
         /\ wipL2Block \in BlockType \cup {NoBlock}
         /\ fin.pc \in Filling => wipL2Block # NoBlock /\ wipL2Block \in BlockType
<1>1. batches \in Batches /\ fin \in FinalizerType /\ wipBatch \in BatchNum
      /\ wipL2Block \in BlockType \cup {NoBlock}
  BY Zenon DEF BaseInv, TypeOK
<1>2. fin.pc \notin {"start", "halted"} => wipBatch >= 1
  BY Zenon DEF BaseInv, ControlInv
<1>3. fin.pc \in Filling => wipL2Block # NoBlock
  BY Zenon DEF BaseInv, ControlInv
<1>4. wipBatch >= 1 => wipBatch # 0
  BY <1>1, FinalizerAssumption DEF BatchNum
<1> QED BY <1>1, <1>2, <1>3, <1>4, Zenon

\* closeWIPL2Block up to its first wait, from where there is a wip L2 block
LEMMA CloseBlockTyped ==
  ASSUME BaseInv, NEW ret \in {"top", "select", "reorgDone"},
         NEW cont \in {"open", "newBatch", "closeSip"}, fin.pc \in Filling,
         CloseWIPL2Block(ret, cont)
  PROVE  /\ batches' \in Batches /\ halted' = halted
         /\ fin'.pc = "push" /\ fin'.cont = cont /\ fin'.ret = ret /\ fin' \in FinalizerType
<1>1. wipL2Block # NoBlock /\ wipBatch \in BatchNum \ {0} /\ batches \in Batches /\ fin \in FinalizerType
  BY BaseTypes, Zenon DEF Filling
<1> USE <1>1
<1>2. fin' = [fin EXCEPT !.pc = "push", !.ret = ret, !.cont = cont] /\ halted' = halted
      /\ batches' = [batches EXCEPT ![wipBatch].countOfL2Blocks = @ + 1]
  BY Zenon DEF CloseWIPL2Block
<1>3. batches' \in Batches
  BY <1>2, BatchesCount, Zenon
<1>4. fin'.pc = "push" /\ fin'.cont = cont /\ fin'.ret = ret /\ fin' \in FinalizerType
  BY <1>2, Zenon DEF FinalizerType, FinalizerPoints
<1> QED BY <1>2, <1>3, <1>4, Zenon

LEMMA BlocksTyped ==
  ASSUME NEW q \in Seq(BlockType)
  PROVE  \A i \in DOMAIN q : q[i] \in BlockType /\ q[i].batch \in BatchNum
<1>1. \A i \in DOMAIN q : q[i] \in BlockType
  OBVIOUS
<1>2. \A b \in BlockType : b.batch \in BatchNum
  BY Zenon DEF BlockType
<1> QED BY <1>1, <1>2, Zenon

\* a step of the finalizer that touches only its own work
LEMMA WipStep ==
  ASSUME BaseInv, UNCHANGED <<pipBatch, queueVars, dbVars, proc, store, budget>>,
         wipBatch' \in BatchNum, wipBatch <= wipBatch', batches' \in Batches,
         wipL2Block' \in BlockType \cup {NoBlock},
         wipL2Block' # NoBlock => wipL2Block'.batch <= wipBatch',
         l2BlockCounter' \in Nat, fin' \in FinalizerType, halted' \in HaltReasons,
         l2BlockReorg' \in BOOLEAN, lastL2BlockWasReorg' \in BOOLEAN,
         UNCHANGED forcedVars
  PROVE  /\ TypeOK' /\ RowsOK(db, sipBatch)' /\ ForcedOK(db)' /\ QueueInv' /\ OrderInv'
         /\ LastTrustedForced(db)' = LastTrustedForced(db)
<1> USE DEF queueVars, dbVars, forcedVars
<1>1. TypeOK'
  BY Zenon DEF BaseInv, TypeOK
<1>2. RowsOK(db, sipBatch)' /\ ForcedOK(db)' /\ QueueInv' /\ LastTrustedForced(db)' = LastTrustedForced(db)
  BY Zenon DEF BaseInv, QueueInv
<1>3. OrderInv'
  <2>1. sipBatch' <= wipBatch'
    BY FinalizerAssumption DEF BaseInv, OrderInv, TypeOK, BatchNum
  <2>2. ASSUME NEW n \in BatchNum, n <= wipBatch PROVE n <= wipBatch'
    BY <2>2, FinalizerAssumption DEF BaseInv, TypeOK, BatchNum
  <2>3. \A i \in DOMAIN toProcess : toProcess[i].batch \in BatchNum
    BY BlocksTyped, Zenon DEF BaseInv, TypeOK
  <2>4. \A i \in DOMAIN toStore : toStore[i].batch \in BatchNum
    BY BlocksTyped, Zenon DEF BaseInv, TypeOK
  <2>5. proc.pc = "toStore" => proc.block.batch \in BatchNum
    BY Zenon DEF BaseInv, QueueInv, BlockType
  <2> QED BY <2>1, <2>2, <2>3, <2>4, <2>5, Zenon DEF BaseInv, OrderInv
<1> QED BY <1>1, <1>2, <1>3, Zenon

LEMMA FinalizeTyped ==
  ASSUME BaseInv, fin.pc \in Filling, FinalizeWIPBatch
  PROVE  /\ batches' \in Batches /\ halted' = halted /\ wipBatch < MaxBatch
         /\ fin' \in FinalizerType
         /\ fin'.pc = "newBatch" \/ (fin'.pc = "push" /\ fin'.cont = "newBatch")
<1>1. CASE wipL2Block.empty
  <2>1. fin' = [fin EXCEPT !.pc = "newBatch", !.ret = "top"]
    BY <1>1, Zenon DEF FinalizeWIPBatch
  <2>2. fin' \in FinalizerType /\ fin'.pc = "newBatch"
    BY <2>1, BaseTypes, Zenon DEF FinalizerType, FinalizerPoints
  <2> QED BY <1>1, <2>2, BaseTypes, Zenon DEF FinalizeWIPBatch
<1>2. CASE ~wipL2Block.empty
  BY <1>2, CloseBlockTyped, Zenon DEF FinalizeWIPBatch
<1> QED BY <1>1, <1>2, Zenon

\* a channel that holds one L2 block at most
LEMMA PushOne ==
  ASSUME NEW q \in Seq(BlockType), Len(q) = 0, NEW b \in BlockType
  PROVE  /\ Append(q, b) \in Seq(BlockType) /\ Len(Append(q, b)) = 1
         /\ \A i \in DOMAIN Append(q, b) : Append(q, b)[i] = b
         /\ q = <<>> /\ Append(q, b) = <<b>>
OBVIOUS

LEMMA PopOne ==
  ASSUME NEW q \in Seq(BlockType), q # <<>>, Len(q) <= 1
  PROVE  /\ Tail(q) = <<>> /\ Tail(q) \in Seq(BlockType) /\ Len(q) = 1 /\ Len(Tail(q)) = 0
         /\ Head(q) = q[1] /\ q[1] \in BlockType /\ 1 \in DOMAIN q /\ DOMAIN Tail(q) = {}
<1>1. Len(q) = 1
  <2>1. Len(q) \in Nat /\ Len(q) # 0
    BY EmptySeq
  <2> QED BY <2>1
<1>2. Tail(q) \in Seq(BlockType) /\ Len(Tail(q)) = 0
  BY <1>1
<1>3. Tail(q) = <<>>
  BY <1>2, EmptySeq, Zenon
<1> QED BY <1>1, <1>2, <1>3

LEMMA HaltTyped ==
  ASSUME BaseInv, NEW why \in HaltReasons, Halt(why)
  PROVE  halted' \in HaltReasons
BY Zenon DEF BaseInv, TypeOK, Halt

\* what closeSIPBatch hands to batchSanityCheck
LEMMA CheckTyped ==
  ASSUME BaseInv, sipBatch # NoBatch
  PROVE  CheckOf(sipBatch) \in CheckType
<1>1. sipBatch \in BatchNum \ {0} /\ batches \in Batches
  BY Zenon DEF BaseInv, TypeOK, NoBatch
<1>2. batches[sipBatch] \in BatchType
  BY <1>1, Zenon DEF Batches
<1> QED BY <1>1, <1>2, Zenon DEF CheckOf, CheckType, BatchType

\* initWIPBatch on the rows that are in the database afterwards
LEMMA InitBase ==
  ASSUME BaseInv, NoPendingL2Blocks, NEW ret \in {"top", "reorgDone"},
         RowsOK(db', NoBatch), ForcedOK(db'), InitWIPBatch(db', ret),
         UNCHANGED <<l2BlockCounter, queueVars, reorgVars, forcedVars, proc, store>>,
         checks' \subseteq CheckType, halted' \in HaltReasons, budget' \in Budgets
  PROVE  BaseInv'
<1> USE DEF wipVars, queueVars, reorgVars, forcedVars, dbVars
<1> DEFINE d == db'
           row == d[Len(d)]
           num == IF IsOpen(row) THEN row.num ELSE row.num + 1
<1>1. /\ d \in Seq(RowType) /\ Len(d) \in Nat /\ Len(d) >= 1 /\ Len(d) \in 1 .. Len(d)
      /\ row \in RowType /\ row.num = Len(d) /\ (~row.wip => Len(d) < Top)
      /\ row.wip => Len(d) > 1
  <2>1. d \in Seq(RowType) /\ Len(d) >= 1
    BY Zenon DEF RowsOK
  <2> USE <2>1
  <2>2. Len(d) \in Nat /\ Len(d) \in 1 .. Len(d)
    OBVIOUS
  <2> USE <2>2
  <2>3. row \in RowType
    OBVIOUS
  <2>4. row.num = Len(d) /\ (~row.wip => Len(d) < Top) /\ (Len(d) = 1 => ~row.wip)
    BY Zenon DEF RowsOK
  <2>5. row.wip => Len(d) > 1
    <3>1. CASE Len(d) = 1
      BY <2>4, <3>1, Zenon
    <3>2. CASE Len(d) # 1
      <4>1. Len(d) > 1
        BY <3>2
      <4> QED BY <4>1, Zenon
    <3> QED BY <3>1, <3>2, Zenon
  <2> QED BY <2>3, <2>4, <2>5, Zenon
<1> USE <1>1
<1>2. num = (IF row.wip THEN Len(d) ELSE Len(d) + 1)
  BY Zenon DEF IsOpen
<1>3. num \in BatchNum \ {0}
  <2>1. row.num \in BatchNum
    BY Zenon DEF RowType
  <2> QED BY <1>2, <2>1, FinalizerAssumption DEF BatchNum, Top
<1> USE <1>3
<1>4. /\ wipBatch' = num
      /\ pipBatch' = (IF row.wip THEN num ELSE NoBatch)
      /\ sipBatch' = (IF row.wip THEN num ELSE NoBatch)
      /\ wipL2Block' = NoBlock
      /\ \/ ~row.wip /\ num = HaltOnBatchNumber /\ Goto("keepHalting") /\ UNCHANGED batches
         \/ /\ batches' = [batches EXCEPT ![num] =
                     IF row.wip THEN SetWIPBatch(row, d[Len(d) - 1])
                                ELSE OpenNewWIPBatch(row.stateRoot)]
            /\ fin' = [fin EXCEPT !.pc = "open", !.ret = ret]
  BY Zenon DEF InitWIPBatch, IsOpen
<1> HIDE DEF num, row
<1>5. /\ fin' \in FinalizerType
      /\ \/ ~row.wip /\ num = HaltOnBatchNumber /\ fin'.pc = "keepHalting"
         \/ fin'.pc = "open"
  <2>1. fin \in FinalizerType
    BY BaseTypes, Zenon
  <2>2. CASE fin' = [fin EXCEPT !.pc = "open", !.ret = ret]
    BY <2>1, <2>2, Zenon DEF FinalizerType, FinalizerPoints
  <2>3. CASE ~row.wip /\ num = HaltOnBatchNumber /\ Goto("keepHalting")
    <3>1. fin' = [fin EXCEPT !.pc = "keepHalting"] /\ "keepHalting" \in FinalizerPoints
      BY <2>3, Zenon DEF Goto, FinalizerPoints
    <3> QED BY <2>1, <2>3, <3>1, FinGoto
  <2> QED BY <1>4, <2>2, <2>3, Zenon
<1> USE <1>5
<1>6. batches' \in Batches
  <2>1. batches \in Batches
    BY BaseTypes, Zenon
  <2> USE <2>1
  <2>2. row.stateRoot \in Root /\ row.blocks \in Root
    BY Zenon DEF RowType
  <2> USE <2>2
  <2>3. row.wip => SetWIPBatch(row, d[Len(d) - 1]) \in BatchType
    <3>1. SUFFICES ASSUME row.wip PROVE SetWIPBatch(row, d[Len(d) - 1]) \in BatchType
      BY Zenon
    <3>2. d[Len(d) - 1] \in RowType
      BY <3>1
    <3>3. d[Len(d) - 1].stateRoot \in Root
      BY <3>2, Zenon DEF RowType
    <3>4. Len(row.blocks) \in Nat
      BY DEF Root
    <3> QED BY <3>3, <3>4, Zenon DEF SetWIPBatch, BatchType
  <2>4. OpenNewWIPBatch(row.stateRoot) \in BatchType
    BY OpenTyped, Zenon
  <2>5. CASE UNCHANGED batches
    BY <2>5, Zenon
  <2>6. CASE row.wip /\ batches' = [batches EXCEPT ![num] = SetWIPBatch(row, d[Len(d) - 1])]
    BY <2>3, <2>6, BatchesOpen, Zenon
  <2>7. CASE batches' = [batches EXCEPT ![num] = OpenNewWIPBatch(row.stateRoot)]
    BY <2>4, <2>7, BatchesOpen, Zenon
  <2> QED BY <1>4, <2>5, <2>6, <2>7, Zenon
<1>7. wipBatch' \in BatchNum /\ wipBatch' >= 1 /\ pipBatch' \in BatchNum /\ sipBatch' \in BatchNum
      /\ sipBatch' <= wipBatch'
  BY <1>4, FinalizerAssumption DEF BatchNum, NoBatch
<1> USE <1>7
<1>8. TypeOK'
  BY <1>4, <1>6, Zenon DEF BaseInv, TypeOK
<1>9. RowsOK(db', sipBatch')
  <2>1. sipBatch' # NoBatch => sipBatch' = Len(d) /\ d[Len(d)].wip
    BY <1>2, <1>4, Zenon DEF row
  <2> QED BY <2>1, Zenon DEF RowsOK
<1>10. QueueInv'
  BY Zenon DEF BaseInv, QueueInv
<1>11. OrderInv'
  <2>1. Len(toProcess) = 0 /\ Len(toStore) = 0 /\ proc.pc # "toStore"
    <3>1. Len(toProcess) \in Nat /\ Len(toStore) \in Nat
      BY DEF BaseInv, TypeOK
    <3> QED BY <3>1 DEF BaseInv, QueueInv, NoPendingL2Blocks
  <2>2. DOMAIN toProcess = {} /\ DOMAIN toStore = {}
    <3>1. DOMAIN toProcess = 1 .. Len(toProcess) /\ DOMAIN toStore = 1 .. Len(toStore)
      BY DEF BaseInv, TypeOK
    <3> QED BY <2>1, <3>1
  <2> QED BY <1>4, <2>1, <2>2, Zenon DEF OrderInv
<1>12. ControlInv'
  <2>1. fin'.pc = "keepHalting" =>
           /\ ~db'[Len(db')].wip /\ Len(db') < HaltOnBatchNumber
           /\ NoPendingL2Blocks' /\ sipBatch' = NoBatch
    BY <1>2, <1>4 DEF row, NoPendingL2Blocks
  <2> QED BY <2>1, Zenon DEF ControlInv, Quiet, Filling, Closing
<1> QED BY <1>8, <1>9, <1>10, <1>11, <1>12, Zenon DEF BaseInv

LEMMA RowsNoSip ==
  ASSUME NEW d, NEW sip, RowsOK(d, sip)
  PROVE  RowsOK(d, NoBatch)
BY Zenon DEF RowsOK

\* the Batch objects after the roots were propagated to batch b
LEMMA PropagateTyped ==
  ASSUME BaseInv, NEW b \in BatchNum \ {0}
  PROVE  PropagateRoot(b) \in Batches
<1>1. batches \in Batches /\ pipBatch \in BatchNum
  BY Zenon DEF BaseInv, TypeOK
<1> USE <1>1
<1>2. CASE pipBatch # NoBatch /\ pipBatch # b
  <2>1. pipBatch \in BatchNum \ {0}
    BY <1>2, Zenon DEF NoBatch
  <2>2. batches[pipBatch].finalStateRoot \in Root
    BY <2>1, Zenon DEF Batches, BatchType
  <2> QED BY <1>2, <2>2, BatchesInitial, Zenon DEF PropagateRoot
<1>3. CASE ~(pipBatch # NoBatch /\ pipBatch # b)
  BY <1>3, Zenon DEF PropagateRoot
<1> QED BY <1>2, <1>3, Zenon

LEMMA ProcTyped ==
  ASSUME NEW p \in ProcessorType, NEW pc \in {"idle", "toStore", "failed", "halted"}
  PROVE  /\ [p EXCEPT !.pc = pc] \in ProcessorType
         /\ [p EXCEPT !.pc = pc].pc = pc /\ [p EXCEPT !.pc = pc].block = p.block
BY Zenon DEF ProcessorType

\* the storer begins a batch: the row of the sip batch, if any, is closed
LEMMA OpenRows ==
  ASSUME BaseInv, NEW b \in BatchNum, NEW rows,
         rows = IF sipBatch = NoBatch THEN db ELSE CloseWIPBatch(db, sipBatch),
         MayOpen(rows, b), NEW root \in Root,
         NEW new, new = Row(b, root, <<>>, TRUE, FALSE)
  PROVE  /\ RowsOK(Append(rows, new), b) /\ ForcedOK(Append(rows, new))
         /\ LastTrustedForced(Append(rows, new)) = LastTrustedForced(db)
         /\ b # NoBatch
<1>1. db \in Seq(RowType) /\ Len(db) \in Nat /\ Len(db) >= 1 /\ Len(db) \in 1 .. Len(db)
      /\ db[Len(db)].num = Len(db)
  <2>1. db \in Seq(RowType) /\ Len(db) >= 1
    BY Zenon DEF BaseInv, RowsOK
  <2>2. Len(db) \in Nat /\ Len(db) \in 1 .. Len(db)
    BY <2>1
  <2> QED BY <2>1, <2>2, Zenon DEF BaseInv, RowsOK
<1> USE <1>1
<1>2. rows[Len(rows)].num + 1 = b /\ ~rows[Len(rows)].wip
  BY Zenon DEF MayOpen
<1>3. Len(rows) = Len(db) /\ rows[Len(rows)].num = Len(db)
  <2>1. CASE sipBatch = NoBatch
    BY <2>1, Zenon
  <2>2. CASE sipBatch # NoBatch
    <3>1. rows = CloseWIPBatch(db, sipBatch)
      BY <2>2, Zenon
    <3>2. Len(rows) = Len(db) /\ rows[Len(db)].num = db[Len(db)].num
      BY <3>1, CloseRows
    <3> QED BY <3>2, Zenon
  <2> QED BY <2>1, <2>2, Zenon
<1>4. b = Len(db) + 1 /\ Len(db) < Top /\ b # NoBatch
  BY <1>2, <1>3, FinalizerAssumption DEF BatchNum, Top, NoBatch
<1>5. RowsOK(rows, NoBatch) /\ ForcedOK(rows) /\ LastTrustedForced(rows) = LastTrustedForced(db)
  <2>1. CASE sipBatch = NoBatch
    BY <2>1, Zenon DEF BaseInv
  <2>2. CASE sipBatch # NoBatch
    <3>1. rows = CloseWIPBatch(db, sipBatch)
      BY <2>2, Zenon
    <3> QED BY <2>2, <3>1, <1>4, DbClose, Zenon DEF BaseInv
  <2> QED BY <2>1, <2>2, Zenon
<1>6. new \in RowType /\ new.num = b /\ new.blocks = <<>> /\ new.wip
  <2>1. <<>> \in Root
    BY EmptySeq, Zenon DEF Root
  <2> QED BY <2>1, Zenon DEF Row, RowType
<1> QED BY <1>2, <1>3, <1>4, <1>5, <1>6, DbOpen, Zenon

LEMMA StoreTyped ==
  ASSUME NEW s \in StorerType, NEW b \in BlockType
  PROVE  /\ [s EXCEPT !.pc = "halted"] \in StorerType /\ [s EXCEPT !.pc = "halted"].pc = "halted"
         /\ [pc |-> "stored", block |-> b] \in StorerType
BY Zenon DEF StorerType

LEMMA InitialBase ==
  ASSUME Init
  PROVE  BaseInv
<1>1. /\ wipBatch = 0 /\ pipBatch = 0 /\ sipBatch = 0 /\ l2BlockCounter = 0
      /\ wipL2Block = NoBlock
      /\ toProcess = <<>> /\ processWG = 0 /\ toStore = <<>> /\ storeWG = 0
      /\ l2BlockReorg = FALSE /\ lastL2BlockWasReorg = FALSE
      /\ proc = [pc |-> "idle", block |-> NoBlock]
      /\ store = [pc |-> "idle", block |-> NoBlock]
      /\ checks = {}
      /\ nextForcedBatches = <<>> /\ lastForcedBatchNum = 0 /\ deadline = FALSE
      /\ halted = "no" /\ db = <<Genesis>>
  BY Zenon DEF Init, NoBatch
<1>2. <<>> \in Seq(BlockType) /\ Len(<<>>) = 0 /\ DOMAIN <<>> = {} /\ <<>> \in Seq(1 .. MaxForced)
      /\ <<>> \in Root
  BY EmptySeq DEF Root
<1> USE <1>2
<1>3. fin \in FinalizerType /\ fin.pc = "start"
  <2>1. 0 \in BatchNum
    BY FinalizerAssumption DEF BatchNum
  <2>2. fin = [pc |-> "start", ret |-> "top", cont |-> "open", i |-> 0, num |-> 0, root |-> <<>>]
    BY Zenon DEF Init
  <2> QED BY <2>1, <2>2, Zenon DEF FinalizerType, FinalizerPoints
<1>4. proc \in ProcessorType /\ store \in StorerType /\ proc.pc = "idle" /\ store.pc = "idle"
  BY <1>1, Zenon DEF ProcessorType, StorerType
<1> USE <1>4
<1>5. batches \in Batches
  <2>1. BatchNum \ {0} = 1 .. (MaxBatch + MaxForced + 2)
    BY FinalizerAssumption DEF BatchNum
  <2>2. OpenNewWIPBatch(<<>>) \in BatchType
    BY OpenTyped, Zenon
  <2> QED BY <2>1, <2>2, Zenon DEF Init, Batches
<1>6. budget \in Budgets
  BY FinalizerAssumption, Zenon DEF Init, Budgets
<1>7. Genesis \in RowType /\ Genesis.num = 1 /\ ~Genesis.wip /\ Genesis.blocks = <<>>
  <2>1. 1 \in BatchNum
    BY FinalizerAssumption DEF BatchNum
  <2> QED BY <2>1, Zenon DEF Genesis, Row, RowType
<1> USE <1>7
<1>8. db \in Seq(RowType) /\ Len(db) = 1 /\ DOMAIN db = {1} /\ db[1] = Genesis
  BY <1>1
<1> USE <1>8
<1>9. TypeOK
  <2>1. 0 \in BatchNum /\ 0 \in Nat /\ 0 \in 0 .. MaxForced
    BY FinalizerAssumption DEF BatchNum
  <2>2. halted \in HaltReasons
    BY <1>1, Zenon DEF HaltReasons
  <2>3. checks \subseteq CheckType /\ l2BlockReorg \in BOOLEAN /\ lastL2BlockWasReorg \in BOOLEAN
        /\ deadline \in BOOLEAN
    BY <1>1, Zenon
  <2> QED BY <1>1, <1>3, <1>5, <1>6, <2>1, <2>2, <2>3, Zenon DEF TypeOK
<1>10. RowsOK(db, sipBatch)
  <2>1. Len(db) < Top
    BY FinalizerAssumption DEF Top
  <2> QED BY <1>1, <2>1 DEF RowsOK, NoBatch
<1>11. ForcedOK(db)
  <2>1. ForcedIn(db) = 1 .. 0
    BY DEF ForcedIn, Range
  <2>2. \A j \in DOMAIN db[1].blocks : db[1].blocks[j] > 0
    BY Zenon
  <2>3. \E m \in 0 .. MaxForced : ForcedIn(db) = 1 .. m
    BY <2>1, FinalizerAssumption
  <2>4. \A i, j \in DOMAIN db : ~(i < j)
    OBVIOUS
  <2> QED BY <2>2, <2>3, <2>4, Zenon DEF ForcedOK
<1>12. QueueInv
  BY <1>1 DEF QueueInv
<1>13. OrderInv
  <2>1. sipBatch <= wipBatch
    BY <1>1
  <2> QED BY <1>1, <2>1, Zenon DEF OrderInv
<1>14. ControlInv
  BY <1>1, <1>3, Zenon DEF ControlInv, Quiet, Filling, Closing, NoPendingL2Blocks, NoBatch
<1> QED BY <1>9, <1>10, <1>11, <1>12, <1>13, <1>14, Zenon DEF BaseInv

LEMMA StutterBase ==
  ASSUME BaseInv, UNCHANGED vars
  PROVE  BaseInv'
<1> USE DEF vars, wipVars, queueVars, reorgVars, forcedVars, dbVars
<1>1. TypeOK'
  BY Zenon DEF BaseInv, TypeOK
<1>2. RowsOK(db, sipBatch)' /\ ForcedOK(db)' /\ QueueInv' /\ OrderInv'
  BY Zenon DEF BaseInv, QueueInv, OrderInv
<1>3. ControlInv'
  BY Zenon DEF BaseInv, ControlInv, Closing, NoPendingL2Blocks
<1> QED BY <1>1, <1>2, <1>3, Zenon DEF BaseInv

LEMMA NextBase ==
  ASSUME LastNumbers, BaseInv, Next
  PROVE  BaseInv'
<1>CheckReorg. ASSUME CheckReorg PROVE BaseInv'
  <2> USE <1>CheckReorg
  <2> USE DEF wipVars, queueVars, reorgVars, forcedVars, dbVars
  <2>1. /\ UNCHANGED <<wipVars, queueVars, reorgVars, forcedVars, dbVars,
                     proc, store, halted, budget>>
        /\ fin.pc = "top" /\ fin'.pc \in {"reorg", "timer"} /\ fin' \in FinalizerType
    BY BaseTypes, FinGoto DEF CheckReorg, Goto, FinalizerPoints
  <2> USE <2>1
  <2>2. TypeOK'
    BY Zenon DEF BaseInv, TypeOK
  <2>3. QueueInv' /\ OrderInv' /\ RowsOK(db, sipBatch)' /\ ForcedOK(db)'
    BY Zenon DEF BaseInv, QueueInv, OrderInv
  <2>4. ControlInv'
    BY Zenon DEF BaseInv, ControlInv, Quiet, Filling, Closing
  <2> QED BY <2>2, <2>3, <2>4, Zenon DEF BaseInv

<1>CheckBlockTime. ASSUME CheckBlockTime PROVE BaseInv'
  <2> USE <1>CheckBlockTime
  <2> USE DEF wipVars, queueVars, reorgVars, forcedVars, dbVars
  <2>1. /\ UNCHANGED <<wipBatch, pipBatch, wipL2Block, l2BlockCounter, queueVars,
                       reorgVars, forcedVars, dbVars, proc, store, budget>>
        /\ fin.pc = "timer"
    BY Zenon DEF CheckBlockTime
  <2> USE <2>1
  <2>2. /\ batches' \in Batches /\ halted' = halted
        /\ fin'.pc = "select" \/ (fin'.pc = "push" /\ fin'.cont = "open")
        /\ fin' \in FinalizerType
    <3>1. CASE Goto("select") /\ UNCHANGED <<batches, halted>>
      BY <3>1, BaseTypes, FinGoto DEF Goto, FinalizerPoints
    <3>2. CASE CloseWIPL2Block("select", "open")
      BY <3>2, CloseBlockTyped, Zenon DEF Filling
    <3> QED BY <3>1, <3>2, Zenon DEF CheckBlockTime
  <2>3. TypeOK'
    BY <2>2, Zenon DEF BaseInv, TypeOK
  <2>4. QueueInv' /\ OrderInv' /\ RowsOK(db, sipBatch)' /\ ForcedOK(db)'
    BY Zenon DEF BaseInv, QueueInv, OrderInv
  <2>5. ControlInv'
    BY <2>2, Zenon DEF BaseInv, ControlInv, Quiet, Filling, Closing
  <2> QED BY <2>3, <2>4, <2>5, Zenon DEF BaseInv

<1>SelectTx. ASSUME SelectTx PROVE BaseInv'
  <2> USE <1>SelectTx
  <2> USE DEF wipVars, queueVars, reorgVars, forcedVars, dbVars
  <2>1. /\ UNCHANGED <<wipBatch, pipBatch, l2BlockCounter, queueVars, reorgVars,
                       forcedVars, dbVars, proc, store, budget>>
        /\ fin.pc = "select"
    BY Zenon DEF SelectTx
  <2> USE <2>1
  <2>2. /\ batches' \in Batches /\ halted' = halted
        /\ fin' \in FinalizerType
        /\ \/ fin'.pc = "check"
           \/ wipBatch < MaxBatch /\ fin'.pc = "newBatch"
           \/ wipBatch < MaxBatch /\ fin'.pc = "push" /\ fin'.cont = "newBatch"
    <3>1. CASE Goto("check") /\ UNCHANGED <<batches, halted>>
      BY <3>1, BaseTypes, FinGoto DEF Goto, FinalizerPoints
    <3>2. CASE FinalizeWIPBatch
      BY <3>2, FinalizeTyped, Zenon DEF Filling
    <3> QED BY <3>1, <3>2, Zenon DEF SelectTx
  <2> USE <2>2
  <2>3. /\ wipL2Block' \in BlockType \cup {NoBlock} /\ wipL2Block' # NoBlock
        /\ wipL2Block'.batch <= wipBatch
    <3>1. wipL2Block \in BlockType /\ wipL2Block # NoBlock
      BY BaseTypes, Zenon DEF Filling
    <3> USE <3>1
    <3>2. wipL2Block.batch <= wipBatch
      BY Zenon DEF BaseInv, OrderInv
    <3>3. CASE wipL2Block' = [wipL2Block EXCEPT !.empty = FALSE]
      <4>1. wipL2Block' \in BlockType /\ wipL2Block'.batch = wipL2Block.batch
        BY <3>3, Zenon DEF BlockType
      <4>2. wipL2Block' # NoBlock
        BY <4>1 DEF BlockType, NoBlock
      <4> QED BY <3>2, <4>1, <4>2, Zenon
    <3>4. CASE UNCHANGED wipL2Block
      BY <3>2, <3>4, Zenon
    <3> QED BY <3>3, <3>4, Zenon DEF SelectTx
  <2>4. /\ TypeOK' /\ RowsOK(db, sipBatch)' /\ ForcedOK(db)' /\ QueueInv' /\ OrderInv'
    <3>1. /\ wipBatch' \in BatchNum /\ wipBatch <= wipBatch' /\ l2BlockCounter' \in Nat
          /\ halted' \in HaltReasons /\ l2BlockReorg' \in BOOLEAN /\ lastL2BlockWasReorg' \in BOOLEAN
      BY FinalizerAssumption DEF BaseInv, TypeOK, BatchNum
    <3> QED BY <2>3, <3>1, WipStep, Zenon
  <2>5. ControlInv'
    BY <2>3, Zenon DEF BaseInv, ControlInv, Quiet, Filling, Closing
  <2> QED BY <2>4, <2>5, Zenon DEF BaseInv

<1>CheckFinalizeBatch. ASSUME CheckFinalizeBatch PROVE BaseInv'
  <2> USE <1>CheckFinalizeBatch
  <2> USE DEF wipVars, queueVars, reorgVars, forcedVars, dbVars
  <2>1. /\ UNCHANGED <<wipBatch, pipBatch, wipL2Block, l2BlockCounter, queueVars,
                       reorgVars, forcedVars, dbVars, proc, store, budget>>
        /\ fin.pc = "check"
    BY Zenon DEF CheckFinalizeBatch
  <2> USE <2>1
  <2>2. /\ batches' \in Batches /\ halted' = halted
        /\ fin' \in FinalizerType
        /\ \/ fin'.pc \in {"halted", "top"}
           \/ wipBatch < MaxBatch /\ fin'.pc = "newBatch"
           \/ wipBatch < MaxBatch /\ fin'.pc = "push" /\ fin'.cont = "newBatch"
    <3>1. CASE Goto("halted") /\ UNCHANGED <<batches, halted>>
      BY <3>1, BaseTypes, FinGoto DEF Goto, FinalizerPoints
    <3>2. CASE Goto("top") /\ UNCHANGED <<batches, halted>>
      BY <3>2, BaseTypes, FinGoto DEF Goto, FinalizerPoints
    <3>3. CASE FinalizeWIPBatch
      BY <3>3, FinalizeTyped, Zenon DEF Filling
    <3> QED BY <3>1, <3>2, <3>3, Zenon DEF CheckFinalizeBatch
  <2>3. /\ TypeOK' /\ RowsOK(db, sipBatch)' /\ ForcedOK(db)' /\ QueueInv' /\ OrderInv'
    BY <2>2, Zenon DEF BaseInv, TypeOK, QueueInv, OrderInv
  <2>4. ControlInv'
    BY <2>2, Zenon DEF BaseInv, ControlInv, Quiet, Filling, Closing
  <2> QED BY <2>3, <2>4, Zenon DEF BaseInv

<1>PushL2Block. ASSUME PushL2Block PROVE BaseInv'
  <2> USE <1>PushL2Block
  <2> USE DEF wipVars, queueVars, reorgVars, forcedVars, dbVars
  <2>1. /\ UNCHANGED <<batches, wipBatch, pipBatch, l2BlockCounter, toStore, storeWG,
                       reorgVars, forcedVars, dbVars, proc, store, halted, budget>>
        /\ fin.pc = "push" /\ processWG = 0
    BY Zenon DEF PushL2Block
  <2> USE <2>1
  <2>2. wipL2Block \in BlockType /\ wipL2Block # NoBlock /\ wipL2Block.batch <= wipBatch
    <3>1. wipL2Block \in BlockType /\ wipL2Block # NoBlock
      BY BaseTypes, Zenon DEF Filling
    <3> QED BY <3>1, Zenon DEF BaseInv, OrderInv
  <2> USE <2>2
  <2>3. proc.pc = "idle" /\ Len(toProcess) = 0 /\ toProcess \in Seq(BlockType)
    <3>1. toProcess \in Seq(BlockType) /\ Len(toProcess) \in Nat
      BY DEF BaseInv, TypeOK
    <3> QED BY <3>1 DEF BaseInv, QueueInv
  <2>4. /\ toProcess' \in Seq(BlockType) /\ Len(toProcess') = 1
        /\ \A i \in DOMAIN toProcess' : toProcess'[i] = wipL2Block
    BY <2>3, PushOne, Zenon DEF PushL2Block
  <2> USE <2>4
  <2>5. /\ fin' \in FinalizerType /\ fin'.cont = fin.cont
        /\ \/ wipL2Block' = NoBlock /\ fin'.pc = fin.cont
           \/ wipL2Block' = wipL2Block /\ fin'.pc = "sync"
    <3>1. fin \in FinalizerType /\ fin.cont \in FinalizerPoints
      BY BaseTypes, Zenon DEF FinalizerType, FinalizerPoints
    <3>2. "sync" \in FinalizerPoints
      BY Zenon DEF FinalizerPoints
    <3> QED BY <3>1, <3>2, FinGoto DEF PushL2Block, Goto
  <2> USE <2>5
  <2>6. TypeOK'
    <3>1. processWG' \in Nat /\ wipL2Block' \in BlockType \cup {NoBlock}
      BY DEF PushL2Block
    <3> QED BY <3>1, Zenon DEF BaseInv, TypeOK
  <2>7. RowsOK(db, sipBatch)' /\ ForcedOK(db)'
    BY Zenon DEF BaseInv
  <2>8. QueueInv'
    BY <2>3 DEF BaseInv, QueueInv, PushL2Block
  <2>9. OrderInv'
    BY Zenon DEF BaseInv, OrderInv
  <2>10. ControlInv'
    <3>1. fin.cont \in {"open", "newBatch", "closeSip"}
      BY BaseTypes, Zenon DEF FinalizerType
    <3> QED BY <3>1, Zenon DEF BaseInv, ControlInv, Quiet, Filling, Closing
  <2> QED BY <2>6, <2>7, <2>8, <2>9, <2>10, Zenon DEF BaseInv

<1>SyncStateRoot. ASSUME SyncStateRoot PROVE BaseInv'
  <2> USE <1>SyncStateRoot
  <2> USE DEF wipVars, queueVars, reorgVars, forcedVars, dbVars
  <2>1. /\ UNCHANGED <<wipBatch, pipBatch, l2BlockCounter, queueVars, reorgVars,
                       forcedVars, dbVars, proc, store, budget>>
        /\ fin.pc = "sync"
    BY Zenon DEF SyncStateRoot
  <2> USE <2>1
  <2>2. /\ batches' \in Batches /\ fin' \in FinalizerType /\ halted' \in HaltReasons
        /\ \/ fin'.pc = "halted" /\ wipL2Block' = wipL2Block
           \/ fin'.pc = fin.cont /\ wipL2Block' = NoBlock
    <3>1. CASE /\ \E why \in {"panic: no sip batch", "sip batch mismatch"} : Halt(why)
               /\ Goto("halted") /\ UNCHANGED <<batches, wipL2Block>>
      <4> USE <3>1
      <4>1. \A why \in {"panic: no sip batch", "sip batch mismatch"} : why \in HaltReasons
        BY Zenon DEF HaltReasons, Ended
      <4>2. halted' \in HaltReasons
        BY <4>1, HaltTyped, Zenon
      <4>3. fin' \in FinalizerType /\ fin'.pc = "halted"
        <5>1. fin' = [fin EXCEPT !.pc = "halted"] /\ "halted" \in FinalizerPoints
          BY Zenon DEF Goto, FinalizerPoints
        <5> QED BY <5>1, BaseTypes, FinGoto, Zenon
      <4> QED BY <4>2, <4>3, BaseTypes, Zenon
    <3>2. CASE /\ batches' = [batches EXCEPT ![wipBatch].imStateRoot = batches[wipBatch].finalStateRoot]
               /\ wipL2Block' = NoBlock /\ Goto(fin.cont) /\ UNCHANGED halted
      <4>1. wipBatch \in BatchNum \ {0} /\ batches \in Batches /\ fin \in FinalizerType
        BY BaseTypes, Zenon
      <4> USE <4>1
      <4>2. batches[wipBatch].finalStateRoot \in Root
        BY Zenon DEF Batches, BatchType
      <4>3. batches' \in Batches
        BY <3>2, <4>2, BatchesIm, Zenon
      <4>4. fin.cont \in FinalizerPoints
        BY Zenon DEF FinalizerType, FinalizerPoints
      <4>5. fin' \in FinalizerType /\ fin'.pc = fin.cont
        BY <3>2, <4>4, FinGoto DEF Goto
      <4> QED BY <3>2, <4>3, <4>5, Zenon DEF BaseInv, TypeOK
    <3> QED BY <3>1, <3>2, Zenon DEF SyncStateRoot
  <2> USE <2>2
  <2>3. /\ TypeOK' /\ RowsOK(db, sipBatch)' /\ ForcedOK(db)' /\ QueueInv' /\ OrderInv'
    <3>1. wipL2Block' \in BlockType \cup {NoBlock}
      BY BaseTypes, Zenon
    <3> QED BY <3>1, Zenon DEF BaseInv, TypeOK, QueueInv, OrderInv
  <2>4. ControlInv'
    <3>1. fin.cont \in {"open", "newBatch", "closeSip"}
      BY BaseTypes, Zenon DEF FinalizerType
    <3> QED BY <3>1, Zenon DEF BaseInv, ControlInv, Quiet, Filling, Closing
  <2> QED BY <2>3, <2>4, Zenon DEF BaseInv

<1>OpenNewWIPL2Block. ASSUME OpenNewWIPL2Block PROVE BaseInv'
  <2> USE <1>OpenNewWIPL2Block
  <2> USE DEF wipVars, queueVars, reorgVars, forcedVars, dbVars
  <2> DEFINE im == Append(batches[wipBatch].imStateRoot, l2BlockCounter')
             block(batch) == [num |-> l2BlockCounter', batch |-> batch, imStateRoot |-> im,
                              empty |-> TRUE, stateRoot |-> <<>>]
  <2>1. /\ UNCHANGED <<wipBatch, pipBatch, queueVars, reorgVars, forcedVars, dbVars,
                       proc, store, halted, budget>>
        /\ fin.pc = "open" /\ l2BlockCounter' = l2BlockCounter + 1
        /\ batches' = [batches EXCEPT ![wipBatch].imStateRoot = im]
        /\ \/ wipL2Block' = block(wipBatch) /\ Goto(fin.ret)
           \/ wipBatch < MaxBatch /\ wipL2Block' = block(NoBatch) /\ Goto("newBatch")
    BY Zenon DEF OpenNewWIPL2Block
  <2>2. wipBatch \in BatchNum \ {0} /\ batches \in Batches /\ fin \in FinalizerType
    BY <2>1, BaseTypes, Zenon
  <2> USE <2>2
  <2>3. l2BlockCounter' \in Nat \ {0}
    BY <2>1 DEF BaseInv, TypeOK
  <2> USE <2>3
  <2>4. im \in Root
    <3>1. batches[wipBatch].imStateRoot \in Root
      BY Zenon DEF Batches, BatchType
    <3> QED BY <3>1 DEF Root
  <2>5. batches' \in Batches
    BY <2>1, <2>4, BatchesIm, Zenon
  <2>6. ASSUME NEW b \in BatchNum, b <= wipBatch
        PROVE  block(b) \in BlockType /\ block(b).batch <= wipBatch /\ block(b) # NoBlock
    <3>1. <<>> \in Root
      BY DEF Root
    <3> HIDE DEF im
    <3>2. block(b) \in BlockType
      BY <2>4, <3>1, Zenon DEF BlockType
    <3>3. block(b).num # 0
      BY Zenon
    <3> QED BY <2>6, <3>2, <3>3, Zenon DEF NoBlock
  <2>7. NoBatch \in BatchNum /\ NoBatch <= wipBatch /\ wipBatch <= wipBatch
    BY FinalizerAssumption DEF NoBatch, BatchNum
  <2>8. /\ wipL2Block' \in BlockType /\ wipL2Block' # NoBlock /\ wipL2Block'.batch <= wipBatch
    <3> HIDE DEF block
    <3> QED BY <2>1, <2>6, <2>7, Zenon
  <2>9. /\ fin' \in FinalizerType
        /\ \/ fin'.pc = fin.ret
           \/ fin'.pc = "newBatch" /\ wipBatch < MaxBatch
    <3>1. fin.ret \in FinalizerPoints /\ "newBatch" \in FinalizerPoints
      BY Zenon DEF FinalizerType, FinalizerPoints
    <3> QED BY <2>1, <3>1, FinGoto DEF Goto
  <2>10. /\ TypeOK' /\ RowsOK(db, sipBatch)' /\ ForcedOK(db)' /\ QueueInv' /\ OrderInv'
    BY <2>1, <2>5, <2>8, <2>9, Zenon DEF BaseInv, TypeOK, QueueInv, OrderInv
  <2>11. ControlInv'
    <3>1. fin.ret \in {"top", "select", "reorgDone"}
      BY Zenon DEF FinalizerType
    <3> QED BY <2>1, <2>8, <2>9, <3>1, Zenon DEF BaseInv, ControlInv, Quiet, Filling, Closing
  <2> QED BY <2>10, <2>11, Zenon DEF BaseInv

<1>CloseAndOpenNewWIPBatch. ASSUME CloseAndOpenNewWIPBatch PROVE BaseInv'
  <2> USE <1>CloseAndOpenNewWIPBatch
  <2> USE DEF wipVars, queueVars, reorgVars, forcedVars, dbVars
  <2>1. /\ UNCHANGED <<pipBatch, l2BlockCounter, queueVars, reorgVars, forcedVars,
                       dbVars, proc, store, budget>>
        /\ fin.pc = "newBatch" /\ wipBatch < MaxBatch
    BY Zenon DEF CloseAndOpenNewWIPBatch, BaseInv, ControlInv, Closing
  <2> USE <2>1
  <2>2. wipBatch \in BatchNum \ {0} /\ batches \in Batches /\ fin \in FinalizerType
    BY BaseTypes, Zenon
  <2> USE <2>2
  <2>3. CASE /\ Halt("empty wip batch") /\ Goto("halted") /\ UNCHANGED <<batches, wipBatch, wipL2Block>>
    <3>1. "empty wip batch" \in HaltReasons /\ "halted" \in FinalizerPoints
      BY Zenon DEF HaltReasons, FinalizerPoints
    <3>2. halted' \in HaltReasons /\ fin' \in FinalizerType /\ fin'.pc = "halted"
      BY <2>3, <3>1, HaltTyped, FinGoto, ZenonT(30) DEF Goto
    <3>3. /\ TypeOK' /\ RowsOK(db, sipBatch)' /\ ForcedOK(db)' /\ QueueInv' /\ OrderInv'
      BY <2>3, <3>2, Zenon DEF BaseInv, TypeOK, QueueInv, OrderInv
    <3>4. ControlInv'
      BY <3>2, Zenon DEF ControlInv, Quiet, Filling, Closing
    <3> QED BY <3>3, <3>4, Zenon DEF BaseInv
  <2>4. CASE /\ wipBatch + 1 = HaltOnBatchNumber
             /\ Goto("haltOnBatch") /\ UNCHANGED <<batches, wipBatch, wipL2Block, halted>>
    <3> USE <2>4
    <3>1. fin' \in FinalizerType /\ fin'.pc = "haltOnBatch"
      <4>1. fin' = [fin EXCEPT !.pc = "haltOnBatch"] /\ "haltOnBatch" \in FinalizerPoints
        BY Zenon DEF Goto, FinalizerPoints
      <4> QED BY <4>1, FinGoto, ZenonT(30)
    <3>2. /\ TypeOK' /\ RowsOK(db, sipBatch)' /\ ForcedOK(db)' /\ QueueInv' /\ OrderInv'
      BY <3>1, Zenon DEF BaseInv, TypeOK, QueueInv, OrderInv
    <3>3. ControlInv'
      BY <3>1, Zenon DEF BaseInv, ControlInv, Quiet, Filling, Closing
    <3> QED BY <3>2, <3>3, Zenon DEF BaseInv
  <2>5. CASE /\ wipBatch' = wipBatch + 1
             /\ batches' = [batches EXCEPT ![wipBatch'] = OpenNewWIPBatch(batches[wipBatch].imStateRoot)]
             /\ IF wipL2Block = NoBlock
                THEN Goto("open") /\ UNCHANGED wipL2Block
                ELSE Goto(fin.ret) /\ wipL2Block' = [wipL2Block EXCEPT !.batch = wipBatch']
             /\ UNCHANGED halted
    <3>1. wipBatch' \in BatchNum \ {0} /\ wipBatch <= wipBatch' /\ wipBatch' <= wipBatch'
      BY <2>5, FinalizerAssumption DEF BatchNum
    <3> USE <3>1
    <3>2. batches' \in Batches
      <4>1. batches[wipBatch].imStateRoot \in Root
        BY Zenon DEF Batches, BatchType
      <4> QED BY <2>5, <4>1, BatchesOpen, OpenTyped, Zenon
    <3>3. CASE wipL2Block = NoBlock
      <4>1. fin' \in FinalizerType /\ fin'.pc = "open" /\ wipL2Block' = NoBlock
        <5>1. fin' = [fin EXCEPT !.pc = "open"] /\ "open" \in FinalizerPoints
          BY <2>5, <3>3, Zenon DEF Goto, FinalizerPoints
        <5> QED BY <5>1, <2>5, <3>3, FinGoto, ZenonT(30)
      <4>2. /\ TypeOK' /\ RowsOK(db, sipBatch)' /\ ForcedOK(db)' /\ QueueInv' /\ OrderInv'
        <5>1. l2BlockCounter' \in Nat /\ halted' \in HaltReasons
              /\ l2BlockReorg' \in BOOLEAN /\ lastL2BlockWasReorg' \in BOOLEAN
          BY <2>5, Zenon DEF BaseInv, TypeOK
        <5> QED BY <3>2, <4>1, <5>1, WipStep, Zenon
      <4>3. ControlInv'
        BY <4>1, FinalizerAssumption DEF ControlInv, Quiet, Filling, Closing, BatchNum
      <4> QED BY <4>2, <4>3, Zenon DEF BaseInv
    <3>4. CASE wipL2Block # NoBlock
      <4>1. wipL2Block \in BlockType /\ wipL2Block' = [wipL2Block EXCEPT !.batch = wipBatch']
        BY <2>5, <3>4, BaseTypes, Zenon
      <4>2. wipL2Block' \in BlockType /\ wipL2Block'.batch = wipBatch' /\ wipL2Block'.num = wipL2Block.num
        BY <4>1, Zenon DEF BlockType
      <4>3. wipL2Block' # NoBlock
        BY <4>1, <4>2, Zenon DEF BlockType, NoBlock
      <4>4. fin' \in FinalizerType /\ fin'.pc \in {"top", "select", "reorgDone"}
        <5>1. fin' = [fin EXCEPT !.pc = fin.ret]
          BY <2>5, <3>4, Zenon DEF Goto
        <5>2. fin.ret \in {"top", "select", "reorgDone"} /\ fin.ret \in FinalizerPoints
          BY Zenon DEF FinalizerType, FinalizerPoints
        <5> QED BY <5>1, <5>2, FinGoto
      <4>5. /\ TypeOK' /\ RowsOK(db, sipBatch)' /\ ForcedOK(db)' /\ QueueInv' /\ OrderInv'
        <5>1. l2BlockCounter' \in Nat /\ halted' \in HaltReasons
              /\ l2BlockReorg' \in BOOLEAN /\ lastL2BlockWasReorg' \in BOOLEAN
          BY <2>5, Zenon DEF BaseInv, TypeOK
        <5> QED BY <3>2, <4>2, <4>4, <5>1, WipStep, Zenon
      <4>6. ControlInv'
        <5>1. wipBatch' >= 1
          BY FinalizerAssumption DEF BatchNum
        <5> QED BY <4>3, <4>4, <5>1, Zenon DEF ControlInv, Quiet, Filling, Closing
      <4> QED BY <4>5, <4>6, Zenon DEF BaseInv
    <3> QED BY <3>3, <3>4, Zenon
  <2> QED BY <2>3, <2>4, <2>5, Zenon DEF CloseAndOpenNewWIPBatch

<1>HaltOnBatch. ASSUME HaltOnBatch PROVE BaseInv'
  <2> USE <1>HaltOnBatch
  <2> USE DEF wipVars, queueVars, reorgVars, forcedVars, dbVars
  <2>1. /\ UNCHANGED <<wipVars, queueVars, reorgVars, forcedVars, proc, store, budget>>
        /\ fin.pc = "haltOnBatch" /\ wipBatch < MaxBatch /\ NoPendingL2Blocks
        /\ wipBatch + 1 = HaltOnBatchNumber
    BY Zenon DEF HaltOnBatch, BaseInv, ControlInv, Closing
  <2> USE <2>1
  <2>2. wipBatch \in BatchNum \ {0} /\ batches \in Batches /\ fin \in FinalizerType
    BY BaseTypes, Zenon
  <2> USE <2>2
  <2>3. CASE Halt("sip batch not closable") /\ Goto("halted") /\ UNCHANGED dbVars
    <3>1. "sip batch not closable" \in HaltReasons /\ "halted" \in FinalizerPoints
      BY Zenon DEF HaltReasons, FinalizerPoints
    <3>2. halted' \in HaltReasons /\ fin' \in FinalizerType /\ fin'.pc = "halted"
      BY <2>3, <3>1, HaltTyped, FinGoto, ZenonT(30) DEF Goto
    <3>3. /\ TypeOK' /\ RowsOK(db, sipBatch)' /\ ForcedOK(db)' /\ QueueInv' /\ OrderInv'
      BY <2>3, <3>2, Zenon DEF BaseInv, TypeOK, QueueInv, OrderInv
    <3>4. ControlInv'
      BY <3>2, Zenon DEF ControlInv, Quiet, Filling, Closing
    <3> QED BY <3>3, <3>4, Zenon DEF BaseInv
  <2>4. CASE /\ SIPBatchClosable /\ FinalizeSIPBatch /\ sipBatch' = NoBatch
             /\ Goto("keepHalting") /\ UNCHANGED halted
    <3> USE <2>4
    <3>1. sipBatch # NoBatch /\ RowsOK(db, sipBatch) /\ ForcedOK(db)
      BY Zenon DEF SIPBatchClosable, BaseInv
    <3> USE <3>1
    <3>2. sipBatch = Len(db) /\ sipBatch <= wipBatch /\ Len(db) \in Nat
      BY DEF RowsOK, BaseInv, OrderInv
    <3>3. Len(db) < Top /\ Len(db) < HaltOnBatchNumber
      BY <3>2, FinalizerAssumption DEF Top, BatchNum
    <3>4. /\ RowsOK(db', NoBatch) /\ ForcedOK(db') /\ Len(db') = Len(db) /\ ~db'[Len(db')].wip
      BY <3>3, DbClose, Zenon DEF FinalizeSIPBatch
    <3> USE <3>4
    <3>5. fin' \in FinalizerType /\ fin'.pc = "keepHalting"
      <4>1. fin' = [fin EXCEPT !.pc = "keepHalting"] /\ "keepHalting" \in FinalizerPoints
        BY Zenon DEF Goto, FinalizerPoints
      <4> QED BY <4>1, FinGoto
    <3>6. TypeOK'
      <4>1. checks' \subseteq CheckType
        BY CheckTyped, Zenon DEF FinalizeSIPBatch, BaseInv, TypeOK
      <4>2. sipBatch' \in BatchNum /\ db' \in Seq(RowType)
        BY FinalizerAssumption DEF NoBatch, BatchNum, RowsOK
      <4> QED BY <3>5, <4>1, <4>2, Zenon DEF BaseInv, TypeOK
    <3>7. RowsOK(db, sipBatch)' /\ ForcedOK(db)'
      BY Zenon
    <3>8. QueueInv' /\ OrderInv'
      BY FinalizerAssumption DEF BaseInv, QueueInv, OrderInv, NoBatch, BatchNum
    <3>9. ControlInv'
      BY <3>3, <3>5, FinalizerAssumption DEF ControlInv, Quiet, Filling, Closing,
         NoPendingL2Blocks, BatchNum
    <3> QED BY <3>6, <3>7, <3>8, <3>9, Zenon DEF BaseInv
  <2> QED BY <2>3, <2>4, Zenon DEF HaltOnBatch

<1>Start. ASSUME Start PROVE BaseInv'
  <2> USE <1>Start
  <2>1. NoPendingL2Blocks /\ fin.pc = "start" /\ UNCHANGED <<db, checks, halted, budget>>
        /\ UNCHANGED <<l2BlockCounter, queueVars, reorgVars, forcedVars, proc, store>>
    BY Zenon DEF Start, BaseInv, ControlInv, Quiet
  <2> USE <2>1
  <2>2. RowsOK(db', NoBatch) /\ ForcedOK(db') /\ InitWIPBatch(db', "top")
    BY RowsNoSip, Zenon DEF BaseInv, Start
  <2>3. checks' \subseteq CheckType /\ halted' \in HaltReasons /\ budget' \in Budgets
    BY Zenon DEF BaseInv, TypeOK
  <2> QED BY <2>2, <2>3, InitBase, Zenon

<1>ReorgDone. ASSUME ReorgDone PROVE BaseInv'
  <2> USE <1>ReorgDone
  <2> USE DEF wipVars, queueVars, reorgVars, forcedVars, dbVars
  <2>1. /\ UNCHANGED <<wipVars, queueVars, lastL2BlockWasReorg, forcedVars, dbVars,
                       proc, store, halted, budget>>
        /\ fin.pc = "reorgDone" /\ l2BlockReorg' = FALSE
    BY Zenon DEF ReorgDone
  <2>2. fin' \in FinalizerType /\ fin'.pc = "timer"
    <3>1. fin' = [fin EXCEPT !.pc = "timer"] /\ "timer" \in FinalizerPoints
      BY Zenon DEF ReorgDone, Goto, FinalizerPoints
    <3> QED BY <3>1, BaseTypes, FinGoto, ZenonT(30)
  <2>3. /\ TypeOK' /\ RowsOK(db, sipBatch)' /\ ForcedOK(db)' /\ QueueInv' /\ OrderInv'
    BY <2>1, <2>2, Zenon DEF BaseInv, TypeOK, QueueInv, OrderInv
  <2>4. ControlInv'
    BY <2>1, <2>2, Zenon DEF BaseInv, ControlInv, Quiet, Filling, Closing
  <2> QED BY <2>3, <2>4, Zenon DEF BaseInv

<1>ProcessL2BlockReorg. ASSUME ProcessL2BlockReorg PROVE BaseInv'
  <2> USE <1>ProcessL2BlockReorg
  <2> USE DEF wipVars, queueVars, reorgVars, forcedVars, dbVars
  <2>1. /\ UNCHANGED <<l2BlockCounter, queueVars, reorgVars, forcedVars, proc, store>>
        /\ fin.pc = "reorg" /\ NoPendingL2Blocks
    BY Zenon DEF ProcessL2BlockReorg
  <2> USE <2>1
  <2>2. /\ wipBatch \in BatchNum \ {0} /\ batches \in Batches /\ fin \in FinalizerType
        /\ checks \subseteq CheckType /\ halted \in HaltReasons /\ budget \in Budgets
    BY BaseTypes, Zenon DEF BaseInv, TypeOK
  <2> USE <2>2
  <2>3. CASE InitWIPBatch(db, "reorgDone") /\ UNCHANGED <<db, checks, halted, budget>>
    <3>1. RowsOK(db', NoBatch) /\ ForcedOK(db') /\ InitWIPBatch(db', "reorgDone")
      BY <2>3, RowsNoSip, Zenon DEF BaseInv
    <3> QED BY <2>3, <3>1, InitBase, Zenon
  <2>4. CASE /\ sipBatch # NoBatch /\ sipBatch # wipBatch /\ FinalizeSIPBatch
             /\ InitWIPBatch(db', "reorgDone") /\ UNCHANGED <<halted, budget>>
    <3> USE <2>4
    <3>1. sipBatch = Len(db) /\ sipBatch <= wipBatch /\ Len(db) \in Nat
      BY DEF RowsOK, BaseInv, OrderInv
    <3>2. Len(db) < Top
      BY <3>1, FinalizerAssumption DEF Top, BatchNum
    <3>3. RowsOK(db', NoBatch) /\ ForcedOK(db')
      BY <3>2, DbClose, Zenon DEF FinalizeSIPBatch, BaseInv
    <3>4. checks' \subseteq CheckType
      BY CheckTyped, Zenon DEF FinalizeSIPBatch
    <3> QED BY <3>3, <3>4, InitBase, Zenon
  <2>5. CASE /\ Halt("sip batch not closable") /\ Goto("halted") /\ UNCHANGED budget
             /\ UNCHANGED <<dbVars, wipBatch, pipBatch, wipL2Block, batches>>
    <3>1. "sip batch not closable" \in HaltReasons /\ "halted" \in FinalizerPoints
      BY Zenon DEF HaltReasons, FinalizerPoints
    <3>2. halted' \in HaltReasons /\ fin' \in FinalizerType /\ fin'.pc = "halted"
      BY <2>5, <3>1, HaltTyped, FinGoto, ZenonT(30) DEF Goto
    <3>3. /\ TypeOK' /\ RowsOK(db, sipBatch)' /\ ForcedOK(db)' /\ QueueInv' /\ OrderInv'
      BY <2>5, <3>2, Zenon DEF BaseInv, TypeOK, QueueInv, OrderInv
    <3>4. ControlInv'
      BY <3>2, Zenon DEF ControlInv, Quiet, Filling, Closing
    <3> QED BY <3>3, <3>4, Zenon DEF BaseInv
  <2>6. CASE /\ sipBatch # NoBatch /\ budget.dbErrors > 0
             /\ budget' = [budget EXCEPT !.dbErrors = @ - 1]
             /\ checks' = checks \cup {CheckOf(sipBatch)}
             /\ sipBatch' = NoBatch /\ Goto("timer")
             /\ UNCHANGED <<db, halted, wipBatch, pipBatch, wipL2Block, batches>>
    <3>1. fin' \in FinalizerType /\ fin'.pc = "timer"
      <4>1. fin' = [fin EXCEPT !.pc = "timer"] /\ "timer" \in FinalizerPoints
        BY <2>6, Zenon DEF Goto, FinalizerPoints
      <4> QED BY <4>1, FinGoto, ZenonT(30)
    <3>2. checks' \subseteq CheckType
      BY <2>6, CheckTyped, Zenon
    <3>3. budget' \in Budgets
      BY <2>6 DEF Budgets
    <3>4. NoBatch \in BatchNum /\ NoBatch <= wipBatch
      BY FinalizerAssumption DEF NoBatch, BatchNum
    <3>5. TypeOK'
      BY <2>6, <3>1, <3>2, <3>3, <3>4, Zenon DEF BaseInv, TypeOK
    <3>6. RowsOK(db, sipBatch)' /\ ForcedOK(db)'
      BY <2>6, RowsNoSip, Zenon DEF BaseInv
    <3>7. QueueInv' /\ OrderInv'
      BY <2>6, <3>4, Zenon DEF BaseInv, QueueInv, OrderInv
    <3>8. ControlInv'
      BY <2>6, <3>1, Zenon DEF BaseInv, ControlInv, Quiet, Filling, Closing
    <3> QED BY <3>5, <3>6, <3>7, <3>8, Zenon DEF BaseInv
  <2> QED BY <2>3, <2>4, <2>5, <2>6, Zenon DEF ProcessL2BlockReorg

<1>CheckForcedBatches. ASSUME CheckForcedBatches PROVE BaseInv'
  <2> USE <1>CheckForcedBatches
  <2> USE FinalizerAssumption DEF wipVars, queueVars, reorgVars, forcedVars, dbVars
  <2> DEFINE last == IF lastForcedBatchNum = 0 THEN LastTrustedForced(db) ELSE lastForcedBatchNum
  <2>1. /\ UNCHANGED <<wipVars, queueVars, reorgVars, dbVars, fin, proc, store, halted, budget>>
        /\ deadline' = TRUE
    BY Zenon DEF CheckForcedBatches
  <2> USE <2>1
  <2>2. PICK k \in (last + 1) .. MaxForced :
           /\ nextForcedBatches' = nextForcedBatches \o [i \in 1 .. (k - last) |-> last + i]
           /\ lastForcedBatchNum' = k
    BY Zenon DEF CheckForcedBatches
  <2>3. last \in 0 .. MaxForced
    BY LastForced, Zenon DEF BaseInv, TypeOK
  <2> HIDE DEF last
  <2>4. [i \in 1 .. (k - last) |-> last + i] \in Seq(1 .. MaxForced)
    <3>1. k - last \in Nat /\ \A i \in 1 .. (k - last) : last + i \in 1 .. MaxForced
      BY <2>3
    <3> QED BY <3>1
  <2>5. nextForcedBatches' \in Seq(1 .. MaxForced) /\ lastForcedBatchNum' \in 0 .. MaxForced
    <3>1. nextForcedBatches \in Seq(1 .. MaxForced)
      BY Zenon DEF BaseInv, TypeOK
    <3>2. lastForcedBatchNum' \in 0 .. MaxForced
      BY <2>2, <2>3
    <3> QED BY <2>2, <2>4, <3>1, <3>2, JoinSeq, Zenon
  <2>6. TypeOK'
    BY <2>5, Zenon DEF BaseInv, TypeOK
  <2>7. RowsOK(db, sipBatch)' /\ ForcedOK(db)' /\ QueueInv' /\ OrderInv'
    BY Zenon DEF BaseInv, QueueInv, OrderInv
  <2>8. ControlInv'
    BY Zenon DEF BaseInv, ControlInv, Closing, NoPendingL2Blocks
  <2> QED BY <2>6, <2>7, <2>8, Zenon DEF BaseInv

<1>CloseForForcedBatches. ASSUME CloseForForcedBatches PROVE BaseInv'
  <2> USE <1>CloseForForcedBatches
  <2> USE DEF wipVars, queueVars, reorgVars, forcedVars, dbVars
  <2>1. /\ UNCHANGED <<wipBatch, pipBatch, wipL2Block, l2BlockCounter, queueVars,
                       reorgVars, forcedVars, dbVars, proc, store, budget>>
        /\ fin.pc = "newBatch" /\ wipBatch < MaxBatch
    BY Zenon DEF CloseForForcedBatches, BaseInv, ControlInv, Closing
  <2> USE <2>1
  <2>2. wipBatch \in BatchNum \ {0} /\ batches \in Batches /\ fin \in FinalizerType
    BY BaseTypes, Zenon
  <2> USE <2>2
  <2>3. CASE wipL2Block = NoBlock
    <3>1. Halt("panic: no wip L2 block") /\ Goto("halted") /\ UNCHANGED batches
      BY <2>3, Zenon DEF CloseForForcedBatches, CloseWIPL2Block
    <3>2. "panic: no wip L2 block" \in HaltReasons /\ "halted" \in FinalizerPoints
      BY Zenon DEF HaltReasons, Ended, FinalizerPoints
    <3>3. halted' \in HaltReasons /\ fin' \in FinalizerType /\ fin'.pc = "halted"
      BY <3>1, <3>2, HaltTyped, FinGoto, ZenonT(30) DEF Goto
    <3>4. /\ TypeOK' /\ RowsOK(db, sipBatch)' /\ ForcedOK(db)' /\ QueueInv' /\ OrderInv'
      BY <3>1, <3>3, Zenon DEF BaseInv, TypeOK, QueueInv, OrderInv
    <3>5. ControlInv'
      BY <3>3, Zenon DEF ControlInv, Quiet, Filling, Closing
    <3> QED BY <3>4, <3>5, Zenon DEF BaseInv
  <2>4. CASE wipL2Block # NoBlock
    <3>1. /\ batches' = [batches EXCEPT ![wipBatch].countOfL2Blocks = @ + 1]
          /\ fin' = [fin EXCEPT !.pc = "push", !.ret = fin.ret, !.cont = "closeSip"]
          /\ UNCHANGED halted
      BY <2>4, Zenon DEF CloseForForcedBatches, CloseWIPL2Block
    <3>2. batches' \in Batches
      BY <3>1, BatchesCount, Zenon
    <3>3. fin' \in FinalizerType /\ fin'.pc = "push"
      BY <3>1, Zenon DEF FinalizerType, FinalizerPoints
    <3>4. /\ TypeOK' /\ RowsOK(db, sipBatch)' /\ ForcedOK(db)' /\ QueueInv' /\ OrderInv'
      BY <3>1, <3>2, <3>3, Zenon DEF BaseInv, TypeOK, QueueInv, OrderInv
    <3>5. ControlInv'
      BY <2>4, <3>3, Zenon DEF BaseInv, ControlInv, Quiet, Filling, Closing
    <3> QED BY <3>4, <3>5, Zenon DEF BaseInv
  <2> QED BY <2>3, <2>4, Zenon

<1>StartForcedBatches. ASSUME StartForcedBatches PROVE BaseInv'
  <2> USE <1>StartForcedBatches
  <2> USE DEF wipVars, queueVars, reorgVars, forcedVars, dbVars
  <2>1. /\ UNCHANGED <<wipVars, queueVars, reorgVars, nextForcedBatches, lastForcedBatchNum,
                       proc, store, budget>>
        /\ fin.pc = "closeSip" /\ wipBatch < MaxBatch /\ NoPendingL2Blocks
    BY Zenon DEF StartForcedBatches, BaseInv, ControlInv, Closing
  <2> USE <2>1
  <2>2. wipBatch \in BatchNum \ {0} /\ batches \in Batches /\ fin \in FinalizerType
    BY BaseTypes, Zenon
  <2> USE <2>2
  <2>3. CASE /\ Halt("panic: no sip batch") /\ Goto("halted") /\ UNCHANGED <<dbVars, deadline>>
    <3>1. "panic: no sip batch" \in HaltReasons /\ "halted" \in FinalizerPoints
      BY Zenon DEF HaltReasons, Ended, FinalizerPoints
    <3>2. halted' \in HaltReasons /\ fin' \in FinalizerType /\ fin'.pc = "halted"
      BY <2>3, <3>1, HaltTyped, FinGoto, ZenonT(30) DEF Goto
    <3>3. /\ TypeOK' /\ RowsOK(db, sipBatch)' /\ ForcedOK(db)' /\ QueueInv' /\ OrderInv'
      BY <2>3, <3>2, Zenon DEF BaseInv, TypeOK, QueueInv, OrderInv
    <3>4. ControlInv'
      BY <3>2, Zenon DEF ControlInv, Quiet, Filling, Closing
    <3> QED BY <3>3, <3>4, Zenon DEF BaseInv
  <2>4. CASE /\ SIPBatchClosable /\ FinalizeSIPBatch /\ sipBatch' = NoBatch /\ UNCHANGED halted
             /\ \/ wipBatch + 1 = HaltOnBatchNumber /\ Goto("haltOnBatch") /\ UNCHANGED deadline
                \/ /\ fin' = [fin EXCEPT !.pc = "forced", !.i = 1, !.num = wipBatch,
                                         !.root = batches[sipBatch].finalStateRoot]
                   /\ deadline' = FALSE
    <3>1. sipBatch # NoBatch /\ RowsOK(db, sipBatch) /\ ForcedOK(db) /\ sipBatch \in BatchNum \ {0}
      BY <2>4, Zenon DEF SIPBatchClosable, BaseInv, TypeOK, NoBatch
    <3> USE <3>1
    <3>2. sipBatch = Len(db) /\ sipBatch <= wipBatch /\ Len(db) \in Nat
      BY DEF RowsOK, BaseInv, OrderInv
    <3>3. Len(db) < Top
      BY <3>2, FinalizerAssumption DEF Top, BatchNum
    <3>4. /\ RowsOK(db', NoBatch) /\ ForcedOK(db') /\ Len(db') = Len(db) /\ ~db'[Len(db')].wip
      BY <2>4, <3>3, DbClose, Zenon DEF FinalizeSIPBatch
    <3> USE <3>4
    <3>5. /\ fin' \in FinalizerType /\ deadline' \in BOOLEAN
          /\ \/ fin'.pc = "haltOnBatch" /\ wipBatch + 1 = HaltOnBatchNumber
             \/ fin'.pc = "forced" /\ fin'.i = 1 /\ fin'.num = wipBatch
      <4>1. CASE wipBatch + 1 = HaltOnBatchNumber /\ Goto("haltOnBatch") /\ UNCHANGED deadline
        <5>1. fin' = [fin EXCEPT !.pc = "haltOnBatch"] /\ "haltOnBatch" \in FinalizerPoints
          BY <4>1, Zenon DEF Goto, FinalizerPoints
        <5> QED BY <4>1, <5>1, FinGoto DEF BaseInv, TypeOK
      <4>2. CASE /\ fin' = [fin EXCEPT !.pc = "forced", !.i = 1, !.num = wipBatch,
                                       !.root = batches[sipBatch].finalStateRoot]
                 /\ deadline' = FALSE
        <5>1. batches[sipBatch].finalStateRoot \in Root
          BY Zenon DEF Batches, BatchType
        <5> QED BY <4>2, <5>1, Zenon DEF FinalizerType, FinalizerPoints
      <4> QED BY <4>1, <4>2, <2>4, Zenon
    <3>6. TypeOK'
      <4>1. checks' \subseteq CheckType
        BY <2>4, CheckTyped, Zenon DEF FinalizeSIPBatch, BaseInv, TypeOK
      <4>2. sipBatch' \in BatchNum /\ db' \in Seq(RowType)
        BY <2>4, FinalizerAssumption DEF NoBatch, BatchNum, RowsOK
      <4> QED BY <2>4, <3>5, <4>1, <4>2, Zenon DEF BaseInv, TypeOK
    <3>7. RowsOK(db, sipBatch)' /\ ForcedOK(db)'
      BY <2>4, Zenon
    <3>8. QueueInv' /\ OrderInv'
      BY <2>4, FinalizerAssumption DEF BaseInv, QueueInv, OrderInv, NoBatch, BatchNum
    <3>9. ControlInv'
      <4>1. LastTrustedForced(db') \in Nat
        BY LastForced, FinalizerAssumption
      <4>2. wipBatch >= 1 /\ wipBatch <= wipBatch /\ wipBatch < MaxBatch + LastTrustedForced(db')
        BY <4>1, FinalizerAssumption DEF BatchNum
      <4> QED BY <2>4, <3>5, <4>2 DEF ControlInv, Quiet, Filling, Closing,
                 NoPendingL2Blocks
    <3> QED BY <3>6, <3>7, <3>8, <3>9, Zenon DEF BaseInv
  <2> QED BY <2>3, <2>4, Zenon DEF StartForcedBatches

<1>ProcessForcedBatch. ASSUME ProcessForcedBatch PROVE BaseInv'
  <2> USE <1>ProcessForcedBatch
  <2> USE FinalizerAssumption DEF wipVars, queueVars, reorgVars, forcedVars
  <2> DEFINE next == LastTrustedForced(db) + 1
             root == Append(fin.root, -next)
  <2>1. /\ UNCHANGED <<wipVars, queueVars, reorgVars, forcedVars, sipBatch, checks,
                       proc, store, halted>>
        /\ fin.pc = "forced" /\ NoPendingL2Blocks /\ sipBatch = NoBatch
        /\ fin.i >= 1 /\ wipBatch <= fin.num /\ fin.num < MaxBatch + LastTrustedForced(db)
        /\ fin.i <= Len(nextForcedBatches)
    BY Zenon DEF ProcessForcedBatch, BaseInv, ControlInv, Quiet
  <2>2. wipBatch \in BatchNum \ {0} /\ fin \in FinalizerType /\ fin.num \in BatchNum /\ fin.i \in Nat
        /\ fin.root \in Root
    BY <2>1, BaseTypes, Zenon DEF FinalizerType
  <2> USE <2>2
  <2>3. LastTrustedForced(db) \in 0 .. MaxForced /\ ForcedOK(db) /\ RowsOK(db, NoBatch)
    BY <2>1, LastForced, Zenon DEF BaseInv
  <2> USE <2>3
  <2>4. CASE fin' = [fin EXCEPT !.i = @ + 1] /\ UNCHANGED <<db, budget>>
    <3>1. fin' \in FinalizerType /\ fin'.pc = "forced" /\ fin'.i >= 1 /\ fin'.num = fin.num
      BY <2>1, <2>4, SMTT(30) DEF FinalizerType
    <3>2. /\ TypeOK' /\ RowsOK(db, sipBatch)' /\ ForcedOK(db)' /\ QueueInv' /\ OrderInv'
      BY <2>1, <2>4, <3>1, Zenon DEF BaseInv, TypeOK, QueueInv, OrderInv
    <3>3. ControlInv'
      BY <2>1, <2>4, <3>1, Zenon DEF BaseInv, ControlInv, Quiet, Filling, Closing, NoPendingL2Blocks
    <3> QED BY <3>2, <3>3, Zenon DEF BaseInv
  <2>5. CASE /\ ~(nextForcedBatches[fin.i] < next)
             /\ MayOpen(db, fin.num + 1)
             /\ db' = Append(db, Row(fin.num + 1, root, <<-next>>, FALSE, TRUE))
             /\ fin' = [fin EXCEPT !.i = @ + 1, !.num = @ + 1, !.root = root]
             /\ UNCHANGED budget
    <3> DEFINE row == Row(fin.num + 1, root, <<-next>>, FALSE, TRUE)
    <3>1. nextForcedBatches[fin.i] \in 1 .. MaxForced
      BY <2>1, SMTT(30) DEF BaseInv, TypeOK
    <3>2. next <= MaxForced /\ next \in Nat
      BY <2>5, <3>1, SMTT(30)
    <3>3. /\ db \in Seq(RowType) /\ Len(db) \in Nat /\ Len(db) >= 1 /\ ~db[Len(db)].wip
          /\ fin.num + 1 = Len(db) + 1
      <4>1. db \in Seq(RowType) /\ Len(db) >= 1
        BY Zenon DEF RowsOK
      <4>2. Len(db) \in Nat /\ Len(db) \in 1 .. Len(db)
        BY <4>1
      <4>3. db[Len(db)].num = Len(db)
        BY <4>2, Zenon DEF RowsOK
      <4>4. db[Len(db)].num + 1 = fin.num + 1 /\ ~db[Len(db)].wip
        BY <2>5, Zenon DEF MayOpen
      <4> QED BY <4>1, <4>2, <4>3, <4>4, Zenon
    <3> USE <3>3
    <3>4. fin.num + 1 \in BatchNum /\ Len(db) + 1 < Top
      BY <2>1 DEF BatchNum, Top
    <3> USE <3>4
    <3>5. root \in Root /\ <<-next>> \in Root
      BY <3>2 DEF Root
    <3> HIDE DEF root
    <3>6. row \in RowType /\ row.num = Len(db) + 1 /\ ~row.wip /\ row.blocks = <<-next>>
      <4> HIDE DEF next
      <4> QED BY <3>5, Zenon DEF Row, RowType
    <3> HIDE DEF row
    <3>7. /\ RowsOK(db', NoBatch) /\ ForcedOK(db') /\ LastTrustedForced(db') = next
          /\ Len(db') = Len(db) + 1
      <4>1. db' = Append(db, row)
        BY <2>5, Zenon DEF row
      <4> QED BY <3>2, <3>6, <4>1, DbForced, Zenon
    <3> USE <3>7
    <3>8. /\ fin' \in FinalizerType /\ fin'.pc = "forced" /\ fin'.i >= 1 /\ fin'.num = fin.num + 1
      <4>1. fin' = [fin EXCEPT !.i = @ + 1, !.num = @ + 1, !.root = root]
        BY <2>5, Zenon
      <4>2. fin.i + 1 \in Nat /\ fin.i + 1 >= 1
        OBVIOUS
      <4> QED BY <2>1, <3>5, <4>1, <4>2, Zenon DEF FinalizerType
    <3> USE <3>8
    <3>9. /\ TypeOK' /\ RowsOK(db, sipBatch)' /\ ForcedOK(db)' /\ QueueInv' /\ OrderInv'
      <4>1. db' \in Seq(RowType)
        BY Zenon DEF RowsOK
      <4> QED BY <2>1, <2>5, <4>1, Zenon DEF BaseInv, TypeOK, QueueInv, OrderInv
    <3>10. ControlInv'
      <4>1. wipBatch <= fin'.num /\ fin'.num < MaxBatch + LastTrustedForced(db')
        BY <2>1, SMTT(30) DEF BatchNum
      <4>2. wipBatch >= 1
        BY DEF BatchNum
      <4> QED BY <2>1, <4>1, <4>2, Zenon DEF ControlInv, Quiet, Filling, Closing,
                 NoPendingL2Blocks
    <3> QED BY <3>9, <3>10, Zenon DEF BaseInv
  <2>6. CASE /\ Goto("forcedFailed") /\ UNCHANGED db
             /\ UNCHANGED budget \/ (budget.dbErrors > 0 /\ budget' = [budget EXCEPT !.dbErrors = @ - 1])
    <3>1. fin' \in FinalizerType /\ fin'.pc = "forcedFailed" /\ fin'.i = fin.i /\ fin'.num = fin.num
      <4>1. fin' = [fin EXCEPT !.pc = "forcedFailed"] /\ "forcedFailed" \in FinalizerPoints
        BY <2>6, Zenon DEF Goto, FinalizerPoints
      <4> QED BY <4>1, FinGoto
    <3>2. budget' \in Budgets
      <4>1. budget \in Budgets
        BY Zenon DEF BaseInv, TypeOK
      <4> QED BY <2>6, <4>1 DEF Budgets
    <3>3. /\ TypeOK' /\ RowsOK(db, sipBatch)' /\ ForcedOK(db)' /\ QueueInv' /\ OrderInv'
      BY <2>1, <2>6, <3>1, <3>2, Zenon DEF BaseInv, TypeOK, QueueInv, OrderInv
    <3>4. ControlInv'
      BY <2>1, <2>6, <3>1, Zenon DEF BaseInv, ControlInv, Quiet, Filling, Closing, NoPendingL2Blocks
    <3> QED BY <3>3, <3>4, Zenon DEF BaseInv
  <2> QED BY <2>4, <2>5, <2>6, Zenon DEF ProcessForcedBatch

<1>ForcedBatchesDone. ASSUME ForcedBatchesDone PROVE BaseInv'
  <2> USE <1>ForcedBatchesDone
  <2> USE FinalizerAssumption DEF wipVars, queueVars, reorgVars, forcedVars, dbVars
  <2>1. /\ UNCHANGED <<pipBatch, wipL2Block, l2BlockCounter, queueVars, reorgVars, dbVars,
                       lastForcedBatchNum, deadline, proc, store, halted, budget>>
        /\ wipBatch' = fin.num + 1
        /\ batches' = [batches EXCEPT ![wipBatch'] = OpenNewWIPBatch(fin.root)]
        /\ fin' = [fin EXCEPT !.pc = "open", !.i = 0, !.num = 0, !.root = <<>>]
        /\ wipBatch <= fin.num /\ fin.num < MaxBatch + LastTrustedForced(db)
        /\ fin.pc \in {"forced", "forcedFailed"}
    BY Zenon DEF ForcedBatchesDone, BaseInv, ControlInv
  <2>2. /\ wipBatch \in BatchNum \ {0} /\ fin \in FinalizerType /\ fin.num \in BatchNum
        /\ fin.root \in Root /\ batches \in Batches
    BY <2>1, BaseTypes, Zenon DEF FinalizerType
  <2> USE <2>2
  <2>3. wipBatch' \in BatchNum \ {0} /\ wipBatch <= wipBatch' /\ wipBatch' >= 1
    <3>1. LastTrustedForced(db) \in 0 .. MaxForced
      BY LastForced, Zenon DEF BaseInv
    <3> QED BY <2>1, <3>1 DEF BatchNum
  <2> USE <2>3
  <2>4. batches' \in Batches
    BY <2>1, BatchesOpen, OpenTyped, Zenon
  <2>5. fin' \in FinalizerType /\ fin'.pc = "open"
    <3>1. <<>> \in Root /\ 0 \in BatchNum
      BY DEF Root, BatchNum
    <3> QED BY <2>1, <3>1, Zenon DEF FinalizerType, FinalizerPoints
  <2>6. nextForcedBatches' \in Seq(1 .. MaxForced)
    <3>1. <<>> \in Seq(1 .. MaxForced)
      BY EmptySeq, Zenon
    <3>2. nextForcedBatches \in Seq(1 .. MaxForced)
      BY Zenon DEF BaseInv, TypeOK
    <3> QED BY <3>1, <3>2, Zenon DEF ForcedBatchesDone
  <2>7. TypeOK'
    BY <2>1, <2>4, <2>5, <2>6, Zenon DEF BaseInv, TypeOK
  <2>8. RowsOK(db, sipBatch)' /\ ForcedOK(db)' /\ QueueInv'
    BY <2>1, Zenon DEF BaseInv, QueueInv
  <2>9. OrderInv'
    <3>1. ASSUME NEW n \in BatchNum, n <= wipBatch PROVE n <= wipBatch'
      BY <3>1 DEF BatchNum
    <3>2. \A i \in DOMAIN toProcess : toProcess[i].batch \in BatchNum
      BY BlocksTyped, Zenon DEF BaseInv, TypeOK
    <3>3. \A i \in DOMAIN toStore : toStore[i].batch \in BatchNum
      BY BlocksTyped, Zenon DEF BaseInv, TypeOK
    <3>4. proc.pc = "toStore" => proc.block.batch \in BatchNum
      BY Zenon DEF BaseInv, QueueInv, BlockType
    <3>5. wipL2Block # NoBlock => wipL2Block.batch \in BatchNum
      BY Zenon DEF BaseInv, TypeOK, BlockType
    <3>6. sipBatch \in BatchNum
      BY Zenon DEF BaseInv, TypeOK
    <3> QED BY <2>1, <3>1, <3>2, <3>3, <3>4, <3>5, <3>6, Zenon DEF BaseInv, OrderInv
  <2>10. ControlInv'
    BY <2>5, Zenon DEF ControlInv, Quiet, Filling, Closing
  <2> QED BY <2>7, <2>8, <2>9, <2>10, Zenon DEF BaseInv

<1>DiscardL2Block. ASSUME DiscardL2Block PROVE BaseInv'
  <2> USE <1>DiscardL2Block
  <2> USE DEF wipVars, queueVars, reorgVars, forcedVars, dbVars
  <2>1. /\ UNCHANGED <<wipVars, toStore, storeWG, reorgVars, forcedVars, dbVars,
                       fin, proc, store, halted, budget>>
        /\ proc.pc = "idle" /\ toProcess # <<>>
        /\ toProcess' = Tail(toProcess) /\ processWG' = processWG - 1
    BY Zenon DEF DiscardL2Block
  <2> USE <2>1
  <2>2. toProcess \in Seq(BlockType) /\ Len(toProcess) <= 1 /\ processWG = Len(toProcess)
    <3>1. toProcess \in Seq(BlockType) /\ Len(toProcess) \in Nat
      BY DEF BaseInv, TypeOK
    <3> QED BY <3>1 DEF BaseInv, QueueInv
  <2>3. /\ toProcess' \in Seq(BlockType) /\ Len(toProcess') = 0 /\ processWG = 1
        /\ DOMAIN toProcess' = {} /\ processWG' = 0
    BY <2>2, PopOne, SMTT(30)
  <2> USE <2>3
  <2>4. TypeOK'
    BY DEF BaseInv, TypeOK
  <2>5. RowsOK(db, sipBatch)' /\ ForcedOK(db)' /\ QueueInv' /\ OrderInv'
    BY DEF BaseInv, QueueInv, OrderInv
  <2>6. ControlInv'
    BY Zenon DEF BaseInv, ControlInv, Closing, NoPendingL2Blocks
  <2> QED BY <2>4, <2>5, <2>6, Zenon DEF BaseInv

<1>ProcessL2Block. ASSUME ProcessL2Block PROVE BaseInv'
  <2> USE <1>ProcessL2Block
  <2> USE DEF wipVars, queueVars, reorgVars, forcedVars, dbVars
  <2> DEFINE block == Head(toProcess)
             b == block.batch
             root == Append(PropagateRoot(b)[b].finalStateRoot, block.num)
  <2>1. /\ UNCHANGED <<wipBatch, wipL2Block, l2BlockCounter, processWG, toStore, storeWG,
                       forcedVars, dbVars, fin, store>>
        /\ proc.pc = "idle" /\ toProcess # <<>> /\ toProcess' = Tail(toProcess)
    BY Zenon DEF ProcessL2Block, MayProcess
  <2> USE <2>1
  <2>2. toProcess \in Seq(BlockType) /\ Len(toProcess) <= 1 /\ processWG = Len(toProcess)
        /\ proc \in ProcessorType
    <3>1. toProcess \in Seq(BlockType) /\ Len(toProcess) \in Nat /\ proc \in ProcessorType
      BY DEF BaseInv, TypeOK
    <3> QED BY <3>1 DEF BaseInv, QueueInv
  <2> USE <2>2
  <2>3. /\ toProcess' \in Seq(BlockType) /\ Len(toProcess') = 0 /\ processWG = 1
        /\ DOMAIN toProcess' = {} /\ block \in BlockType /\ block = toProcess[1]
        /\ 1 \in DOMAIN toProcess
    BY PopOne, Zenon
  <2> USE <2>3
  <2>4. b \in BatchNum /\ b <= wipBatch /\ block.num \in Nat \ {0}
    BY Zenon DEF BlockType, BaseInv, OrderInv
  <2> USE <2>4
  <2>5. /\ batches' \in Batches /\ pipBatch' \in BatchNum /\ halted' \in HaltReasons
        /\ l2BlockReorg' \in BOOLEAN /\ lastL2BlockWasReorg' \in BOOLEAN /\ budget' \in Budgets
        /\ proc' \in ProcessorType /\ proc'.pc # "idle"
        /\ proc'.pc = "toStore" => proc'.block \in BlockType /\ proc'.block.batch = b /\ b # NoBatch
    <3>1. /\ batches \in Batches /\ pipBatch \in BatchNum /\ halted \in HaltReasons
          /\ l2BlockReorg \in BOOLEAN /\ lastL2BlockWasReorg \in BOOLEAN /\ budget \in Budgets
      BY Zenon DEF BaseInv, TypeOK
    <3> USE <3>1
    <3>2. CASE b = NoBatch
      <4>1. /\ Halt("panic: L2 block without batch")
            /\ proc' = [proc EXCEPT !.pc = "halted"]
            /\ UNCHANGED <<batches, pipBatch, reorgVars, budget>>
        BY <3>2, Zenon DEF ProcessL2Block
      <4>2. "panic: L2 block without batch" \in HaltReasons
        BY Zenon DEF HaltReasons, Ended
      <4>3. halted' \in HaltReasons
        BY <4>1, <4>2, HaltTyped, Zenon
      <4>4. proc' \in ProcessorType /\ proc'.pc = "halted"
        BY <4>1, ProcTyped, Zenon
      <4> QED BY <4>1, <4>3, <4>4, Zenon
    <3>3. CASE b # NoBatch
      <4> USE <3>3
      <4>1. b \in BatchNum \ {0} /\ PropagateRoot(b) \in Batches
        BY PropagateTyped, Zenon DEF NoBatch
      <4> USE <4>1
      <4>2. pipBatch' = b
        BY Zenon DEF ProcessL2Block
      <4> USE <4>2
      <4>3. CASE /\ batches' = [PropagateRoot(b) EXCEPT ![b].finalStateRoot = root]
                 /\ proc' = [pc |-> "toStore", block |-> [block EXCEPT !.stateRoot = root]]
                 /\ UNCHANGED <<reorgVars, halted, budget>>
        <5>1. PropagateRoot(b)[b].finalStateRoot \in Root
          BY Zenon DEF Batches, BatchType
        <5>2. root \in Root
          BY <5>1 DEF Root
        <5> HIDE DEF root, block, b
        <5>3. batches' \in Batches
          BY <4>3, <5>2, BatchesFinal, Zenon
        <5>4. [block EXCEPT !.stateRoot = root] \in BlockType
              /\ [block EXCEPT !.stateRoot = root].batch = block.batch
          BY <5>2, Zenon DEF BlockType
        <5>5. proc' \in ProcessorType /\ proc'.pc = "toStore"
              /\ proc'.block = [block EXCEPT !.stateRoot = root]
          BY <4>3, <5>4, Zenon DEF ProcessorType
        <5> QED BY <4>3, <5>3, <5>4, <5>5, Zenon DEF b
      <4>4. CASE /\ budget.failed > 0
                 /\ budget' = [budget EXCEPT !.failed = @ - 1]
                 /\ batches' = PropagateRoot(b)
                 /\ IF lastL2BlockWasReorg
                    THEN /\ Halt("consecutive reorgs")
                         /\ proc' = [proc EXCEPT !.pc = "halted"]
                         /\ UNCHANGED reorgVars
                    ELSE /\ l2BlockReorg' = TRUE /\ lastL2BlockWasReorg' = TRUE
                         /\ proc' = [proc EXCEPT !.pc = "failed"]
                         /\ UNCHANGED halted
        <5> HIDE DEF b
        <5>1. budget' \in Budgets
          <6>1. budget.failed > 0 /\ budget' = [budget EXCEPT !.failed = @ - 1]
            BY <4>4, Zenon
          <6> QED BY <6>1, SMTT(30) DEF Budgets
        <5>2. CASE lastL2BlockWasReorg
          <6>1. "consecutive reorgs" \in HaltReasons
            BY Zenon DEF HaltReasons
          <6>2. halted' \in HaltReasons /\ proc' \in ProcessorType /\ proc'.pc = "halted"
            BY <4>4, <5>2, <6>1, HaltTyped, ProcTyped, Zenon
          <6> QED BY <4>4, <5>1, <5>2, <6>2, Zenon
        <5>3. CASE ~lastL2BlockWasReorg
          <6>1. proc' \in ProcessorType /\ proc'.pc = "failed"
            BY <4>4, <5>3, ProcTyped, Zenon
          <6> QED BY <4>4, <5>1, <5>3, <6>1, Zenon
        <5> QED BY <5>2, <5>3, Zenon
      <4> QED BY <4>3, <4>4, Zenon DEF ProcessL2Block
    <3> QED BY <3>2, <3>3, Zenon
  <2> HIDE DEF b, block
  <2>6. TypeOK'
    BY <2>5, Zenon DEF BaseInv, TypeOK
  <2>7. RowsOK(db, sipBatch)' /\ ForcedOK(db)'
    BY Zenon DEF BaseInv
  <2>8. QueueInv' /\ OrderInv'
    BY <2>5 DEF BaseInv, QueueInv, OrderInv
  <2>9. ControlInv'
    BY Zenon DEF BaseInv, ControlInv, Closing, NoPendingL2Blocks
  <2> QED BY <2>6, <2>7, <2>8, <2>9, Zenon DEF BaseInv

<1>PushToStore. ASSUME PushToStore PROVE BaseInv'
  <2> USE <1>PushToStore
  <2> USE DEF wipVars, queueVars, reorgVars, forcedVars, dbVars
  <2>1. /\ UNCHANGED <<wipVars, toProcess, l2BlockReorg, forcedVars, dbVars,
                       fin, store, halted, budget>>
        /\ proc.pc = "toStore" /\ storeWG = 0 /\ storeWG' = storeWG + 1
        /\ toStore' = Append(toStore, proc.block) /\ lastL2BlockWasReorg' = FALSE
        /\ processWG' = processWG - 1 /\ proc' = [pc |-> "idle", block |-> NoBlock]
    BY Zenon DEF PushToStore
  <2>2. /\ toStore \in Seq(BlockType) /\ Len(toStore) = 0 /\ store.pc = "idle"
        /\ proc.block \in BlockType /\ proc.block.batch <= wipBatch /\ proc.block.batch # NoBatch
        /\ Len(toProcess) = 0 /\ processWG = 1
    <3>1. toStore \in Seq(BlockType) /\ Len(toStore) \in Nat /\ Len(toProcess) \in Nat
      BY DEF BaseInv, TypeOK
    <3> QED BY <2>1, <3>1 DEF BaseInv, QueueInv, OrderInv
  <2> USE <2>2
  <2>3. /\ toStore' \in Seq(BlockType) /\ Len(toStore') = 1
        /\ \A i \in DOMAIN toStore' : toStore'[i] = proc.block
    BY <2>1, PushOne, Zenon
  <2>4. proc' \in ProcessorType /\ proc'.pc = "idle"
    BY <2>1, Zenon DEF ProcessorType
  <2>5. TypeOK'
    <3>1. storeWG' = 0 + 1 /\ processWG' = 1 - 1
      BY <2>1, Zenon
    <3>2. storeWG' \in Nat /\ processWG' \in Nat
      BY <3>1, SMTT(30)
    <3> QED BY <2>1, <2>3, <2>4, <3>2, Zenon DEF BaseInv, TypeOK
  <2>6. RowsOK(db, sipBatch)' /\ ForcedOK(db)'
    BY <2>1, Zenon DEF BaseInv
  <2>7. QueueInv' /\ OrderInv'
    BY <2>1, <2>3, <2>4, SMTT(30) DEF BaseInv, QueueInv, OrderInv
  <2>8. fin.pc \notin Quiet
    BY DEF BaseInv, ControlInv, NoPendingL2Blocks
  <2>9. ControlInv'
    BY <2>1, <2>8, Zenon DEF BaseInv, ControlInv, Closing
  <2> QED BY <2>5, <2>6, <2>7, <2>9, Zenon DEF BaseInv

<1>ProcessFailed. ASSUME ProcessFailed PROVE BaseInv'
  <2> USE <1>ProcessFailed
  <2> USE DEF wipVars, queueVars, reorgVars, forcedVars, dbVars
  <2>1. /\ UNCHANGED <<wipVars, toProcess, toStore, storeWG, reorgVars, forcedVars, dbVars,
                       fin, store, halted, budget>>
        /\ proc.pc = "failed" /\ processWG' = processWG - 1
        /\ proc' = [proc EXCEPT !.pc = "idle"]
    BY Zenon DEF ProcessFailed
  <2>2. Len(toProcess) = 0 /\ processWG = 1
    <3>1. Len(toProcess) \in Nat
      BY DEF BaseInv, TypeOK
    <3> QED BY <2>1, <3>1 DEF BaseInv, QueueInv
  <2> USE <2>2
  <2>3. proc' \in ProcessorType /\ proc'.pc = "idle"
    BY <2>1, ProcTyped, Zenon DEF BaseInv, TypeOK
  <2>4. TypeOK'
    BY <2>1, <2>3 DEF BaseInv, TypeOK
  <2>5. RowsOK(db, sipBatch)' /\ ForcedOK(db)' /\ QueueInv' /\ OrderInv'
    BY <2>1, <2>3 DEF BaseInv, QueueInv, OrderInv
  <2>6. ControlInv'
    BY <2>1 DEF BaseInv, ControlInv, Closing, NoPendingL2Blocks
  <2> QED BY <2>4, <2>5, <2>6, Zenon DEF BaseInv

<1>StoreL2Block. ASSUME StoreL2Block PROVE BaseInv'
  <2> USE <1>StoreL2Block
  <2> USE DEF wipVars, queueVars, reorgVars, forcedVars, dbVars
  <2> DEFINE block == Head(toStore)
             b == block.batch
             rows == IF sipBatch = NoBatch THEN db ELSE CloseWIPBatch(db, sipBatch)
             new == Row(b, batches[b].initialStateRoot, <<>>, TRUE, FALSE)
  <2>1. /\ UNCHANGED <<wipVars, toProcess, processWG, storeWG, reorgVars, forcedVars,
                       fin, proc, budget>>
        /\ store.pc = "idle" /\ toStore # <<>> /\ toStore' = Tail(toStore)
    BY Zenon DEF StoreL2Block
  <2> USE <2>1
  <2>2. toStore \in Seq(BlockType) /\ Len(toStore) <= 1 /\ storeWG = Len(toStore)
        /\ store \in StorerType
    <3>1. toStore \in Seq(BlockType) /\ Len(toStore) \in Nat /\ store \in StorerType
      BY DEF BaseInv, TypeOK
    <3> QED BY <3>1 DEF BaseInv, QueueInv
  <2> USE <2>2
  <2>3. /\ toStore' \in Seq(BlockType) /\ Len(toStore') = 0 /\ storeWG = 1
        /\ DOMAIN toStore' = {} /\ block \in BlockType /\ block = toStore[1]
        /\ 1 \in DOMAIN toStore
    BY PopOne, Zenon
  <2> USE <2>3
  <2>4. b \in BatchNum /\ b <= wipBatch /\ b # NoBatch
    BY Zenon DEF BlockType, BaseInv, OrderInv, QueueInv
  <2> USE <2>4
  <2>5. fin.pc \notin Quiet
    BY DEF BaseInv, ControlInv, NoPendingL2Blocks
  <2>6. /\ store' \in StorerType /\ store'.pc # "idle" /\ halted' \in HaltReasons
        /\ checks' \subseteq CheckType /\ sipBatch' \in BatchNum /\ sipBatch' <= wipBatch
        /\ RowsOK(db', sipBatch') /\ ForcedOK(db')
        /\ LastTrustedForced(db') = LastTrustedForced(db)
    <3>1. /\ halted \in HaltReasons /\ checks \subseteq CheckType /\ sipBatch \in BatchNum
          /\ batches \in Batches /\ sipBatch <= wipBatch
          /\ RowsOK(db, sipBatch) /\ ForcedOK(db)
      BY Zenon DEF BaseInv, TypeOK, OrderInv
    <3> USE <3>1
    <3>2. CASE /\ sipBatch = b
               /\ db' = AddL2Block(db, block)
               /\ store' = [pc |-> "stored", block |-> block]
               /\ UNCHANGED <<sipBatch, checks, halted>>
      <4> USE <3>2
      <4>1. sipBatch # NoBatch
        BY Zenon
      <4> HIDE DEF block, b
      <4>2. /\ RowsOK(db', sipBatch) /\ ForcedOK(db')
            /\ LastTrustedForced(db') = LastTrustedForced(db)
        BY <4>1, DbAdd, Zenon DEF b
      <4>3. store' \in StorerType /\ store'.pc = "stored"
        BY StoreTyped, Zenon
      <4> QED BY <4>2, <4>3, Zenon
    <3>3. CASE /\ Halt("fatal: storing L2 block")
               /\ store' = [store EXCEPT !.pc = "halted"]
               /\ UNCHANGED dbVars
      <4>1. "fatal: storing L2 block" \in HaltReasons
        BY Zenon DEF HaltReasons, Ended
      <4>2. halted' \in HaltReasons /\ store' \in StorerType /\ store'.pc = "halted"
        BY <3>3, <4>1, HaltTyped, StoreTyped, Zenon
      <4> QED BY <3>3, <4>2, Zenon
    <3>4. CASE /\ MayOpen(rows, b)
               /\ db' = AddL2Block(Append(rows, new), block)
               /\ checks' = IF sipBatch = NoBatch THEN checks
                                                  ELSE checks \cup {CheckOf(sipBatch)}
               /\ sipBatch' = b
               /\ store' = [pc |-> "stored", block |-> block]
               /\ UNCHANGED halted
      <4>1. checks' \subseteq CheckType
        BY <3>4, CheckTyped, Zenon
      <4>2. store' \in StorerType /\ store'.pc = "stored"
        BY <3>4, StoreTyped, Zenon
      <4>3. batches[b].initialStateRoot \in Root
        <5>1. b # 0
          BY Zenon DEF NoBatch
        <5> QED BY <5>1, Zenon DEF Batches, BatchType
      <4>4. /\ RowsOK(Append(rows, new), b) /\ ForcedOK(Append(rows, new))
            /\ LastTrustedForced(Append(rows, new)) = LastTrustedForced(db)
            /\ b # NoBatch
        <5>1. rows = IF sipBatch = NoBatch THEN db ELSE CloseWIPBatch(db, sipBatch)
          BY Zenon
        <5>2. new = Row(b, batches[b].initialStateRoot, <<>>, TRUE, FALSE)
          BY Zenon
        <5>3. MayOpen(rows, b)
          BY <3>4, Zenon
        <5> HIDE DEF b, rows, new
        <5> QED BY <4>3, <5>1, <5>2, <5>3, OpenRows, Zenon
      <4> HIDE DEF rows, new, block
      <4>5. /\ RowsOK(db', b) /\ ForcedOK(db')
            /\ LastTrustedForced(db') = LastTrustedForced(db)
        BY <3>4, <4>4, DbAdd, Zenon
      <4> QED BY <3>4, <4>1, <4>2, <4>5, Zenon
    <3> QED BY <3>2, <3>3, <3>4, Zenon DEF StoreL2Block
  <2> HIDE DEF b, block
  <2>7. TypeOK'
    <3>1. db' \in Seq(RowType)
      BY <2>6, Zenon DEF RowsOK
    <3> QED BY <2>6, <3>1, Zenon DEF BaseInv, TypeOK
  <2>8. QueueInv' /\ OrderInv'
    BY <2>6 DEF BaseInv, QueueInv, OrderInv
  <2>9. ControlInv'
    BY <2>5, <2>6, Zenon DEF BaseInv, ControlInv, Closing, Quiet
  <2> QED BY <2>6, <2>7, <2>8, <2>9, Zenon DEF BaseInv

<1>L2BlockStored. ASSUME L2BlockStored PROVE BaseInv'
  <2> USE <1>L2BlockStored
  <2> USE DEF wipVars, queueVars, reorgVars, forcedVars, dbVars
  <2>1. /\ UNCHANGED <<wipVars, toProcess, processWG, toStore, reorgVars, forcedVars, dbVars,
                       fin, proc, halted, budget>>
        /\ store.pc = "stored" /\ storeWG' = storeWG - 1
        /\ store' = [pc |-> "idle", block |-> NoBlock]
    BY ZenonT(30) DEF L2BlockStored
  <2> USE <2>1
  <2>2. Len(toStore) = 0 /\ storeWG = 1
    <3>1. Len(toStore) \in Nat
      BY DEF BaseInv, TypeOK
    <3> QED BY <3>1 DEF BaseInv, QueueInv
  <2> USE <2>2
  <2>3. store' \in StorerType /\ store'.pc = "idle"
    BY Zenon DEF StorerType
  <2>4. TypeOK'
    BY <2>3, SMTT(30) DEF BaseInv, TypeOK
  <2>5. RowsOK(db, sipBatch)' /\ ForcedOK(db)' /\ QueueInv' /\ OrderInv'
    BY <2>3 DEF BaseInv, QueueInv, OrderInv
  <2>6. ControlInv'
    BY DEF BaseInv, ControlInv, Closing, NoPendingL2Blocks
  <2> QED BY <2>4, <2>5, <2>6, Zenon DEF BaseInv

<1>BatchSanityCheck. ASSUME BatchSanityCheck PROVE BaseInv'
  <2> USE <1>BatchSanityCheck
  <2> USE DEF wipVars, queueVars, reorgVars, forcedVars, dbVars
  <2>1. PICK c \in checks :
            /\ checks' = checks \ {c}
            /\ IF SanityCheckPasses(db, c)
               THEN db' = UpdateBatchAsChecked(db, c.num) /\ UNCHANGED halted
               ELSE Halt("sanity check") /\ UNCHANGED db
    BY Zenon DEF BatchSanityCheck
  <2>2. UNCHANGED <<wipVars, queueVars, reorgVars, forcedVars, sipBatch, fin, proc, store, budget>>
    BY Zenon DEF BatchSanityCheck
  <2> USE <2>2
  <2>3. RowsOK(db, sipBatch) /\ ForcedOK(db) /\ db \in Seq(RowType)
    BY Zenon DEF BaseInv, TypeOK
  <2> USE <2>3
  <2>4. SameRows(db', db)
    <3>1. CASE db' = UpdateBatchAsChecked(db, c.num)
      <4>1. db' = [i \in DOMAIN db |->
                      IF db[i].num \in {c.num} THEN [db[i] EXCEPT !.checked = TRUE] ELSE db[i]]
        BY <3>1, Zenon DEF UpdateBatchAsChecked
      <4> QED BY <4>1, CheckRows, Zenon
    <3>2. CASE UNCHANGED db
      BY <3>2, Zenon DEF SameRows
    <3> QED BY <2>1, <3>1, <3>2, Zenon
  <2>5. /\ RowsOK(db', sipBatch) /\ ForcedOK(db')
        /\ LastTrustedForced(db') = LastTrustedForced(db)
    BY <2>4, DbSame, Zenon
  <2> USE <2>5
  <2>6. halted' \in HaltReasons
    <3>1. "sanity check" \in HaltReasons /\ halted \in HaltReasons
      BY Zenon DEF HaltReasons, BaseInv, TypeOK
    <3> QED BY <2>1, <3>1, HaltTyped, Zenon
  <2>7. TypeOK'
    <3>1. checks' \subseteq CheckType /\ db' \in Seq(RowType)
      BY <2>1, Zenon DEF BaseInv, TypeOK, RowsOK
    <3> QED BY <2>6, <3>1, Zenon DEF BaseInv, TypeOK
  <2>8. QueueInv' /\ OrderInv'
    BY Zenon DEF BaseInv, QueueInv, OrderInv
  <2>9. ControlInv'
    <3>1. fin.pc = "keepHalting" => ~db'[Len(db')].wip /\ Len(db') < HaltOnBatchNumber
      <4>1. Len(db) \in 1 .. Len(db)
        BY DEF RowsOK
      <4> QED BY <2>4, <4>1, Zenon DEF SameRows, BaseInv, ControlInv
    <3> QED BY <3>1, Zenon DEF BaseInv, ControlInv, Closing, NoPendingL2Blocks
  <2> QED BY <2>7, <2>8, <2>9, Zenon DEF BaseInv

<1>Restart. ASSUME Restart PROVE BaseInv'
  <2> USE <1>Restart
  <2> DEFINE M == {n \in BatchNum : \E i \in ChecksPassed : NotCheckedBatches[i].num = n}
  <2>1. RowsOK(db, NoBatch) /\ ForcedOK(db) /\ db \in Seq(RowType)
    BY RowsNoSip, Zenon DEF BaseInv, TypeOK
  <2> USE <2>1
  <2>2. SameRows(db', db)
    <3>1. \A k \in DOMAIN db : db[k].num \in BatchNum
      <4>1. \A k \in DOMAIN db : db[k] \in RowType
        OBVIOUS
      <4> QED BY <4>1, Zenon DEF RowType
    <3>2. db' = [k \in DOMAIN db |->
                  IF \E i \in ChecksPassed : NotCheckedBatches[i].num = db[k].num
                  THEN [db[k] EXCEPT !.checked = TRUE] ELSE db[k]]
      BY Zenon DEF Restart
    <3>3. \A k \in DOMAIN db :
             (db[k].num \in M) <=> (\E i \in ChecksPassed : NotCheckedBatches[i].num = db[k].num)
      BY <3>1, Zenon
    <3> HIDE DEF M
    <3>4. db' = [k \in DOMAIN db |->
                  IF db[k].num \in M THEN [db[k] EXCEPT !.checked = TRUE] ELSE db[k]]
      BY <3>2, <3>3, Zenon
    <3> QED BY <3>4, CheckRows, Zenon
  <2>3. RowsOK(db', NoBatch) /\ ForcedOK(db')
    BY <2>2, DbSame, Zenon
  <2>4. /\ wipBatch' = NoBatch /\ pipBatch' = NoBatch /\ sipBatch' = NoBatch
        /\ wipL2Block' = NoBlock
        /\ toProcess' = <<>> /\ processWG' = 0 /\ toStore' = <<>> /\ storeWG' = 0
        /\ l2BlockReorg' = FALSE /\ lastL2BlockWasReorg' = FALSE
        /\ proc' = [pc |-> "idle", block |-> NoBlock]
        /\ store' = [pc |-> "idle", block |-> NoBlock]
        /\ checks' = {}
        /\ nextForcedBatches' = <<>> /\ lastForcedBatchNum' = 0 /\ deadline' = FALSE
        /\ halted' \in {"no", "startup check"}
        /\ l2BlockCounter' = LastBlockNum
        /\ batches' = [n \in DOMAIN batches |-> OpenNewWIPBatch(<<>>)]
    BY Zenon DEF Restart
  <2>5. fin' \in FinalizerType /\ fin'.pc \in {"start", "halted"}
    <3> DEFINE idle == [pc |-> "start", ret |-> "top", cont |-> "open", i |-> 0,
                        num |-> 0, root |-> <<>>]
    <3>1. fin' = idle \/ fin' = [idle EXCEPT !.pc = "halted"]
      BY Zenon DEF Restart
    <3>2. idle \in FinalizerType /\ idle.pc = "start"
      <4>1. <<>> \in Root /\ 0 \in BatchNum
        BY EmptySeq, FinalizerAssumption DEF Root, BatchNum
      <4> QED BY <4>1, Zenon DEF FinalizerType, FinalizerPoints
    <3>3. "halted" \in FinalizerPoints
      BY Zenon DEF FinalizerPoints
    <3> HIDE DEF idle
    <3> QED BY <3>1, <3>2, <3>3, FinGoto
  <2>6. l2BlockCounter' \in Nat
    <3>1. db[Len(db)].stateRoot \in Seq(Int)
      <4>1. Len(db) \in 1 .. Len(db)
        BY DEF RowsOK
      <4>2. db[Len(db)] \in RowType
        BY <4>1
      <4> QED BY <4>2, Zenon DEF RowType, Root
    <3>2. PICK n \in {0} \cup Range(StoredRoot) :
             n \in Nat /\ \A m \in {0} \cup Range(StoredRoot) : m <= n
      BY <3>1, Zenon DEF StoredRoot, LastNumbers
    <3>3. LastBlockNum = CHOOSE n1 \in {0} \cup Range(StoredRoot) :
                            \A m \in {0} \cup Range(StoredRoot) : m <= n1
      BY Zenon DEF LastBlockNum, StoredRoot
    <3>4. \A x \in {0} \cup Range(StoredRoot) : x \in Int
      BY <3>1 DEF Range, StoredRoot
    <3>5. LastBlockNum \in {0} \cup Range(StoredRoot) /\ 0 <= LastBlockNum
      BY <3>2, <3>3, Zenon
    <3>6. LastBlockNum \in Nat
      BY <3>4, <3>5
    <3> QED BY <2>4, <3>6, Zenon
  <2>7. batches' \in Batches
    <3>1. DOMAIN batches = BatchNum \ {0}
      BY Zenon DEF BaseInv, TypeOK, Batches
    <3>2. OpenNewWIPBatch(<<>>) \in BatchType
      <4>1. <<>> \in Root
        BY EmptySeq, Zenon DEF Root
      <4> QED BY <4>1, OpenTyped, Zenon
    <3> QED BY <2>4, <3>1, <3>2, Zenon DEF Batches
  <2>8. budget' \in Budgets
    <3>1. budget \in Budgets
      BY Zenon DEF BaseInv, TypeOK
    <3>2. CASE UNCHANGED budget
      BY <3>1, <3>2, Zenon
    <3>3. CASE budget.crashes > 0 /\ budget' = [budget EXCEPT !.crashes = @ - 1]
      BY <3>1, <3>3 DEF Budgets
    <3> QED BY <3>2, <3>3, Zenon DEF Restart
  <2>9. <<>> \in Seq(BlockType) /\ Len(<<>>) = 0 /\ DOMAIN <<>> = {} /\ <<>> \in Seq(1 .. MaxForced)
    BY EmptySeq
  <2>10. proc' \in ProcessorType /\ store' \in StorerType /\ proc'.pc = "idle" /\ store'.pc = "idle"
    BY <2>4, Zenon DEF ProcessorType, StorerType
  <2> USE <2>10
  <2>11. halted' \in HaltReasons /\ NoBatch \in BatchNum /\ 0 \in 0 .. MaxForced
    <3>1. halted' \in HaltReasons
      BY <2>4, Zenon DEF HaltReasons
    <3> QED BY <3>1, FinalizerAssumption DEF NoBatch, BatchNum
  <2>12. TypeOK'
    <3>1. db' \in Seq(RowType)
      BY <2>3, Zenon DEF RowsOK
    <3>2. processWG' \in Nat /\ storeWG' \in Nat /\ checks' \subseteq CheckType
      BY <2>4, Zenon
    <3> QED BY <2>4, <2>5, <2>6, <2>7, <2>8, <2>9, <2>11, <3>1, <3>2, Zenon DEF TypeOK
  <2>13. RowsOK(db, sipBatch)' /\ ForcedOK(db)'
    BY <2>3, <2>4, Zenon
  <2>14. QueueInv' /\ OrderInv'
    <3>1. /\ Len(toProcess') = 0 /\ Len(toStore') = 0 /\ processWG' = 0 /\ storeWG' = 0
          /\ DOMAIN toProcess' = {} /\ DOMAIN toStore' = {}
      BY <2>4, <2>9, Zenon
    <3>2. QueueInv'
      BY <3>1 DEF QueueInv
    <3>3. sipBatch' <= wipBatch'
      <4>1. sipBatch' = 0 /\ wipBatch' = 0
        BY <2>4, Zenon DEF NoBatch
      <4> QED BY <4>1
    <3> QED BY <2>4, <3>1, <3>2, <3>3, Zenon DEF OrderInv
  <2>15. ControlInv'
    BY <2>4, <2>5, Zenon DEF ControlInv, Quiet, Filling, Closing, NoPendingL2Blocks
  <2> QED BY <2>12, <2>13, <2>14, <2>15, Zenon DEF BaseInv

<1>1. CASE FinalizerNext
  BY <1>1, <1>CheckReorg, <1>CheckBlockTime, <1>SelectTx, <1>CheckFinalizeBatch, Zenon,
     <1>PushL2Block, <1>SyncStateRoot, <1>OpenNewWIPL2Block, <1>CloseAndOpenNewWIPBatch,
     <1>HaltOnBatch, StutterBase, <1>ProcessL2BlockReorg, <1>ReorgDone, <1>Start,
     <1>CloseForForcedBatches, <1>StartForcedBatches, <1>ProcessForcedBatch,
     <1>ForcedBatchesDone
     DEF FinalizerNext, KeepHalting
<1>2. CASE ProcessorNext
  BY <1>2, <1>DiscardL2Block, <1>ProcessL2Block, <1>PushToStore, <1>ProcessFailed, Zenon
     DEF ProcessorNext
<1>3. CASE StorerNext
  BY <1>3, <1>StoreL2Block, <1>L2BlockStored, Zenon DEF StorerNext
<1>4. CASE BatchSanityCheck
  BY <1>4, <1>BatchSanityCheck, Zenon
<1>5. CASE CheckForcedBatches
  BY <1>5, <1>CheckForcedBatches, Zenon
<1>6. CASE Restart
  BY <1>6, <1>Restart, Zenon
<1> QED BY <1>1, <1>2, <1>3, <1>4, <1>5, <1>6, Zenon DEF Next

LEMMA BaseForcedInOrder ==
  ASSUME BaseInv
  PROVE  ForcedInOrder
<1> DEFINE forced == {i \in DOMAIN db : \E f \in 1 .. MaxForced : db[i].blocks = <<-f>>}
<1>1. ForcedOK(db)
  BY Zenon DEF BaseInv
<1> USE <1>1
<1>2. \A i \in DOMAIN db : i \in forced <=> IsForced(db[i])
  BY Zenon DEF IsForced
<1>3. \A i, j \in forced : i < j => db[i].blocks[1] > db[j].blocks[1]
  BY <1>2, Zenon DEF ForcedOK
<1>4. ASSUME NEW f \in 1 .. LastTrustedForced(db)
      PROVE  \E i \in forced : db[i].blocks = <<-f>>
  <2>1. f \in ForcedIn(db)
    BY LastForced, Zenon
  <2>2. f \in 1 .. MaxForced
    BY <2>1, Zenon DEF ForcedIn
  <2>3. PICK i \in DOMAIN db : -f \in Range(db[i].blocks)
    BY <2>1, Zenon DEF ForcedIn
  <2>4. PICK j \in DOMAIN db[i].blocks : db[i].blocks[j] = -f
    BY <2>3, Zenon DEF Range
  <2> USE <2>4
  <2>5. ~(db[i].blocks[j] > 0)
    BY <2>2, FinalizerAssumption
  <2>6. IsForced(db[i])
    BY <2>5, Zenon DEF ForcedOK
  <2>7. PICK g \in 1 .. MaxForced : db[i].blocks = <<-g>>
    BY <2>6, Zenon DEF IsForced
  <2>8. DOMAIN <<-g>> = {1} /\ <<-g>>[1] = -g
    OBVIOUS
  <2>9. -g = -f
    BY <2>7, <2>8, Zenon
  <2>10. db[i].blocks = <<-f>>
    BY <2>7, <2>9, Zenon
  <2>11. i \in forced
    BY <2>2, <2>3, <2>10, Zenon
  <2> QED BY <2>10, <2>11, Zenon
<1> QED BY <1>3, <1>4, Zenon DEF ForcedInOrder

LEMMA BaseStoppedClean ==
  ASSUME BaseInv
  PROVE  StoppedClean
<1>1. SUFFICES ASSUME fin.pc = "keepHalting"
               PROVE  /\ \A i \in DOMAIN db : ~db[i].wip /\ db[i].num < HaltOnBatchNumber
                      /\ Pending = <<>>
  BY Zenon DEF StoppedClean
<1>2. NoPendingL2Blocks /\ ~db[Len(db)].wip /\ Len(db) < HaltOnBatchNumber
  BY <1>1, Zenon DEF BaseInv, ControlInv, Quiet
<1> USE <1>2
<1>3. db \in Seq(RowType) /\ Len(db) \in Nat /\ DOMAIN db = 1 .. Len(db)
  BY DEF BaseInv, TypeOK
<1> USE <1>3
<1>4. \A i \in DOMAIN db : ~db[i].wip /\ db[i].num < HaltOnBatchNumber
  <2>1. SUFFICES ASSUME NEW i \in 1 .. Len(db) PROVE ~db[i].wip /\ db[i].num < HaltOnBatchNumber
    BY Zenon
  <2>2. db[i].num = i /\ (i < Len(db) => ~db[i].wip)
    BY Zenon DEF BaseInv, RowsOK
  <2>3. i < HaltOnBatchNumber
    BY FinalizerAssumption
  <2>4. i = Len(db) \/ i < Len(db)
    <3>1. Len(db) \in Nat /\ i \in 1 .. Len(db)
      BY Zenon
    <3> HIDE <1>3
    <3> QED BY <3>1
  <2> QED BY <2>2, <2>3, <2>4, Zenon
<1>5. toProcess = <<>> /\ toStore = <<>> /\ proc.pc # "toStore"
  <2>1. toProcess \in Seq(BlockType) /\ toStore \in Seq(BlockType)
    BY Zenon DEF BaseInv, TypeOK
  <2>2. Len(toProcess) \in Nat /\ Len(toStore) \in Nat
    BY <2>1
  <2>3. Len(toProcess) = 0 /\ Len(toStore) = 0 /\ proc.pc # "toStore"
    BY <2>2 DEF BaseInv, QueueInv, NoPendingL2Blocks
  <2> QED BY <2>1, <2>3, EmptySeq, Zenon
<1>6. Pending = <<>>
  <2>1. [i \in DOMAIN <<>> |-> <<>>[i].num] = <<>>
    OBVIOUS
  <2>2. Pending = [i \in DOMAIN <<>> |-> <<>>[i].num] \o <<>> \o [i \in DOMAIN <<>> |-> <<>>[i].num]
    BY <1>5, Zenon DEF Pending
  <2> QED BY <2>1, <2>2
<1> QED BY <1>4, <1>6

-----------------------------------------------------------------------------
(* Theorems *)

LEMMA BaseSteps ==
  /\ Init => BaseInv
  /\ BaseInv /\ [Next]_vars => BaseInv'
<1>1. LastNumbers
  BY LastNumber, Zenon DEF LastNumbers
<1> QED BY <1>1, InitialBase, NextBase, StutterBase, Zenon

\* The control of the pipeline: whatever the constants, the numbers of the rows,
\* the wait groups, the order of the three batches in work and the point the
\* finalizer is at stay in step (finalizeBatches, processPendingL2Blocks and
\* storePendingL2Blocks, with reorgs, forced batches and restarts).
THEOREM PipelineInvariant == Spec => []BaseInv
BY BaseSteps, PTL DEF Spec

\* The variables of the pipeline keep their types: batch numbers stay in the
\* range that MaxBatch and MaxForced give, wait groups never fall below zero.
THEOREM FinalizerTypeCorrect == Spec => []TypeOK
<1>1. BaseInv => TypeOK
  BY Zenon DEF BaseInv
<1> QED BY <1>1, PipelineInvariant, PTL

\* Forced batches enter the trusted state in the order of L1, none twice and
\* none left out (processForcedBatches, checkForcedBatches), for any number of
\* forced batches, failed commits, reorgs and restarts.
THEOREM ForcedBatchesInOrder == Spec => []ForcedInOrder
<1>1. BaseInv => ForcedInOrder
  BY BaseForcedInOrder, Zenon
<1> QED BY <1>1, PipelineInvariant, PTL

\* A node that stopped for HaltOnBatchNumber has stored what it closed: no batch is
\* open and nothing is pending (keepHalting is reached from initWIPBatch and
\* closeAndOpenNewWIPBatch), whatever failed, was reorged or crashed before.
THEOREM StopsClean == Spec => []StoppedClean
<1>1. BaseInv => StoppedClean
  BY BaseStoppedClean, Zenon
<1> QED BY <1>1, PipelineInvariant, PTL
=============================================================================
