------------------------- MODULE BestFittingProofs --------------------------
(***************************************************************************)
(* The search of BestFitting is right for every number of goroutines and   *)
(* every list.  The inductive invariant, Searched, says what goroutine n   *)
(* has done: no transaction of its stride before i[n] fits, and when it is *)
(* done a transaction not behind i[n] was found or the list has ended.     *)
(* Every index is of some stride, so when all are done none was missed.    *)
(***************************************************************************)
EXTENDS BestFitting, FiniteSetTheorems, TLAPS

\* Quotient and remainder.
LEMMA Division ==
    ASSUME NEW a \in Nat, NEW N \in Nat, N > 0
    PROVE  a \div N \in Int /\ a % N \in 0 .. (N - 1) /\ a = N * (a \div N) + (a % N)
<1>1. a \div N \in Int
  BY SMT
<1>2. a % N \in 0 .. (N - 1)
  BY SMT
<1>3. a = N * (a \div N) + (a % N)
  BY SMT
<1>4. QED
  BY <1>1, <1>2, <1>3

\* A multiple of N between -N and N is zero.
LEMMA SmallMultiple ==
    ASSUME NEW d \in Int, NEW N \in Nat, N > 0, -N < N * d, N * d < N
    PROVE  N * d = 0
<1>1. CASE d <= -1
  <2>1. N * d <= N * (-1)
    BY <1>1
  <2>2. QED
    BY <2>1
<1>2. CASE d >= 1
  <2>1. N * d >= N * 1
    BY <1>2
  <2>2. QED
    BY <2>1
<1>3. CASE d = 0
  BY <1>3
<1>4. QED
  BY <1>1, <1>2, <1>3

\* Two indices of one stride that are less than N apart are the same.
LEMMA SameStride ==
    ASSUME NEW a \in Nat, NEW b \in Nat, NEW N \in Nat, N > 0, a % N = b % N,
           b < a, a < b + N
    PROVE  FALSE
<1>1. PICK q \in Int, r \in 0 .. (N - 1) : a = N * q + r /\ r = a % N
  BY Division
<1>2. PICK p \in Int, s \in 0 .. (N - 1) : b = N * p + s /\ s = b % N
  BY Division
<1>3. a - b = N * (q - p)
  BY <1>1, <1>2
<1>4. q - p \in Int /\ 0 < N * (q - p) /\ N * (q - p) < N
  BY <1>1, <1>2, <1>3
<1>5. N * (q - p) = 0
  BY <1>4, SmallMultiple
<1>6. QED
  BY <1>4, <1>5

\* A goroutine stays in its stride.
LEMMA NextOfStride ==
    ASSUME NEW a \in Nat, NEW N \in Nat, N > 0
    PROVE  (a + N) % N = a % N
<1>1. PICK q \in Int, r \in 0 .. (N - 1) : a = N * q + r /\ r = a % N
  BY Division
<1>2. a + N \in Nat
  OBVIOUS
<1>3. PICK p \in Int, s \in 0 .. (N - 1) : a + N = N * p + s /\ s = (a + N) % N
  BY <1>2, Division
<1>4. s - r = N * (q + 1 - p)
  BY <1>1, <1>3
<1>5. q + 1 - p \in Int /\ -N < N * (q + 1 - p) /\ N * (q + 1 - p) < N
  BY <1>1, <1>3, <1>4
<1>6. N * (q + 1 - p) = 0
  BY <1>5, SmallMultiple
<1>7. QED
  BY <1>1, <1>3, <1>4, <1>6

\* A goroutine goes on to the next index of its stride.
LEMMA DoesNotFitTypes ==
    ASSUME TypeOK, NEW n \in Goroutines, DoesNotFit(n)
    PROVE  TypeOK'
<1> USE BestFittingAssumption DEF TypeOK, input
<1>1. i[n] \in 0 .. (len - 1) /\ i[n] + NumCPU \in Nat
  BY DEF DoesNotFit
<1>2. oocTxs' \subseteq 0 .. (len - 1)
  BY <1>1 DEF DoesNotFit, OutOfCounters
<1>3. i' \in [Goroutines -> Nat]
  BY <1>1 DEF DoesNotFit
<1>4. pc' \in [Goroutines -> {"check", "test", "done"}]
  BY DEF DoesNotFit
<1>5. \A m \in Goroutines : pc'[m] = "test" => i'[m] < len
  BY DEF DoesNotFit
<1>6. QED
  BY <1>2, <1>3, <1>4, <1>5 DEF DoesNotFit

\* The other steps of a goroutine.
LEMMA CheckOrFitsTypes ==
    ASSUME TypeOK, NEW n \in Goroutines, Check(n) \/ Fits(n)
    PROVE  TypeOK'
<1> USE BestFittingAssumption DEF TypeOK, input
<1>1. CASE Check(n)
  BY <1>1 DEF Check
<1>2. CASE Fits(n)
  BY <1>2 DEF Fits, Better
<1>3. QED
  BY <1>1, <1>2

\* The variables keep their types and no goroutine leaves the list.
THEOREM BestFittingTypeCorrect == Spec => []TypeOK
<1>1. ASSUME Init PROVE TypeOK
  BY <1>1, BestFittingAssumption DEF Init, TypeOK, Goroutines, Searching
<1>2. ASSUME TypeOK, Return PROVE TypeOK'
  BY <1>2, BestFittingAssumption
     DEF TypeOK, input, Return, ErrTransactionsListEmpty, ErrNoFittingTransaction
<1>3. ASSUME TypeOK, UNCHANGED vars PROVE TypeOK'
  BY <1>3 DEF TypeOK, vars
<1>4. TypeOK /\ [Next]_vars => TypeOK'
  BY <1>2, <1>3, DoesNotFitTypes, CheckOrFitsTypes DEF Next
<1>5. QED
  BY <1>1, <1>4, PTL DEF Spec

\* What the goroutines have looked at so far.
Searched ==
    /\ foundAt >= 0 => fits[foundAt]
    /\ \A n \in Goroutines : i[n] % NumCPU = n
    /\ \A n \in Goroutines : \A j \in 0 .. (len - 1) :
          j % NumCPU = n /\ j < i[n] => ~fits[j] /\ (isFirstL2BlockAndEmpty => j \in oocTxs)
    /\ \A n \in Goroutines : pc[n] = "done" => i[n] >= len \/ (foundAt >= 0 /\ foundAt <= i[n])
    /\ \A j \in oocTxs : isFirstL2BlockAndEmpty /\ ~fits[j]
    /\ result # Searching => \A n \in Goroutines : pc[n] = "done"
    /\ BestFittingTx
    /\ EmptyBatchNotClosed

\* The initial indices are the strides.
LEMMA FirstOfStride ==
    ASSUME NEW n \in Nat, NEW N \in Nat, N > 0, n < N
    PROVE  n % N = n
<1>1. PICK q \in Int, r \in 0 .. (N - 1) : n = N * q + r /\ r = n % N
  BY Division
<1>2. -N < N * q /\ N * q < N
  BY <1>1
<1>3. N * q = 0
  BY <1>2, SmallMultiple
<1>4. QED
  BY <1>1, <1>3

LEMMA SearchedInit == Init => Searched
<1> USE BestFittingAssumption
<1> SUFFICES ASSUME Init PROVE Searched
  OBVIOUS
<1>1. ASSUME NEW n \in Goroutines PROVE i[n] = n /\ n % NumCPU = n /\ pc[n] = "check"
  <2>1. n \in Nat /\ n < NumCPU /\ NumCPU \in Nat /\ NumCPU > 0
    BY DEF Goroutines
  <2>2. n % NumCPU = n
    BY <2>1, FirstOfStride
  <2>3. QED
    BY <2>2 DEF Init
<1>2. ASSUME NEW n \in Goroutines, NEW j \in 0 .. (len - 1), j % NumCPU = n, j < i[n]
      PROVE  FALSE
  <2>1. j \in Nat /\ j < NumCPU /\ NumCPU \in Nat /\ NumCPU > 0
    BY <1>1, <1>2 DEF Goroutines, Init
  <2>2. j % NumCPU = j
    BY <2>1, FirstOfStride
  <2>3. QED
    BY <1>1, <1>2, <2>1, <2>2 DEF Goroutines
<1>3. foundAt = -1 /\ oocTxs = {} /\ result = Searching
  BY DEF Init
<1>4. BestFittingTx /\ EmptyBatchNotClosed
  BY <1>3 DEF BestFittingTx, EmptyBatchNotClosed, Searching, ErrNoFittingTransaction,
              ErrTransactionsListEmpty
<1>5. QED
  BY <1>1, <1>2, <1>3, <1>4 DEF Searched

LEMMA SearchedCheck ==
    ASSUME TypeOK, Searched, NEW n \in Goroutines, Check(n)
    PROVE  Searched'
<1> USE BestFittingAssumption
<1>1. ASSUME NEW m \in Goroutines, pc'[m] = "done"
      PROVE  i[m] >= len \/ (foundAt >= 0 /\ foundAt <= i[m])
  BY <1>1 DEF Check, Beyond, Searched, TypeOK
<1>2. UNCHANGED <<len, fits, isFirstL2BlockAndEmpty, foundAt, oocTxs, i, result>>
  BY DEF Check, input
<1>3. \A m \in Goroutines : pc[m] = "done" => pc'[m] = "done"
  BY DEF Check, TypeOK
<1>4. QED
  BY <1>1, <1>2, <1>3 DEF Searched, BestFittingTx, EmptyBatchNotClosed

LEMMA SearchedFits ==
    ASSUME TypeOK, Searched, NEW n \in Goroutines, Fits(n)
    PROVE  Searched'
<1> USE BestFittingAssumption
<1>1. /\ i[n] \in 0 .. (len - 1) /\ fits[i[n]]
      /\ foundAt' >= 0 /\ foundAt' <= i[n]
      /\ foundAt >= 0 => foundAt' <= foundAt
      /\ foundAt' \in {foundAt, i[n]}
  BY DEF Fits, Better, TypeOK
<1>2. UNCHANGED <<len, fits, isFirstL2BlockAndEmpty, oocTxs, i, result>>
  BY DEF Fits, input
<1>3. ASSUME NEW m \in Goroutines, pc'[m] = "done"
      PROVE  i[m] >= len \/ (foundAt' >= 0 /\ foundAt' <= i[m])
  <2>1. CASE m = n
    BY <1>1, <2>1
  <2>2. CASE m # n
    <3>1. pc[m] = "done"
      BY <1>3, <2>2 DEF Fits, TypeOK
    <3>2. CASE i[m] >= len
      BY <3>2
    <3>3. CASE foundAt >= 0 /\ foundAt <= i[m]
      BY <1>1, <3>3 DEF TypeOK
    <3>4. QED
      BY <3>1, <3>2, <3>3 DEF Searched
  <2>3. QED
    BY <2>1, <2>2
<1>4. foundAt' >= 0 => fits[foundAt']
  BY <1>1 DEF Searched
<1>5. \A m \in Goroutines : pc[m] = "done" => pc'[m] = "done"
  BY DEF Fits, TypeOK
<1>6. QED
  BY <1>2, <1>3, <1>4, <1>5 DEF Searched, BestFittingTx, EmptyBatchNotClosed

LEMMA SearchedDoesNotFit ==
    ASSUME TypeOK, Searched, NEW n \in Goroutines, DoesNotFit(n)
    PROVE  Searched'
<1> USE BestFittingAssumption
<1>1. UNCHANGED <<len, fits, isFirstL2BlockAndEmpty, foundAt, result>>
  BY DEF DoesNotFit, input
<1>2. /\ i[n] \in Nat /\ i[n] < len /\ ~fits[i[n]] /\ pc'[n] = "check"
      /\ i'[n] = i[n] + NumCPU
      /\ \A m \in Goroutines : m # n => i'[m] = i[m] /\ pc'[m] = pc[m]
  BY DEF DoesNotFit, TypeOK
<1>3. /\ oocTxs \subseteq oocTxs'
      /\ isFirstL2BlockAndEmpty => i[n] \in oocTxs'
      /\ \A j \in oocTxs' : isFirstL2BlockAndEmpty /\ ~fits[j]
  BY <1>2 DEF DoesNotFit, OutOfCounters, Searched
<1>4. \A m \in Goroutines : i'[m] % NumCPU = m
  <2>1. i[n] \in Nat /\ NumCPU \in Nat /\ NumCPU > 0
    BY <1>2
  <2>2. (i[n] + NumCPU) % NumCPU = i[n] % NumCPU
    BY <2>1, NextOfStride
  <2>3. QED
    BY <1>2, <2>2 DEF Searched
<1>5. ASSUME NEW m \in Goroutines, NEW j \in 0 .. (len - 1), j % NumCPU = m, j < i'[m]
      PROVE  ~fits[j] /\ (isFirstL2BlockAndEmpty => j \in oocTxs')
  <2>1. CASE j < i[m]
    BY <1>3, <1>5, <2>1 DEF Searched
  <2>2. CASE ~(j < i[m])
    <3>1. m = n /\ i'[n] = i[n] + NumCPU
      BY <1>2, <1>5, <2>2
    <3>2. i[n] % NumCPU = j % NumCPU
      BY <1>5, <3>1 DEF Searched
    <3>3. j \in Nat /\ ~(j < i[n]) /\ j < i[n] + NumCPU /\ NumCPU \in Nat /\ NumCPU > 0
      BY <1>2, <1>5, <2>2, <3>1
    <3>4. j = i[n]
      <4>1. CASE i[n] < j
        BY <1>2, <3>2, <3>3, <4>1, SameStride
      <4>2. QED
        BY <1>2, <3>3, <4>1
    <3>5. QED
      BY <1>2, <1>3, <3>4
  <2>3. QED
    BY <2>1, <2>2
<1>6. ASSUME NEW m \in Goroutines, pc'[m] = "done"
      PROVE  i'[m] >= len \/ (foundAt >= 0 /\ foundAt <= i'[m])
  <2>1. m # n
    BY <1>2, <1>6
  <2>2. QED
    BY <1>2, <1>6, <2>1 DEF Searched
<1>7. result = Searching
  BY DEF DoesNotFit, Searched
<1>8. BestFittingTx' /\ EmptyBatchNotClosed'
  BY <1>1, <1>3, <1>7 DEF BestFittingTx, EmptyBatchNotClosed, Searching,
                          ErrNoFittingTransaction, ErrTransactionsListEmpty
<1>9. QED
  BY <1>1, <1>3, <1>4, <1>5, <1>6, <1>7, <1>8 DEF Searched

LEMMA SearchedReturn ==
    ASSUME TypeOK, Searched, Return
    PROVE  Searched'
<1> USE BestFittingAssumption
<1>1. UNCHANGED <<len, fits, isFirstL2BlockAndEmpty, foundAt, oocTxs, i, pc>>
  BY DEF Return, input
<1>2. ASSUME NEW j \in 0 .. (len - 1)
      PROVE  \/ foundAt >= 0 /\ foundAt <= j
             \/ ~fits[j] /\ (isFirstL2BlockAndEmpty => j \in oocTxs)
  <2>1. j \in Nat /\ j < len /\ len \in Nat /\ NumCPU \in Nat /\ NumCPU > 0
    BY DEF TypeOK
  <2>2. j % NumCPU \in Goroutines
    BY <2>1, Division DEF Goroutines
  <2>3. PICK n \in Goroutines : n = j % NumCPU
    BY <2>2
  <2>4. i[n] >= len \/ (foundAt >= 0 /\ foundAt <= i[n])
    BY DEF Return, Searched
  <2>5. j < i[n] => ~fits[j] /\ (isFirstL2BlockAndEmpty => j \in oocTxs)
    BY <2>3 DEF Searched
  <2>6. i[n] \in Nat /\ foundAt \in Int
    BY DEF TypeOK
  <2>7. QED
    BY <2>1, <2>4, <2>5, <2>6
<1>3. CASE foundAt >= 0
  <2>1. result' = foundAt /\ foundAt \in 0 .. (len - 1)
    BY <1>3 DEF Return, TypeOK
  <2>2. fits[foundAt] /\ \A j \in 0 .. (foundAt - 1) : ~fits[j]
    BY <1>2, <1>3, <2>1 DEF Searched, TypeOK
  <2>3. BestFittingTx' /\ EmptyBatchNotClosed'
    BY <1>1, <2>1, <2>2 DEF Searched, BestFittingTx, EmptyBatchNotClosed, Searching,
                            ErrNoFittingTransaction, ErrTransactionsListEmpty
  <2>4. QED
    BY <1>1, <2>3 DEF Searched, Return
<1>4. CASE ~(foundAt >= 0)
  <2>1. /\ result' \in {ErrTransactionsListEmpty, ErrNoFittingTransaction}
        /\ result' = ErrNoFittingTransaction => Cardinality(oocTxs) # len
        /\ result' = ErrTransactionsListEmpty => Cardinality(oocTxs) = len
    BY <1>4 DEF Return, TypeOK, ErrTransactionsListEmpty, ErrNoFittingTransaction
  <2>2. \A j \in 0 .. (len - 1) : ~fits[j] /\ (isFirstL2BlockAndEmpty => j \in oocTxs)
    BY <1>2, <1>4
  <2>3. len \in Nat /\ Cardinality(0 .. (len - 1)) = len /\ IsFiniteSet(0 .. (len - 1))
    <3>1. len \in Nat /\ 0 \in Int /\ len - 1 \in Int
      BY DEF TypeOK
    <3>2. /\ IsFiniteSet(0 .. (len - 1))
          /\ Cardinality(0 .. (len - 1)) = IF 0 > len - 1 THEN 0 ELSE len - 1 - 0 + 1
      BY <3>1, FS_Interval
    <3>3. QED
      BY <3>1, <3>2
  <2>4. isFirstL2BlockAndEmpty => oocTxs = 0 .. (len - 1)
    BY <2>2 DEF TypeOK
  <2>5. ~isFirstL2BlockAndEmpty => oocTxs = {} /\ Cardinality(oocTxs) = 0
    BY FS_EmptySet DEF Searched
  <2>6. result' = ErrNoFittingTransaction => ~isFirstL2BlockAndEmpty
    <3>1. isFirstL2BlockAndEmpty => Cardinality(oocTxs) = Cardinality(0 .. (len - 1))
      BY <2>4, Zenon
    <3>2. QED
      BY <2>1, <2>3, <3>1
  <2>7. result' = ErrTransactionsListEmpty => oocTxs = 0 .. (len - 1)
    <3>1. ASSUME ~isFirstL2BlockAndEmpty, Cardinality(oocTxs) = len
          PROVE  oocTxs = 0 .. (len - 1)
      <4>1. len = 0 /\ oocTxs = {}
        BY <2>5, <3>1
      <4>2. QED
        BY <4>1
    <3>2. QED
      BY <2>1, <2>4, <3>1
  <2>8. BestFittingTx'
    <3>1. ~(result' >= 0)
      BY <2>1 DEF ErrNoFittingTransaction, ErrTransactionsListEmpty
    <3>2. \A j \in 0 .. (len' - 1) : ~fits'[j]
      BY <1>1, <2>2
    <3>3. QED
      BY <3>1, <3>2 DEF BestFittingTx
  <2>9. EmptyBatchNotClosed'
    BY <1>1, <2>6, <2>7 DEF Searched, EmptyBatchNotClosed, ErrNoFittingTransaction,
                            ErrTransactionsListEmpty
  <2>10. QED
    BY <1>1, <2>8, <2>9 DEF Searched, Return
<1>5. QED
  BY <1>3, <1>4

LEMMA SearchedInvariant == Spec => []Searched
<1>1. Init => Searched
  BY SearchedInit
<1>2. TypeOK /\ Searched /\ [Next]_vars => Searched'
  <2> SUFFICES ASSUME TypeOK, Searched, [Next]_vars PROVE Searched'
    OBVIOUS
  <2>1. CASE \E n \in Goroutines : Check(n) \/ DoesNotFit(n) \/ Fits(n)
    BY <2>1, SearchedCheck, SearchedDoesNotFit, SearchedFits
  <2>2. CASE Return
    BY <2>2, SearchedReturn
  <2>3. CASE UNCHANGED vars
    BY <2>3 DEF vars, Searched, BestFittingTx, EmptyBatchNotClosed
  <2>4. QED
    BY <2>1, <2>2, <2>3 DEF Next
<1>3. QED
  BY <1>1, <1>2, BestFittingTypeCorrect, PTL DEF Spec

\* GetBestFittingTx returns the first transaction of the list that fits, for
\* every number of goroutines, every list and every interleaving; it returns
\* an error only when none fits.
THEOREM FirstFittingTxReturned == Spec => []BestFittingTx
<1>1. Searched => BestFittingTx
  BY DEF Searched
<1>2. QED
  BY <1>1, SearchedInvariant, PTL

\* GetBestFittingTx never asks the finalizer to close an empty batch.
THEOREM NoEmptyBatchClosed == Spec => []EmptyBatchNotClosed
<1>1. Searched => EmptyBatchNotClosed
  BY DEF Searched
<1>2. QED
  BY <1>1, SearchedInvariant, PTL
=============================================================================
