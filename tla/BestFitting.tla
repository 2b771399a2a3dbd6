---------------------------- MODULE BestFitting -----------------------------
(***************************************************************************)
(* The search of GetBestFittingTx (sequencer/worker.go): one goroutine per *)
(* CPU goes through the transactions sorted by gas price, each at its own  *)
(* stride, and they share the index of the best one found so far.  The     *)
(* worker's lock is held meanwhile, so the list does not change.  What is  *)
(* kept of a transaction is whether it fits in what the batch has left.    *)
(* (An empty list is left at once, with the error the search gives too.)   *)
(***************************************************************************)
EXTENDS Integers, FiniteSets

CONSTANTS
    NumCPU,    \* nGoRoutines
    MaxLen     \* bound on the length of txSortedList

ASSUME BestFittingAssumption == NumCPU \in Nat \ {0} /\ MaxLen \in Nat

VARIABLES
    len,                     \* length of txSortedList
    fits,                    \* which of its transactions fit
    isFirstL2BlockAndEmpty,
    foundAt,
    oocTxs,
    i,                       \* the index each goroutine is at
    pc,
    result

vars == <<len, fits, isFirstL2BlockAndEmpty, foundAt, oocTxs, i, pc, result>>
input == <<len, fits, isFirstL2BlockAndEmpty>>

Goroutines == 0 .. (NumCPU - 1)

\* results that are not a transaction
Searching == -1
ErrTransactionsListEmpty == -2
ErrNoFittingTransaction == -3

\* a better transaction than the one at i[n] was found
Beyond(n) == foundAt # -1 /\ i[n] > foundAt

\* the loop condition and the look at foundAt
Check(n) ==
    /\ pc[n] = "check"
    /\ pc' = [pc EXCEPT ![n] = IF i[n] >= len \/ Beyond(n) THEN "done" ELSE "test"]
    /\ UNCHANGED <<input, foundAt, oocTxs, i, result>>

\* mutant of OutOfCounters: a transaction that does not fit is only skipped
NeverOutOfCounters(n) == oocTxs

\* for an empty batch, a transaction that does not fit never will
OutOfCounters(n) == IF isFirstL2BlockAndEmpty THEN oocTxs \cup {i[n]} ELSE oocTxs

DoesNotFit(n) ==
    /\ pc[n] = "test" /\ ~fits[i[n]]
    /\ oocTxs' = OutOfCounters(n)
    /\ i' = [i EXCEPT ![n] = @ + NumCPU]
    /\ pc' = [pc EXCEPT ![n] = "check"]
    /\ UNCHANGED <<input, foundAt, result>>

\* mutant of Better: the last goroutine wins
LastFound(n) == i[n]

\* foundAt, with the candidate of goroutine n
Better(n) == IF foundAt = -1 \/ foundAt > i[n] THEN i[n] ELSE foundAt

Fits(n) ==
    /\ pc[n] = "test" /\ fits[i[n]]
    /\ foundAt' = Better(n)
    /\ pc' = [pc EXCEPT ![n] = "done"]
    /\ UNCHANGED <<input, oocTxs, i, result>>

\* wg.Wait returns
Return ==
    /\ result = Searching /\ \A n \in Goroutines : pc[n] = "done"
    /\ result' = IF foundAt # -1 THEN foundAt
                 ELSE IF Cardinality(oocTxs) = len THEN ErrTransactionsListEmpty
                 ELSE ErrNoFittingTransaction
    /\ UNCHANGED <<input, foundAt, oocTxs, i, pc>>

Init ==
    /\ len \in 0 .. MaxLen
    /\ fits \in [0 .. (len - 1) -> BOOLEAN]
    /\ isFirstL2BlockAndEmpty \in BOOLEAN
    /\ foundAt = -1 /\ oocTxs = {} /\ result = Searching
    /\ i = [n \in Goroutines |-> n]
    /\ pc = [n \in Goroutines |-> "check"]

Next == (\E n \in Goroutines : Check(n) \/ DoesNotFit(n) \/ Fits(n)) \/ Return

Spec == Init /\ [][Next]_vars

-----------------------------------------------------------------------------
(* Properties *)

\* Types of the variables; no goroutine looks beyond the end of the list.
TypeOK ==
    /\ len \in 0 .. MaxLen
    /\ fits \in [0 .. (len - 1) -> BOOLEAN]
    /\ isFirstL2BlockAndEmpty \in BOOLEAN
    /\ foundAt \in -1 .. (len - 1)
    /\ oocTxs \subseteq 0 .. (len - 1)
    /\ i \in [Goroutines -> Nat]
    /\ pc \in [Goroutines -> {"check", "test", "done"}]
    /\ \A n \in Goroutines : pc[n] = "test" => i[n] < len
    /\ result \in -3 .. (len - 1)

\* The transaction GetBestFittingTx returns is the first of the list that fits,
\* whatever the order in which the goroutines run; there is an error only when
\* none fits.
BestFittingTx ==
    /\ result >= 0 => fits[result] /\ \A j \in 0 .. (result - 1) : ~fits[j]
    /\ result < Searching => \A j \in 0 .. (len - 1) : ~fits[j]

\* The finalizer closes the batch on ErrNoFittingTransaction and halts if it is
\* empty (closeWIPBatch): for an empty batch the error is the other one, and
\* the transactions dropped as out of counters are exactly those that do not
\* fit among those looked at.
EmptyBatchNotClosed ==
    /\ result = ErrNoFittingTransaction => ~isFirstL2BlockAndEmpty
    /\ \A j \in oocTxs : isFirstL2BlockAndEmpty /\ ~fits[j]
    /\ result = ErrTransactionsListEmpty => oocTxs = 0 .. (len - 1)

=============================================================================
