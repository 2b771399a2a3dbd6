----------------------------- MODULE Aggregator -----------------------------
(***************************************************************************)
(* The aggregator (aggregator/aggregator.go, aggregator_xlayer.go) and the *)
(* table of recursive proofs (state/pgstatestorage/proof.go).              *)
(*                                                                         *)
(* A routine serves a prover: in serial mode one goroutine per prover      *)
(* tries a final proof, an aggregation, a batch proof in turn              *)
(* (channelSerialize); in parallel mode a prover has a goroutine for each  *)
(* (channelParallel).  A row of the table is locked (generating_since)     *)
(* while a proof is made of it.  The goroutine sendFinalProof settles      *)
(* final proofs one by one, through the eth tx manager or the AggLayer;    *)
(* cleanupLockedProofs deletes rows locked for too long; Start cleans up   *)
(* after a crash.                                                          *)
(*                                                                         *)
(* StateDBMutex makes the look for rows and their locking one step; so do  *)
(* database transactions.                                                  *)
(*                                                                         *)
(* External: provers (a proof is made or fails), the synchronizer (batches *)
(* sequenced and verified on L1 become known to the node; a sequence is    *)
(* known here once its block has its confirmations), and the settlement:   *)
(* the contract accepts a proof that starts at a batch whose state root it *)
(* has and ends after the last verified batch.                             *)
(***************************************************************************)
EXTENDS Integers, Sequences

CONSTANTS
    Routines,   \* goroutines that serve provers
    Modes,      \* possible configurations: what each routine does
    Backends,   \* possible SettlementBackend: "direct" and "agglayer"
    Sequences,  \* the sequences <<from, to>> of L1, in order
    Scenarios   \* the kinds of faults one behaviour may show, each once

Heads == {"tryFinal", "tryAggregate", "tryBatch"}
FaultKinds == {"prover", "batchNotFound", "cleanup", "disconnect", "timeout", "crash"}

ASSUME AggregatorAssumption ==
    /\ Modes \subseteq [Routines -> {"serial", "off"} \cup Heads]
    /\ Backends \subseteq {"direct", "agglayer"}
    /\ Sequences \in Seq(Nat \X Nat)
    /\ \A i \in DOMAIN Sequences :
          /\ Sequences[i][1] <= Sequences[i][2]
          /\ Sequences[i][1] = IF i = 1 THEN 1 ELSE Sequences[i - 1][2] + 1
    /\ Scenarios \subseteq SUBSET FaultKinds

VARIABLES
    mode, backend,  \* the configuration
    sequenced,      \* number of sequences the node knows
    verified,       \* last verified batch the node knows
    roots,          \* batches whose state root the contract has, 0 .. last verified
    proofs,         \* state.proof
    routine,        \* the routines
    sender,         \* the goroutine of Start and sendFinalProof
    verifyingProof,
    txs,            \* verifications handed over for settlement
    faults          \* kinds of faults shown so far

l1Vars == <<sequenced, verified, roots>>
vars == <<mode, backend, l1Vars, proofs, routine, sender, verifyingProof, txs, faults>>

Fault(kind) ==
    /\ kind \notin faults
    /\ \E scenario \in Scenarios : faults \cup {kind} \subseteq scenario
    /\ faults' = faults \cup {kind}

VerifiedL1 == CHOOSE b \in roots : \A c \in roots : c <= b
LastBatch(n) == IF n = 0 THEN 0 ELSE Sequences[n][2]
Known == {Sequences[i] : i \in 1 .. sequenced}

\* isSynced.
IsSynced == verified >= VerifiedL1

-----------------------------------------------------------------------------
(* state.proof.  A proof is the range <<from, to>> of its batches.            *)

Row(proof, locked, ready) == [proof |-> proof, locked |-> locked, ready |-> ready]
Proof(row) == row.proof

\* UpdateGeneratedProof: all columns of the row, if it is still there.
Updated(rows, proof, locked) ==
    {IF row.proof = proof THEN Row(proof, locked, TRUE) ELSE row : row \in rows}

\* DeleteGeneratedProofs: the rows inside a range.
Deleted(rows, from, to) == {row \in rows : ~(row.proof[1] >= from /\ row.proof[2] <= to)}

\* CheckProofContainsCompleteSequences, also part of GetProofReadyToVerify.
CompleteSequences(proof) ==
    (\E s \in Known : s[1] = proof[1]) /\ (\E s \in Known : s[2] = proof[2])

WithinSequence(from, to) == \E s \in Known : s[1] <= from /\ to <= s[2]

\* A mutant: rows that are locked count.
ToAggregateLocked ==
    LET pairs == {<<r1.proof, r2.proof>> : r1 \in proofs, r2 \in proofs}
    IN  {pq \in pairs : pq[1][2] = pq[2][1] - 1 /\ WithinSequence(pq[1][1], pq[2][2])}

\* GetProofsToAggregate: neighbours, free, generated, both inside one sequence
\* or both made of complete sequences; the first such pair.
ToAggregate ==
    LET free  == {row \in proofs : ~row.locked /\ row.ready}
        pairs == {<<r1.proof, r2.proof>> : r1 \in free, r2 \in free}
        ok    == {pq \in pairs :
                    /\ pq[1][2] = pq[2][1] - 1
                    /\ \/ WithinSequence(pq[1][1], pq[2][2])
                       \/ CompleteSequences(pq[1]) /\ CompleteSequences(pq[2])}
    IN  {pq \in ok : \A other \in ok : pq[1][1] <= other[1][1]}

\* A mutant: only the first batch of a proof counts.
ToProveByFirstBatch ==
    LET open == {b \in (verified + 1) .. LastBatch(sequenced) :
                    \A row \in proofs : row.proof[1] # b}
    IN  {b \in open : \A c \in open : b <= c}

\* GetVirtualBatchToProve: the first batch that is in no proof.
ToProve ==
    LET open == {b \in (verified + 1) .. LastBatch(sequenced) :
                    \A row \in proofs : ~(row.proof[1] <= b /\ b <= row.proof[2])}
    IN  {b \in open : \A c \in open : b <= c}

-----------------------------------------------------------------------------
(* The routines.  head is the attempt the loop is at; proof, with proof2 in  *)
(* an aggregation, what it works on; last the last verified batch it read.    *)

NoProof == <<0, 0>>

AtHead(h) == [pc |-> h, head |-> h, proof |-> NoProof, proof2 |-> NoProof, last |-> 0]

FirstHead(kind) == IF kind = "serial" THEN "tryFinal" ELSE kind

\* Where the loop goes after an attempt.
NextHead(r, generated) ==
    IF mode[r] # "serial" THEN mode[r]
    ELSE CASE routine[r].head = "tryFinal" -> "tryAggregate"
           [] routine[r].head = "tryAggregate" /\ ~generated -> "tryBatch"
           [] OTHER -> "tryFinal"

Finish(r, generated) == routine' = [routine EXCEPT ![r] = AtHead(NextHead(r, generated))]
Goto(r, pc) == routine' = [routine EXCEPT ![r].pc = pc]

\* tryBuildFinalProof ends without a final proof: a proof just generated is
\* still to be stored.
NotBuilt(r) ==
    IF routine[r].head = "tryFinal" THEN Finish(r, FALSE) ELSE Goto(r, "store")

At(r, pc) == routine[r].pc = pc

\* canVerifyProof: the time has come and no verification is going on.
CanVerifyProof(r) ==
    /\ At(r, "tryFinal") \/ At(r, "generated")
    /\ ~verifyingProof
    /\ Goto(r, "sync")
    /\ UNCHANGED <<mode, backend, l1Vars, proofs, sender, verifyingProof, txs, faults>>

CannotVerifyProof(r) ==
    /\ At(r, "tryFinal") \/ At(r, "generated")
    /\ NotBuilt(r)
    /\ UNCHANGED <<mode, backend, l1Vars, proofs, sender, verifyingProof, txs, faults>>

\* The wait for the synchronizer, and GetLastVerifiedBatch.
Sync(r) ==
    /\ At(r, "sync")
    /\ IsSynced
    /\ routine' = [routine EXCEPT ![r].pc = "eligible", ![r].last = verified]
    /\ UNCHANGED <<mode, backend, l1Vars, proofs, sender, verifyingProof, txs, faults>>

\* The prover disconnects in that wait: its context is done, isSynced never
\* returns true, the goroutine is lost with its lock and the prover comes back.
Disconnect(r) ==
    /\ At(r, "sync")
    /\ Fault("disconnect")
    /\ routine' = [routine EXCEPT ![r] = AtHead(FirstHead(mode[r]))]
    /\ UNCHANGED <<mode, backend, l1Vars, proofs, sender, verifyingProof, txs>>

\* getAndLockProofReadyToVerify.
LockReadyToVerify(r) ==
    /\ At(r, "eligible") /\ routine[r].head = "tryFinal"
    /\ LET ready == {row \in proofs : /\ row.proof[1] = routine[r].last + 1
                                      /\ ~row.locked /\ CompleteSequences(row.proof)}
       IN  \/ ready = {} /\ Finish(r, FALSE) /\ UNCHANGED proofs
           \/ \E row \in ready :
                 /\ proofs' = Updated(proofs, row.proof, TRUE)
                 /\ routine' = [routine EXCEPT ![r].pc = "final", ![r].proof = row.proof]
    /\ UNCHANGED <<mode, backend, l1Vars, sender, verifyingProof, txs, faults>>

\* validateEligibleFinalProof of the proof just generated.
ValidateEligible(r) ==
    /\ At(r, "eligible") /\ routine[r].head # "tryFinal"
    /\ LET p    == routine[r].proof
           next == routine[r].last + 1
       IN  \/ /\ p[2] < next
              /\ proofs' = Deleted(proofs, p[1], p[2]) /\ Goto(r, "store")
           \/ /\ p[2] >= next /\ (p[1] > next \/ ~CompleteSequences(p))
              /\ Goto(r, "store") /\ UNCHANGED proofs
           \/ /\ p[1] <= next /\ p[2] >= next /\ CompleteSequences(p)
              /\ Goto(r, "final") /\ UNCHANGED proofs
    /\ UNCHANGED <<mode, backend, l1Vars, sender, verifyingProof, txs, faults>>

\* buildFinalProof.
BuildFinalProof(r) ==
    /\ At(r, "final")
    /\ Goto(r, "send")
    /\ UNCHANGED <<mode, backend, l1Vars, proofs, sender, verifyingProof, txs, faults>>

FailFinalProof(r) ==
    /\ At(r, "final")
    /\ Fault("prover")
    /\ proofs' = IF routine[r].head = "tryFinal"
                 THEN Updated(proofs, routine[r].proof, FALSE) ELSE proofs
    /\ NotBuilt(r)
    /\ UNCHANGED <<mode, backend, l1Vars, sender, verifyingProof, txs>>

\* The message is handed to sendFinalProof when that waits for one.
SendFinalProof(r) ==
    /\ At(r, "send")
    /\ sender.pc = "idle"
    /\ sender' = [pc |-> "start", proof |-> routine[r].proof]
    /\ Finish(r, TRUE)
    /\ UNCHANGED <<mode, backend, l1Vars, proofs, verifyingProof, txs, faults>>

\* The generated proof is stored and free.
Store(r) ==
    /\ At(r, "store")
    /\ proofs' = Updated(proofs, routine[r].proof, FALSE)
    /\ Finish(r, TRUE)
    /\ UNCHANGED <<mode, backend, l1Vars, sender, verifyingProof, txs, faults>>

\* getAndLockProofsToAggregate.
LockToAggregate(r) ==
    /\ At(r, "tryAggregate")
    /\ \/ ToAggregate = {} /\ Finish(r, FALSE) /\ UNCHANGED proofs
       \/ \E pq \in ToAggregate :
             /\ proofs' = Updated(Updated(proofs, pq[1], TRUE), pq[2], TRUE)
             /\ routine' = [routine EXCEPT ![r].pc = "aggregate",
                                           ![r].proof = pq[1], ![r].proof2 = pq[2]]
    /\ UNCHANGED <<mode, backend, l1Vars, sender, verifyingProof, txs, faults>>

\* The rest of tryAggregateProofs: one transaction replaces the two proofs.
Aggregate(r) ==
    /\ At(r, "aggregate")
    /\ LET p == <<routine[r].proof[1], routine[r].proof2[2]>>
       IN  /\ proofs' = Deleted(proofs, p[1], p[2]) \cup {Row(p, TRUE, TRUE)}
           /\ routine' = [routine EXCEPT ![r] = [@ EXCEPT !.pc = "generated", !.proof = p,
                                                          !.proof2 = NoProof]]
    /\ UNCHANGED <<mode, backend, l1Vars, sender, verifyingProof, txs, faults>>

FailAggregate(r) ==
    /\ At(r, "aggregate")
    /\ Fault("prover")
    /\ proofs' = Updated(Updated(proofs, routine[r].proof, FALSE), routine[r].proof2, FALSE)
    /\ Finish(r, FALSE)
    /\ UNCHANGED <<mode, backend, l1Vars, sender, verifyingProof, txs>>

\* getAndLockBatchToProve.
LockBatchToProve(r) ==
    /\ At(r, "tryBatch")
    /\ \/ ToProve = {} /\ Finish(r, FALSE) /\ UNCHANGED proofs
       \/ \E b \in ToProve :
             /\ proofs' = proofs \cup {Row(<<b, b>>, TRUE, FALSE)}
             /\ routine' = [routine EXCEPT ![r].pc = "batch", ![r].proof = <<b, b>>]
    /\ UNCHANGED <<mode, backend, l1Vars, sender, verifyingProof, txs, faults>>

\* The rest of tryGenerateBatchProof.
GenerateBatchProof(r) ==
    /\ At(r, "batch")
    /\ Goto(r, "generated")
    /\ UNCHANGED <<mode, backend, l1Vars, proofs, sender, verifyingProof, txs, faults>>

FailBatchProof(r) ==
    /\ At(r, "batch")
    /\ Fault("prover")
    /\ proofs' = Deleted(proofs, routine[r].proof[1], routine[r].proof[2])
    /\ Finish(r, FALSE)
    /\ UNCHANGED <<mode, backend, l1Vars, sender, verifyingProof, txs>>

ProverStep(r) ==
    \/ CanVerifyProof(r) \/ CannotVerifyProof(r) \/ Sync(r) \/ LockReadyToVerify(r)
    \/ ValidateEligible(r) \/ BuildFinalProof(r) \/ SendFinalProof(r) \/ Store(r)
    \/ LockToAggregate(r) \/ Aggregate(r) \/ LockBatchToProve(r) \/ GenerateBatchProof(r)

ProverFault(r) ==
    Disconnect(r) \/ FailFinalProof(r) \/ FailAggregate(r) \/ FailBatchProof(r)

-----------------------------------------------------------------------------
(* sendFinalProof, and Start after a crash                                   *)

Idle == [pc |-> "idle", proof |-> NoProof]

StartVerification ==
    /\ sender.pc = "start"
    /\ verifyingProof' = TRUE
    /\ sender' = [sender EXCEPT !.pc = "settle"]
    /\ UNCHANGED <<mode, backend, l1Vars, proofs, routine, txs, faults>>

\* GetBatchByNumber fails: the proof stays locked.
BatchNotFound ==
    /\ sender.pc = "settle"
    /\ Fault("batchNotFound")
    /\ verifyingProof' = FALSE
    /\ sender' = Idle
    /\ UNCHANGED <<mode, backend, l1Vars, proofs, routine, txs>>

\* The gas of a verification can be estimated, the AggLayer takes it.
Accepts(p) == p[1] - 1 \in roots /\ p[2] > VerifiedL1

\* settleDirect and settleWithAggLayer up to the wait; without success the
\* proof is free again.
Settle ==
    /\ sender.pc = "settle"
    /\ LET known == backend = "direct" /\ \E tx \in txs : tx.proof = sender.proof
       IN  IF Accepts(sender.proof) /\ ~known
           THEN /\ txs' = txs \cup {[proof |-> sender.proof, status |-> "sent"]}
                /\ sender' = [sender EXCEPT !.pc = "wait"]
                /\ UNCHANGED <<proofs, verifyingProof>>
           ELSE /\ proofs' = Updated(proofs, sender.proof, FALSE)
                /\ verifyingProof' = FALSE
                /\ sender' = Idle
                /\ UNCHANGED txs
    /\ UNCHANGED <<mode, backend, l1Vars, routine, faults>>

\* The AggLayer did not mine the transaction in time: the proof is free again,
\* the transaction may be mined later.
AggLayerTimeout ==
    /\ sender.pc = "wait" /\ backend = "agglayer"
    /\ Fault("timeout")
    /\ proofs' = Updated(proofs, sender.proof, FALSE)
    /\ verifyingProof' = FALSE
    /\ sender' = Idle
    /\ UNCHANGED <<mode, backend, l1Vars, routine, txs>>

\* The verification is mined. ProcessPendingMonitoredTxs sets it done; the
\* AggLayer's client returns.
Settled ==
    /\ sender.pc = "wait"
    /\ \E tx \in txs :
          /\ tx.proof = sender.proof /\ tx.status = "mined"
          /\ txs' = (txs \ {tx}) \cup {[tx EXCEPT !.status = "done"]}
    /\ sender' = [sender EXCEPT !.pc = IF backend = "direct" THEN "cleanup" ELSE "end"]
    /\ UNCHANGED <<mode, backend, l1Vars, proofs, routine, verifyingProof, faults>>

\* handleMonitoredTxResult: when the node knows of the verification, its proofs
\* are deleted.
CleanupGeneratedProofs ==
    /\ sender.pc \in {"cleanup", "bootCleanup"}
    /\ IsSynced /\ verified >= sender.proof[2]
    /\ proofs' = {row \in proofs : row.proof[2] > sender.proof[2]}
    /\ sender' = IF sender.pc = "cleanup" THEN [sender EXCEPT !.pc = "end"]
                 ELSE [Idle EXCEPT !.pc = "boot"]
    /\ UNCHANGED <<mode, backend, l1Vars, routine, verifyingProof, txs, faults>>

\* A mutant: the flag stays.
EndVerificationFlagged ==
    /\ sender.pc = "end"
    /\ sender' = Idle
    /\ UNCHANGED <<mode, backend, l1Vars, proofs, routine, verifyingProof, txs, faults>>

\* endProofVerification.
EndVerification ==
    /\ sender.pc = "end"
    /\ verifyingProof' = FALSE
    /\ sender' = Idle
    /\ UNCHANGED <<mode, backend, l1Vars, proofs, routine, txs, faults>>

\* Start: the verifications pending from before are waited for, one by one ...
BootPending ==
    /\ sender.pc = "boot" /\ backend = "direct"
    /\ \E tx \in txs :
          /\ tx.status = "mined"
          /\ txs' = (txs \ {tx}) \cup {[tx EXCEPT !.status = "done"]}
          /\ sender' = [pc |-> "bootCleanup", proof |-> tx.proof]
    /\ UNCHANGED <<mode, backend, l1Vars, proofs, routine, verifyingProof, faults>>

\* A mutant: pending verifications are not waited for.
BootAtOnce ==
    /\ sender.pc = "boot"
    /\ IsSynced
    /\ proofs' = {row \in proofs : ~row.locked}
    /\ sender' = Idle
    /\ routine' = [r \in Routines |-> AtHead(FirstHead(mode[r]))]
    /\ UNCHANGED <<mode, backend, l1Vars, verifyingProof, txs, faults>>

\* ... then DeleteUngeneratedProofs, and when the node is synced the routines.
Boot ==
    /\ sender.pc = "boot"
    /\ backend = "direct" => \A tx \in txs : tx.status = "done"
    /\ IsSynced
    /\ proofs' = {row \in proofs : ~row.locked}
    /\ sender' = Idle
    /\ routine' = [r \in Routines |-> AtHead(FirstHead(mode[r]))]
    /\ UNCHANGED <<mode, backend, l1Vars, verifyingProof, txs, faults>>

SenderStep ==
    \/ StartVerification \/ Settle \/ Settled \/ CleanupGeneratedProofs \/ EndVerification
    \/ BootPending \/ Boot

\* The process ends, by itself or because a batch was not profitable:
\* getAndLockBatchToProve then returns no batch and no error, and
\* tryGenerateBatchProof reads the number of that batch.
Crash ==
    /\ sender.pc \notin {"boot", "bootCleanup"}
    /\ Fault("crash")
    /\ sender' = [Idle EXCEPT !.pc = "boot"]
    /\ routine' = [r \in Routines |-> AtHead("off")]
    /\ verifyingProof' = FALSE
    /\ UNCHANGED <<mode, backend, l1Vars, proofs, txs>>

-----------------------------------------------------------------------------
(* cleanupLockedProofs                                                       *)

\* What a routine or the sender works on.
Work(r) == {routine[r].proof, routine[r].proof2} \ {NoProof}
SenderWork == IF sender.pc \in {"start", "settle", "wait", "cleanup"} THEN {sender.proof} ELSE {}
InWork == SenderWork \cup UNION {Work(r) : r \in Routines}

\* Rows that were locked by work that was lost are old in the end; the node has
\* caught up with L1 by then.
CleanupLost ==
    /\ IsSynced
    /\ \E row \in proofs : row.locked /\ row.proof \notin InWork
    /\ proofs' = {row \in proofs : ~(row.locked /\ row.proof \notin InWork)}
    /\ UNCHANGED <<mode, backend, l1Vars, routine, sender, verifyingProof, txs, faults>>

\* So is a row whose proof or settlement takes too long, and one left by a
\* settlement the node is late to hear of.
CleanupSlow ==
    /\ Fault("cleanup")
    /\ \E row \in proofs :
          row.locked /\ (row.proof \in InWork \/ ~IsSynced) /\ proofs' = proofs \ {row}
    /\ UNCHANGED <<mode, backend, l1Vars, routine, sender, verifyingProof, txs>>

-----------------------------------------------------------------------------
(* L1 and the synchronizer                                                   *)

SyncSequence ==
    /\ sequenced < Len(Sequences)
    /\ sequenced' = sequenced + 1
    /\ UNCHANGED <<mode, backend, verified, roots, proofs, routine, sender, verifyingProof, txs,
                   faults>>

\* A verification is mined, unless the contract does not accept it any more.
Mine ==
    /\ \E tx \in txs :
          /\ tx.status = "sent"
          /\ IF Accepts(tx.proof)
             THEN roots' = roots \cup {tx.proof[2]} /\ txs' = (txs \ {tx}) \cup {[tx EXCEPT !.status = "mined"]}
             ELSE txs' = txs \ {tx} /\ UNCHANGED roots
    /\ UNCHANGED <<mode, backend, sequenced, verified, proofs, routine, sender, verifyingProof,
                   faults>>

SyncVerified ==
    /\ verified < VerifiedL1
    /\ verified' = VerifiedL1
    /\ UNCHANGED <<mode, backend, sequenced, roots, proofs, routine, sender, verifyingProof, txs,
                   faults>>

Init ==
    /\ mode \in Modes /\ backend \in Backends
    /\ sequenced = 0 /\ verified = 0 /\ roots = {0}
    /\ proofs = {} /\ txs = {} /\ faults = {} /\ verifyingProof = FALSE
    /\ sender = Idle
    /\ routine = [r \in Routines |-> AtHead(FirstHead(mode[r]))]

Next ==
    \/ \E r \in Routines : ProverStep(r) \/ ProverFault(r)
    \/ SenderStep \/ BatchNotFound \/ AggLayerTimeout \/ Crash
    \/ CleanupLost \/ CleanupSlow
    \/ SyncSequence \/ Mine \/ SyncVerified

Spec == Init /\ [][Next]_vars

Fairness ==
    /\ \A r \in Routines : WF_vars(ProverStep(r)) /\ SF_vars(CanVerifyProof(r))
    /\ WF_vars(SenderStep) /\ WF_vars(CleanupLost)
    /\ WF_vars(SyncSequence) /\ WF_vars(Mine) /\ WF_vars(SyncVerified)

FairSpec == Spec /\ Fairness

-----------------------------------------------------------------------------
(* Properties                                                                *)

Batches == 1 .. LastBatch(Len(Sequences))
Ranges == {p \in Batches \X Batches : p[1] <= p[2]}

TypeOK ==
    /\ mode \in Modes /\ backend \in Backends
    /\ sequenced \in 0 .. Len(Sequences)
    /\ verified \in roots /\ roots \subseteq {0} \cup Batches
    /\ \A row \in proofs : row.proof \in Ranges /\ (row.locked \/ row.ready)
    /\ \A r \in Routines : Work(r) \subseteq Ranges
    /\ sender.proof \in Ranges \cup {NoProof}
    /\ verifyingProof \in BOOLEAN
    /\ \A tx \in txs : tx.proof \in Ranges /\ tx.status \in {"sent", "mined", "done"}
    /\ faults \subseteq FaultKinds

Overlap(p, q) == p[1] <= q[2] /\ q[1] <= p[2]

(***************************************************************************)
(* No batch is in two rows of state.proof, whichever goroutine wrote them: *)
(* what GetVirtualBatchToProve, the aggregation's transaction and the      *)
(* clean-ups keep up together, with no constraint in the table.  Only the  *)
(* clean-up of rows whose work still goes on breaks it.                    *)
(***************************************************************************)
ProofsDisjoint ==
    "cleanup" \notin faults =>
        \A r1, r2 \in proofs : Overlap(r1.proof, r2.proof) => r1 = r2

(***************************************************************************)
(* No two provers work on the same batch, and none on a batch that is      *)
(* being settled: locks taken under StateDBMutex outlive the mutex, the    *)
(* failures of provers and a lost goroutine.                               *)
(***************************************************************************)
NoDoubleWork ==
    "cleanup" \notin faults =>
        /\ \A r, s \in Routines : r # s => \A p \in Work(r), q \in Work(s) : ~Overlap(p, q)
        /\ \A r \in Routines : \A p \in Work(r), q \in SenderWork : ~Overlap(p, q)

\* Settlements that the aggregator gave up, and that may still be mined.
SettlementGivenUp == backend = "agglayer" /\ faults \cap {"timeout", "crash"} # {}

(***************************************************************************)
(* A verification on its way to L1 is the only one, and L1 will take it:   *)
(* canVerifyProof, the wait for the synchronizer and the wait of Start for *)
(* what was pending before a crash leave no second one that would revert.  *)
(***************************************************************************)
NoWastedVerification ==
    ~SettlementGivenUp =>
        \A tx, other \in txs :
            tx.status = "sent" => Accepts(tx.proof) /\ (other.status = "sent" => other = tx)

Straddles(p) == p[1] <= verified /\ verified < p[2]

(***************************************************************************)
(* Every sequenced batch is verified in the end, whatever prover fails,    *)
(* disconnects or locks a row for nothing, and after a crash.  What can    *)
(* remain are batches in a stored proof that starts at or before the last  *)
(* verified batch: GetProofReadyToVerify does not find such a proof, and   *)
(* it takes a settlement given up and mined after all to get there.        *)
(***************************************************************************)
AllVerified ==
    <>[](\/ verified = LastBatch(Len(Sequences))
         \/ /\ SettlementGivenUp \/ "cleanup" \in faults
            /\ \E row \in proofs : Straddles(row.proof))
=============================================================================
