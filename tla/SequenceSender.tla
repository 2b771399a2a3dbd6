--------------------------- MODULE SequenceSender ---------------------------
(***************************************************************************)
(* The sequence sender (sequencesender/sequencesender.go and               *)
(* sequencesender_xlayer.go) with the manager of its L1 transactions       *)
(* (module EthTxManager) and the data committee that signs the data        *)
(* (dataavailability/datacommittee/datacommittee.go, PostSequence).        *)
(*                                                                         *)
(* The sender's goroutine is a loop over tryToSendSequenceXLayer: settle   *)
(* the pending transactions, check that node and contract agree, collect   *)
(* checked batches, get them signed, add the transaction.  Every read of   *)
(* the database or of L1 and every write is a step.  halt never returns;   *)
(* the loop's memory (lastSequenceEndBatch) is lost by a crash.            *)
(*                                                                         *)
(* External: the sequencer has closed the batches 1 .. MaxBatch and checks *)
(* them (module Finalizer).  Left out: calls to L1 or to the database that *)
(* fail in the loop, which only start it over, and the comparison of the   *)
(* virtual batches with the closed ones, which sequenced batches are.      *)
(***************************************************************************)
EXTENDS EthTxManager

CONSTANTS
    MaxBatch,                     \* batches of the instance
    MaxBatchesForL1,
    ForkUpgradeBatchNumber,       \* 0 when no upgrade is planned
    SequenceL1BlockConfirmations,
    Members,                      \* members of the data committee
    RequiredSignatures,
    ForcedGas                     \* gas of a call that cannot be estimated, 0 for none

ASSUME SequenceSenderAssumption ==
    /\ MaxBatch \in Nat /\ MaxBatchesForL1 \in Nat \ {0}
    /\ ForkUpgradeBatchNumber \in Nat /\ SequenceL1BlockConfirmations \in Nat
    /\ Members \in Nat /\ RequiredSignatures \in 0 .. Members /\ ForcedGas \in Nat

VARIABLES
    checked,   \* batches that passed the sequencer's sanity check
    sender     \* the goroutine of the sequence sender

netVars == <<chain, mempool, synced, faults>>
vars == <<netVars, monitored, mon, checked, sender>>

NoResult == [id |-> <<0, 0>>, status |-> "done", block |-> 0]

\* Start of the process. pc is where the loop is, results the results still to
\* be handled, result the one being handled and row its row as read by
\* setStatusDone; virtual, sequence, signatures, nonce are locals.
SenderStart ==
    [pc |-> "results", results |-> <<>>, result |-> NoResult, row |-> <<>>, retry |-> FALSE,
     virtual |-> 0, sequence |-> <<1, 0>>, signed |-> 0, refused |-> 0, nonce |-> 0,
     lastSequenceEndBatch |-> 0]

\* The loop starts over; only lastSequenceEndBatch survives.
Restarted(end) == [SenderStart EXCEPT !.lastSequenceEndBatch = end]
Again == sender' = Restarted(sender.lastSequenceEndBatch)

Halt == sender' = [Restarted(sender.lastSequenceEndBatch) EXCEPT !.pc = "halted"]

-----------------------------------------------------------------------------
(* ProcessPendingMonitoredTxs                                                *)

\* buildResult: the status with the block of a transaction of the history that
\* has a receipt, 0 if none has; the handler takes any of them.
Results(rows) ==
    {res \in [DOMAIN rows -> {[id |-> rows[i].id, status |-> rows[i].status, block |-> b] :
                                 i \in DOMAIN rows, b \in 0 .. Len(chain)}] :
        \A i \in DOMAIN rows :
            /\ res[i].id = rows[i].id /\ res[i].status = rows[i].status
            /\ LET blocks == {MinedAt(chain, tx) : tx \in rows[i].history} \ {0}
               IN  IF blocks = {} THEN res[i].block = 0 ELSE res[i].block \in blocks}

\* The next of the results: a confirmed one is set as done, any other waited
\* for; after the last they are asked for again.
Handle(s, results) ==
    IF results = <<>> THEN [s EXCEPT !.pc = "results", !.results = <<>>]
    ELSE [s EXCEPT !.pc = IF Head(results).status = "confirmed" THEN "get" ELSE "waitTx",
                   !.results = Tail(results), !.result = Head(results)]

\* ResultsByStatus; without any the loop ends, and a failed result seen in it
\* ends the attempt. A failed result is only noted.
GetResults ==
    /\ sender.pc = "results"
    /\ LET rows == GetByStatus({"created", "sent", "failed", "confirmed", "reorged"})
       IN  \/ /\ rows = <<>>
              /\ IF sender.retry THEN Again ELSE sender' = [sender EXCEPT !.pc = "virtual"]
           \/ /\ rows # <<>>
              /\ \E results \in Results(rows) :
                    sender' = Handle(
                        [sender EXCEPT !.retry = @ \/ \E i \in DOMAIN rows : rows[i].status = "failed"],
                        SelectSeq(results, LAMBDA r : r.status # "failed"))
    /\ UNCHANGED <<netVars, monitored, mon, checked>>

\* The result is read again until it is confirmed or failed; it is handled in
\* the next round.
WaitTx ==
    /\ sender.pc = "waitTx"
    /\ RowOf(sender.result.id).status \in {"confirmed", "failed"}
    /\ sender' = Handle([sender EXCEPT !.result = NoResult], sender.results)
    /\ UNCHANGED <<netVars, monitored, mon, checked>>

\* setStatusDone reads the row ...
SetStatusDoneGet ==
    /\ sender.pc = "get"
    /\ sender' = [sender EXCEPT !.pc = "done", !.row = RowOf(sender.result.id)]
    /\ UNCHANGED <<netVars, monitored, mon, checked>>

\* ... and writes it back as done; then the handler runs.
SetStatusDone ==
    /\ sender.pc = "done"
    /\ Update([sender.row EXCEPT !.status = "done"])
    /\ \/ sender.result.block = 0 /\ Halt
       \/ sender.result.block # 0 /\ sender' = [sender EXCEPT !.pc = "confirmations", !.row = <<>>]
    /\ UNCHANGED <<netVars, mon, checked>>

\* A mutant: no confirmation is waited for.
ConfirmationsNotAwaited ==
    /\ sender.pc = "confirmations"
    /\ Len(chain) >= sender.result.block
    /\ IF sender.lastSequenceEndBatch \notin {0, LastSequenced(chain)}
       THEN Halt ELSE sender' = Handle([sender EXCEPT !.result = NoResult], sender.results)
    /\ UNCHANGED <<netVars, monitored, mon, checked>>

\* The handler waits for the confirmations and compares what was sent with what
\* the contract has.
Confirmations ==
    /\ sender.pc = "confirmations"
    /\ Len(chain) >= sender.result.block + SequenceL1BlockConfirmations
    /\ IF sender.lastSequenceEndBatch \notin {0, LastSequenced(chain)}
       THEN Halt ELSE sender' = Handle([sender EXCEPT !.result = NoResult], sender.results)
    /\ UNCHANGED <<netVars, monitored, mon, checked>>

-----------------------------------------------------------------------------
(* sanityCheck                                                               *)

\* GetLastVirtualBatchNum, from the database.
SanityRead ==
    /\ sender.pc = "virtual"
    /\ sender' = [sender EXCEPT !.pc = "sanity", !.virtual = LastSequenced(synced)]
    /\ UNCHANGED <<netVars, monitored, mon, checked>>

\* The contract is read until it has the virtual batch, a limited number of
\* times: "sanity" is the first read, "sanityRetry" the others.
SanityCheck ==
    /\ sender.pc \in {"sanity", "sanityRetry"}
    /\ LET lastSC == LastSequenced(chain)
           agrees == IF sender.pc = "sanity" THEN sender.virtual <= lastSC
                                             ELSE sender.virtual = lastSC
       IN  \/ agrees /\ sender' = [sender EXCEPT !.pc = "sequences", !.virtual = 0]
           \/ ~agrees /\ sender.pc = "sanity" /\ sender' = [sender EXCEPT !.pc = "sanityRetry"]
           \/ ~agrees /\ sender.pc = "sanityRetry" /\ (UNCHANGED sender \/ Halt)
    /\ UNCHANGED <<netVars, monitored, mon, checked>>

-----------------------------------------------------------------------------
(* getSequencesToSendXLayer                                                  *)

\* A mutant: only the last batch has to be checked.
SequenceEndUnchecked(from) ==
    LET CanEnd(n) == n < from + MaxBatchesForL1 /\ (from <= n => n \in checked)
    IN  CHOOSE n \in (from - 1) .. MaxBatch :
            CanEnd(n) /\ \A m \in (from - 1) .. MaxBatch : CanEnd(m) => m <= n

\* The batches from `from` on that go in one transaction: checked ones without
\* a gap, up to MaxBatchesForL1, none after the batch of a fork upgrade.
SequenceEnd(from) ==
    LET CanEnd(n) == /\ from .. n \subseteq checked
                     /\ n < from + MaxBatchesForL1
                     /\ ForkUpgradeBatchNumber \in from .. n => n = ForkUpgradeBatchNumber
    IN  CHOOSE n \in (from - 1) .. MaxBatch :
            CanEnd(n) /\ \A m \in (from - 1) .. MaxBatch : CanEnd(m) => m <= n

\* A full sequence, or one before an upgrade, is sent at once.
IsFull(from, to) ==
    \/ to = from + MaxBatchesForL1 - 1
    \/ ForkUpgradeBatchNumber # 0 /\ to = ForkUpgradeBatchNumber

\* Nothing may be sequenced after the fork upgrade.
AfterUpgrade(from) == ForkUpgradeBatchNumber # 0 /\ from = ForkUpgradeBatchNumber + 1

\* There are batches, enough of them or waiting for long enough. The waits for
\* the time margin of L1 and of the clock change nothing else.
GetSequences ==
    /\ sender.pc = "sequences"
    /\ LET from == LastSequenced(chain) + 1
           to   == SequenceEnd(from)
       IN  /\ ~AfterUpgrade(from) /\ from <= to
           /\ sender' = [sender EXCEPT !.pc = "post", !.sequence = <<from, to>>]
    /\ UNCHANGED <<netVars, monitored, mon, checked>>

NotWorthSending ==
    /\ sender.pc = "sequences"
    /\ LET from == LastSequenced(chain) + 1
           to   == SequenceEnd(from)
       IN  AfterUpgrade(from) \/ to < from \/ ~IsFull(from, to)
    /\ Again
    /\ UNCHANGED <<netVars, monitored, mon, checked>>

-----------------------------------------------------------------------------
(* PostSequence of the data committee, and ethTxManager.Add                  *)

\* A member's answer is taken from the channel.
Signed ==
    /\ sender.pc = "post"
    /\ sender.signed < RequiredSignatures
    /\ sender.signed + sender.refused < Members
    /\ sender' = [sender EXCEPT !.signed = @ + 1]
    /\ UNCHANGED <<netVars, monitored, mon, checked>>

Refused ==
    /\ sender.pc = "post"
    /\ sender.signed < RequiredSignatures
    /\ sender.signed + sender.refused < Members
    /\ Fault("refusal")
    /\ IF Members - (sender.refused + 1) < RequiredSignatures
       THEN Again ELSE sender' = [sender EXCEPT !.refused = @ + 1]
    /\ UNCHANGED <<chain, mempool, synced, monitored, mon, checked>>

\* Add reads the nonce and estimates the gas: a call that would fail is not sent,
\* unless ForcedGas is set ...
AddEstimate ==
    /\ sender.pc = "post"
    /\ sender.signed >= RequiredSignatures
    /\ IF EstimateGas(sender.sequence) \/ ForcedGas > 0
       THEN sender' = [sender EXCEPT !.pc = "add", !.nonce = CurrentNonce] ELSE Again
    /\ UNCHANGED <<netVars, monitored, mon, checked>>

\* A mutant: the first batch of the sequence is remembered.
AddStoreFirstBatch ==
    /\ sender.pc = "add"
    /\ \/ sender.sequence \in Ids /\ Again /\ UNCHANGED monitored
       \/ /\ sender.sequence \notin Ids
          /\ AddRow(sender.sequence, sender.nonce, GasPrice)
          /\ sender' = Restarted(sender.sequence[1])
    /\ UNCHANGED <<netVars, mon, checked>>

\* ... and inserts the row, unless the id exists.
AddStore ==
    /\ sender.pc = "add"
    /\ \/ sender.sequence \in Ids /\ Again /\ UNCHANGED monitored
       \/ /\ sender.sequence \notin Ids
          /\ AddRow(sender.sequence, sender.nonce, GasPrice)
          /\ sender' = Restarted(sender.sequence[2])
    /\ UNCHANGED <<netVars, mon, checked>>

SenderStep ==
    \/ GetResults \/ WaitTx \/ SetStatusDoneGet \/ SetStatusDone
    \/ Confirmations \/ SanityRead \/ SanityCheck
    \/ GetSequences \/ NotWorthSending \/ Signed \/ Refused \/ AddEstimate \/ AddStore

-----------------------------------------------------------------------------
(* The sequencer, crashes, and the whole                                     *)

\* The checks of several batches may run at the same time.
CheckBatch ==
    /\ \E b \in (1 .. MaxBatch) \ checked : checked' = checked \cup {b}
    /\ UNCHANGED <<netVars, monitored, mon, sender>>

\* The node stops and starts again: goroutines and memory are lost.
Crash ==
    /\ Fault("crash")
    /\ mon' = <<>>
    /\ sender' = SenderStart
    /\ UNCHANGED <<chain, mempool, synced, monitored, checked>>

Init ==
    /\ chain = <<>> /\ mempool = {} /\ synced = <<>>
    /\ monitored = <<>> /\ mon = <<>>
    /\ checked = {} /\ sender = SenderStart
    /\ faults = {}

ManagerStep == MonitorTxs \/ \E id \in DOMAIN mon : MonitorTx(id)

Next ==
    \/ (MineTx \/ MineEmpty \/ L1Reorg \/ Evict \/ PriceRise \/ SyncBlock \/ ResetState
        \/ ManagerStep) /\ UNCHANGED <<checked, sender>>
    \/ SenderStep \/ CheckBatch \/ Crash

Spec == Init /\ [][Next]_vars

\* The goroutines run and L1 mines; a sequence is sent when enough time has
\* passed, however often the sender looked before (SF).
Env(action) == action /\ UNCHANGED <<checked, sender>>

Fairness ==
    /\ WF_vars(Env(MineTx)) /\ WF_vars(Env(MineEmpty))
    /\ WF_vars(Env(SyncBlock \/ ResetState)) /\ WF_vars(Env(MonitorTxs))
    /\ \A from, to \in 1 .. MaxBatch : WF_vars(Env(MonitorTx(<<from, to>>)))
    /\ WF_vars(SenderStep) /\ SF_vars(GetSequences) /\ WF_vars(CheckBatch)

FairSpec == Spec /\ Fairness

-----------------------------------------------------------------------------
(* Properties                                                                *)

Statuses == {"created", "sent", "reorged", "confirmed", "failed", "done"}
SequenceIds == (1 .. MaxBatch) \X (1 .. MaxBatch)
Txs == [id : SequenceIds, nonce : Nat, gasPrice : {1, 2}]
Rows == [id : SequenceIds, nonce : Nat, gasPrice : {1, 2}, status : Statuses,
         block : Nat, history : SUBSET Txs]

\* Type of the state; a row that is not settled has no block, ids are unique.
TypeOK ==
    /\ mempool \subseteq Txs /\ checked \subseteq 1 .. MaxBatch
    /\ \A c \in {chain, synced} : \A b \in DOMAIN c :
          c[b].tx \in Txs \cup {NoTx} /\ c[b].outcome \in {"ok", "conflict", "reverted", "reason"}
    /\ \A i \in DOMAIN monitored :
          LET row == monitored[i]
          IN  /\ row.id \in SequenceIds /\ row.status \in Statuses /\ row.history \subseteq Txs
              /\ row.status \in Pending => row.block = 0
              /\ \A j \in DOMAIN monitored : row.id = monitored[j].id => i = j
    /\ DOMAIN mon \subseteq Ids
    /\ sender.pc \in {"results", "waitTx", "get", "done", "confirmations",
                     "virtual", "sanity", "sanityRetry", "sequences", "post", "add", "halted"}

\* The sender halts (s.halt in tryToSendSequenceXLayer and sanityCheck: no
\* receipt, or a contract that differs from what was sent) only if L1 was
\* reorged: not by reverted, evicted or repriced transactions, not by a crash at
\* any point, not by failed calls.
HaltOnlyAfterReorg == sender.pc = "halted" => "reorg" \in faults

\* Without a reorg no transaction of ours is mined and rejected because its
\* batches were already sequenced (monitorTx: "to avoid sending duplicated data
\* to the roll-up"): resending, repricing, a new nonce after a revert and a
\* restart never send the same batches twice with success.
NoDuplicatedData ==
    (\E b \in DOMAIN chain : chain[b].outcome = "conflict") => "reorg" \in faults

\* Only batches that passed the sanity check are sequenced, and each exactly
\* after the one before it: the successful transactions cover 1 .. n.
OnlyCheckedSequenced == 1 .. LastSequenced(chain) \subseteq checked

\* The successful transactions have their confirmations on L1.
AllConfirmed ==
    \A b \in DOMAIN chain : chain[b].tx # NoTx /\ chain[b].outcome = "ok" =>
        Len(chain) >= b + SequenceL1BlockConfirmations

\* A new sequence is added only when the transaction of the one before has its
\* L1 confirmations, unless the wait for them was cut by a crash (setStatusDone
\* comes before the wait, which a restarted sender does not take up), undone by
\* a reorg, or counted from a reverted transaction of the same row, which the
\* handler may take for the one that succeeded.
ConfirmationsAwaited ==
    [][ Len(monitored') > Len(monitored) =>
            AllConfirmed \/ faults \cap {"reorg", "crash", "revert"} # {} ]_vars

\* A transaction was reverted while one it had replaced, of the same nonce, can
\* never be mined.
ReplacedAndReverted ==
    \E i \in DOMAIN monitored : \E t, u \in monitored[i].history :
        t # u /\ t.nonce = u.nonce /\ IsMined(t) /\ Outcome(t) # "ok"

\* Without reorgs every checked batch gets sequenced and is seen by the
\* synchronizer, whatever is reverted, evicted, refused or crashes; except when
\* a repriced transaction is reverted: the one it replaced is waited for, for ever.
AllSequenced ==
    <>[]("reorg" \notin faults /\ ~ReplacedAndReverted => LastSequenced(synced) = MaxBatch)
=============================================================================
