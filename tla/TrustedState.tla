---------------------------- MODULE TrustedState ----------------------------
(***************************************************************************)
(* The trusted state as the other parts of the node see it in the state    *)
(* database: a sequence of numbered batches that only grows.  The data of  *)
(* a batch are items: the L2 blocks the sequencer put into it, or a forced *)
(* batch.  Only the last batch may be open; a closed batch never changes,  *)
(* so that it can be sent to L1, proved and served by the RPC.             *)
(***************************************************************************)
EXTENDS Integers, Sequences

CONSTANT Items
VARIABLE state

Batch(num, items, open) == [num |-> num, items |-> items, open |-> open]

last == Len(state)

\* an item is used once
Fresh(item) == \A i \in 1 .. last : \A j \in 1 .. Len(state[i].items) : state[i].items[j] # item

Init == state = <<Batch(1, <<>>, FALSE)>>

\* an L2 block joins the open batch
AddBlock(item) ==
    /\ state[last].open /\ Fresh(item)
    /\ state' = [state EXCEPT ![last].items = Append(@, item)]

\* an L2 block starts the next batch, closing the last one if it is open
AddBatch(item) ==
    /\ Fresh(item)
    /\ state' = [i \in 1 .. (last + 1) |->
                    IF i <= last THEN [state[i] EXCEPT !.open = FALSE]
                    ELSE Batch(state[last].num + 1, <<item>>, TRUE)]

\* the last batch is closed
CloseBatch ==
    /\ state[last].open
    /\ state' = [state EXCEPT ![last].open = FALSE]

\* a forced batch becomes the next batch, closed from the start
AddForcedBatch(item) ==
    /\ ~state[last].open /\ Fresh(item)
    /\ state' = Append(state, Batch(state[last].num + 1, <<item>>, FALSE))

Next ==
    \/ \E item \in Items : AddBlock(item) \/ AddBatch(item) \/ AddForcedBatch(item)
    \/ CloseBatch

Spec == Init /\ [][Next]_state
=============================================================================
