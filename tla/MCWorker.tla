------------------------------ MODULE MCWorker ------------------------------
(***************************************************************************)
(* Instances of Worker for TLC: the senders alice and bob, consecutive or  *)
(* competing nonces.                                                       *)
(***************************************************************************)
EXTENDS Worker, TLC

CONSTANTS alice, bob, t1, t2, t3

MCInitBalance == alice :> 1 @@ bob :> 2

\* two transactions of alice with consecutive nonces, one of bob that may
\* fund alice
SeqFrom  == t1 :> alice @@ t2 :> alice @@ t3 :> bob
SeqNonce == t1 :> 0 @@ t2 :> 1 @@ t3 :> 0
SeqPrice == t1 :> 1 @@ t2 :> 2 @@ t3 :> 1
SeqCost  == t1 :> 1 @@ t2 :> 1 @@ t3 :> 1

\* three transactions of alice: t2 and t3 compete for nonce 1
DupFrom  == t1 :> alice @@ t2 :> alice @@ t3 :> alice
DupNonce == t1 :> 0 @@ t2 :> 1 @@ t3 :> 1
DupPrice == t1 :> 1 @@ t2 :> 2 @@ t3 :> 1
DupFee   == t1 :> 1 @@ t2 :> 2 @@ t3 :> 2

\* the transactions of alice alone
TwoFrom  == t1 :> alice @@ t2 :> alice
TwoNonce == t1 :> 0 @@ t2 :> 1
TwoPrice == t1 :> 2 @@ t2 :> 1
TwoCost  == t1 :> 1 @@ t2 :> 1
=============================================================================
