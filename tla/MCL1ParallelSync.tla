-------------------------- MODULE MCL1ParallelSync --------------------------
(* The faults of a behaviour. *)
EXTENDS L1ParallelSync

MCScenarios == {{"reorg", "db"}, {"rpc"}, {"process"}, {"crash"}}

MCReorg == {{"reorg"}}
=============================================================================
