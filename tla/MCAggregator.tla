---------------------------- MODULE MCAggregator ----------------------------
EXTENDS Aggregator, TLC

MCRoutines == {"r1", "r2", "r3"}

\* Two provers in serial mode, one in parallel mode.
MCModes ==
    {("r1" :> "serial") @@ ("r2" :> "serial") @@ ("r3" :> "off"),
     ("r1" :> "tryFinal") @@ ("r2" :> "tryAggregate") @@ ("r3" :> "tryBatch")}

MCSequences == <<<<1, 2>>, <<3, 3>>>>

MCScenarios == {{k} : k \in FaultKinds}
=============================================================================
