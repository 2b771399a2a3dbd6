--------------------------- MODULE MCSynchronizer ---------------------------
EXTENDS Synchronizer

\* A reorg of L1 and one fault of each other kind, in behaviours of their own.
MCScenarios == {{"reorg", k} : k \in FaultKinds}
=============================================================================
