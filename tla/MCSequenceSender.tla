-------------------------- MODULE MCSequenceSender --------------------------
EXTENDS SequenceSender

\* The faults alone, and the pairs whose handling meets in the code: a new nonce
\* after a revert with a call that fails, with a replaced transaction and with a
\* restart; a replaced transaction that is forgotten or followed by a restart.
MCScenarios ==
    {{"revert", "rpcError"}, {"revert", "priceRise"}, {"revert", "crash"},
     {"priceRise", "eviction"}, {"priceRise", "crash"}, {"reorg"}, {"refusal"}}
=============================================================================
