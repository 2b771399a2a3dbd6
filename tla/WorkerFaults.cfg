SPECIFICATION Spec
CONSTANTS
    alice = alice
    bob = bob
    t1 = t1
    t2 = t2
    t3 = t3
    NoTx = NoTx
    Txs = {t1, t2, t3}
    Addrs = {alice, bob}
    From <- DupFrom
    Nonce <- DupNonce
    GasPrice <- DupPrice
    Fee <- DupFee
    Cost <- SeqCost
    InitBalance <- MCInitBalance
    Faulty = {t1, t2}
    Expirable = {t2}
    StateReadMayFail = TRUE
    MaxReorgs = 1
    MaxCrashes = 1
    MaxResubmits = 1
INVARIANTS
    ReadyTxsListed
    OnePlace
    NoQueueOverwritten
PROPERTIES
    NoOrphanTx
    StoredTxSelected
CHECK_DEADLOCK FALSE
