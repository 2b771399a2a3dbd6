SPECIFICATION Spec
CONSTANTS
    alice = alice
    bob = bob
    t1 = t1
    t2 = t2
    t3 = t3
    NoTx = NoTx
    Txs = {t1, t2, t3}
    Addrs = {alice, bob}
    From <- SeqFrom
    Nonce <- SeqNonce
    GasPrice <- SeqPrice
    Fee <- SeqPrice
    Cost <- SeqCost
    InitBalance <- MCInitBalance
    Faulty = {t1, t2}
    Expirable = {}
    StateReadMayFail = TRUE
    MaxReorgs = 1
    MaxCrashes = 1
    MaxResubmits = 1
INVARIANTS
    QueueNonceInSync
CHECK_DEADLOCK FALSE
