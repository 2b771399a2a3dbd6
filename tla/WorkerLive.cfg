SPECIFICATION FairSpec
CONSTANTS
    alice = alice
    bob = bob
    t1 = t1
    t2 = t2
    t3 = t3
    NoTx = NoTx
    Txs = {t1, t2}
    Addrs = {alice, bob}
    From <- TwoFrom
    Nonce <- TwoNonce
    GasPrice <- TwoPrice
    Fee <- TwoPrice
    Cost <- TwoCost
    InitBalance <- MCInitBalance
    Faulty = {t1}
    Expirable = {t1, t2}
    StateReadMayFail = FALSE
    MaxReorgs = 1
    MaxCrashes = 0
    MaxResubmits = 0
PROPERTIES
    PendingResolved
CHECK_DEADLOCK FALSE
