SPECIFICATION Spec
CONSTANTS
    alice = alice
    bob = bob
    t1 = t1
    t2 = t2
    t3 = t3
    NoTx = NoTx
    Txs = {t1, t2, t3}
    Addrs = {alice, bob}
    From <- DupFrom
    Nonce <- DupNonce
    GasPrice <- DupPrice
    Fee <- DupFee
    Cost <- SeqCost
    InitBalance <- MCInitBalance
    Faulty = {}
    Expirable = {}
    StateReadMayFail = FALSE
    MaxReorgs = 0
    MaxCrashes = 0
    MaxResubmits = 0
INVARIANTS
    NoTxLost
CHECK_DEADLOCK FALSE
