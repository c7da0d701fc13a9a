SPECIFICATION Spec
CONSTANTS
    alice = alice
    bob = bob
    s1 = s1
    s2 = s2
    s3 = s3
    s4 = s4
    Coinbase = coinbase
    Accounts = {alice, bob}
    Reward = 2
    RoundsUp = {}
    Submitters = {s1, s2, s3, s4}
    TxOf <- MCTxOf
    Miners = {m1}
    Readers = {r1}
    MinerAccount = alice
    Qualities = {0, 1}
    MaxBlocks = 4
INVARIANT AcceptedKept
CHECK_DEADLOCK FALSE
