SPECIFICATION Spec
CONSTANTS
    alice = alice
    bob = bob
    Coinbase = coinbase
    Accounts <- MCAccounts
    Reward = 2
    RoundsUp = {3}
    Programs <- MCPrograms
SYMMETRY Symmetric
INVARIANTS Conserved NoOverdraft NoReplay TamperEvident MinedValidates
PROPERTY DifficultyNeverFalls
