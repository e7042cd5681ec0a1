SPECIFICATION Spec
CONSTANTS
    c1 = c1
    c2 = c2
    Networks = {"evm", "utxo"}
    FoldedNetworks = {"evm"}
    Spellings <- MCSpellings
    Canon <- MCCanon
    Words = {1}
    Bits = {1, 2}
    Hash <- MCHash
    Clients = {c1, c2}
    SeedMayFail = TRUE
    MaxRestarts = 1
SYMMETRY ClientSymmetry
INVARIANTS
    WatchedIsSeen
    UnwatchedIsNotSeen
