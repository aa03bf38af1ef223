SPECIFICATION Spec
CONSTANTS
    f1 = f1  f2 = f2  vault = vault  c1 = c1  c2 = c2  w1 = w1  w2 = w2  k1 = k1  k2 = k2
    Factories = {f1, f2}
    Vault = vault
    Stored = {f1}
    Clients = {c1, c2}
    Workers = {w1, w2}
    Keys = {k1}
    None = None
    Opening = 2
    Funding = 1
    Price = 1
    Fee = 1
    Floor = 1
    MaxOps = 3
    MaxMonth = 2
    MaxDeaths = 1
SYMMETRY Symmetry
CHECK_DEADLOCK FALSE
INVARIANTS
    TypeOK LedgerSound ChargedOnce DoneIsBilled
