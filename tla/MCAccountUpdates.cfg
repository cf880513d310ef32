CONSTANTS
    alice = alice
    bob = bob
    root = root
    NewKey = NewKey
    Names = {alice, bob, root}
    Root = root
    NoCredential = NoCredential
    Configured = Configured
    Credentials = {NoCredential, Configured, NewKey}
    Unlimited = Unlimited
    NoAccount = NoAccount
    ToScale <- ThroughDouble
    ToNumber <- ThroughDouble
    InitialBook <- MCInitialBook
    Puts <- MCPuts
    Moves <- MCMoves
    Procs = {p1, p2, p3}
    NoJob = NoJob
    MaxRetries = 1
    MaxRequests = 3
    MaxRestarts = 1
SPECIFICATION Spec
INVARIANTS TypeOK CreatedOnce
PROPERTIES NothingFromDisabled ImplementsAccountBook
SYMMETRY ProcSymmetry
