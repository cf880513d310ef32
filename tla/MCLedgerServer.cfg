CONSTANTS
    alice = alice
    bob = bob
    escrow = escrow
    payment = payment
    Admin = Admin
    Accounts = {alice, bob}
    Transfers = {escrow, payment}
    Debit <- MCDebit
    Credit <- MCCredit
    HasExecution = {escrow}
    HasCancellation = {escrow}
    ExpiresAt <- MCExpiresAt
    CreditAuth = FALSE
    InitialBalance <- MCInitialBalance
    MinBalance <- MCMinBalance
    Clients = {c1, c2}
    TimerRuns = {timerRun}
    Submissions <- AllPuts
    Faults = {}
    MaxRetries <- RetryOnce
    MaxTime = 2
    MaxRequests = 3
    MaxCrashes = 0
SPECIFICATION Spec
INVARIANTS TypeOK SnapshotCurrent EntriesMatchState SendersAgreed
PROPERTIES ImplementsLedger OwnMarksOnly
SYMMETRY ClientSymmetry
