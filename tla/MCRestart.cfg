CONSTANTS
    alice = alice
    bob = bob
    escrow = escrow
    payment = payment
    Admin = Admin
    Accounts = {alice, bob}
    Transfers = {escrow}
    Debit <- MCDebit
    Credit <- MCCredit
    HasExecution = {escrow}
    HasCancellation = {escrow}
    ExpiresAt <- MCExpiresAt
    CreditAuth = FALSE
    InitialBalance <- MCInitialBalance
    MinBalance <- MCMinBalance
    Clients = {c1}
    TimerRuns = {timerRun}
    Submissions <- EscrowPuts
    Faults = {}
    MaxRetries <- RetryOnce
    MaxTime = 2
    MaxRequests = 1
    MaxCrashes = 1
SPECIFICATION FairSpec
PROPERTY WatchedIsFinalized
