CONSTANTS
    alice = alice
    bob = bob
    escrow = escrow
    payment = payment
    Admin = Admin
    Accounts = {alice, bob}
    Transfers = {escrow}
    Debit <- MCDebit
    Credit <- MCCredit
    HasExecution = {escrow}
    HasCancellation = {escrow}
    ExpiresAt <- MCExpiresAt
    CreditAuth = FALSE
    InitialBalance <- MCInitialBalance
    MinBalance <- MCMinBalance
    Clients = {c1}
    TimerRuns = {timerRun}
    Submissions <- EscrowPuts
    Faults = {}
    MaxRetries <- RetryEnough
    MaxTime = 2
    MaxRequests = 3
    MaxCrashes = 0
SPECIFICATION FairSpec
INVARIANT QueueHasTimer
PROPERTY WatchedIsFinalized
