CONSTANTS
    alice = alice
    bob = bob
    escrow = escrow
    payment = payment
    Admin = Admin
    Accounts = {alice, bob}
    Transfers = {escrow, payment}
    Debit <- MCDebit
    Credit <- MCCredit
    HasExecution = {escrow}
    HasCancellation = {escrow}
    ExpiresAt <- BothExpire
    CreditAuth = FALSE
    InitialBalance <- MCInitialBalance
    MinBalance <- MCMinBalance
    Clients = {c1, c2}
    TimerRuns = {timerRun}
    Submissions <- AllPuts
    Faults = {"commit", "error"}
    MaxRetries <- RetryOnce
    MaxTime = 2
    MaxRequests = 2
    MaxCrashes = 1
SPECIFICATION FairSpec
INVARIANTS DeadlinesKept AnnouncedIsExecuted AnnouncedIsRejected HeldByOne
PROPERTIES ImplementsLedger OnlyFailuresStopTimer RequestsAnswered
