CONSTANTS
    alice = alice
    bob = bob
    escrow = escrow
    payment = payment
    Admin = Admin
    Accounts = {alice, bob}
    Transfers = {escrow}
    Debit <- MCDebit
    Credit <- MCCredit
    HasExecution = {escrow}
    HasCancellation = {escrow}
    ExpiresAt <- MCExpiresAt
    CreditAuth = FALSE
    InitialBalance <- MCInitialBalance
    MinBalance <- MCMinBalance
    Clients = {c1}
    TimerRuns = {timerRun}
    Submissions <- AlicePuts
    Faults = {"commit"}
    MaxRetries <- RetryOnce
    MaxTime = 2
    MaxRequests = 2
    MaxCrashes = 0
SPECIFICATION Spec
INVARIANT OneOutcomeAnnounced
