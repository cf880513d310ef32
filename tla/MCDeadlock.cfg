CONSTANTS
    alice = alice
    bob = bob
    carol = carol
    gift = gift
    back = back
    split = split
    joint = joint
    Admin = admin
    Accounts = {alice, bob, carol}
    Transfers = {gift, back, split, joint}
    HasExecution = {split, joint}
    HasCancellation = {joint}
    CreditAuth = FALSE
    Debit <- MCDebit
    Credit <- MCCredit
    ExpiresAt <- MCExpiresAt
    InitialBalance <- RichBalance
    MinBalance <- MCMinBalance
    Procs = {1, 2}
    Job <- CrossingJobs
    NameRank <- MCNameRank
    AsNumber <- MCAsNumber
    MaxRetries <- MCMaxRetries
SPECIFICATION Spec
CHECK_DEADLOCK FALSE
PROPERTY FundsWereShort
