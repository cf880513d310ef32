CONSTANTS
    alice = alice
    bob = bob
    carol = carol
    gift = gift
    back = back
    split = split
    joint = joint
    Admin = admin
    Accounts = {alice, bob, carol}
    Transfers = {gift, back, split, joint}
    HasExecution = {split, joint}
    HasCancellation = {joint}
    CreditAuth = FALSE
    Debit <- MCDebit
    Credit <- MCCredit
    ExpiresAt <- MCExpiresAt
    InitialBalance <- MCBalance
    MinBalance <- MCMinBalance
    Procs = {1, 2, 3, 4, 5, 6, 7}
    Job <- MCJob
    NameRank <- MCNameRank
    AsNumber <- MCAsNumber
    MaxRetries <- MCMaxRetries
SPECIFICATION FairSpec
CHECK_DEADLOCK FALSE
INVARIANTS TypeOK NoOverdraft ReleasesNeverDeadlock
PROPERTIES ImplementsLedger EveryCallEnds
