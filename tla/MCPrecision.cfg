CONSTANTS
    alice = alice
    bob = bob
    carol = carol
    gift = gift
    back = back
    split = split
    joint = joint
    Admin = admin
    Accounts = {alice, bob, carol}
    Transfers = {gift, back, split, joint}
    HasExecution = {split, joint}
    HasCancellation = {joint}
    CreditAuth = FALSE
    Debit <- LongDebit
    Credit <- LongCredit
    ExpiresAt <- MCExpiresAt
    InitialBalance <- RichBalance
    MinBalance <- MCMinBalance
    Procs = {1}
    Job <- LongJob
    NameRank <- MCNameRank
    AsNumber <- MCAsNumber
    MaxRetries <- MCMaxRetries
SPECIFICATION Spec
CHECK_DEADLOCK FALSE
INVARIANT MoneyConserved
