CONSTANTS
    alice = alice
    bob = bob
    carol = carol
    escrow = escrow
    payment = payment
    own = own
    unbalanced = unbalanced
    negative = negative
    Admin = Admin
    Accounts = {alice, bob, carol}
    Transfers = {escrow, payment, own, unbalanced, negative}
    Debit <- MCDebit
    Credit <- MCCredit
    HasExecution = {escrow, own}
    HasCancellation = {escrow, payment}
    ExpiresAt <- MCExpiresAt
    CreditAuth = FALSE
    InitialBalance <- MCInitialBalance
    MinBalance <- MCMinBalance
SPECIFICATION ReceiptsSpec
INVARIANTS FinalReceiptsHold NoOverdraft MoneyConserved PaidIffFulfilled
PROPERTY FinalForever
CHECK_DEADLOCK FALSE
