CONSTANTS
    alice = alice
    root = root
    one = one
    two = two
    Nobody = Nobody
    Connections = {one, two}
    Users = {alice, root}
    Admins = {root}
    EventTypes <- MCEventTypes
    Parties <- MCParties
    MaxSubscriptions = 2
SYMMETRY ConnectionSymmetry
SPECIFICATION Spec
INVARIANTS ListenersMatch NothingEmpty ClosedIsForgotten
PROPERTY ImplementsSubscriptions
