SPECIFICATION Spec
CONSTANTS
    n1 = n1
    n2 = n2
    n3 = n3
    u1 = u1
    u2 = u2
    u3 = u3
    Nations = {n1, n2, n3}
    Users = {u1, u2, u3}
    Workers = {w1, w2}
    MaxRequests = 3
    None = None
    Amounts = {2}
    Cost = 1
    MaxLevel = 1
    Prize = 1
    MaxWeek = 2
    Mixes = {"members", "money", "free", "alliance", "council"}
    Leader <- MCLeader
    Officers <- MCOfficers
    Pact <- MCPact
    Founder = n1
    Opened <- MCOpened
SYMMETRY Symmetry
CHECK_DEADLOCK FALSE
INVARIANTS
    TypeOK
    AllianceWhole
    LedgerAgrees
    RewardsOnce
    LeadersStay
PROPERTY
    ExecutedStays
