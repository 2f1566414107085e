SPECIFICATION FairSpec
CONSTANTS
    Clients = {c1, c2}
    NoClient = NoClient
    MinimumAddress = 15
    MaximumAddress = 16
    MaxAddressInfo = 2
    InboxCapacity = 2
INVARIANTS
    TypeOK
    AddressesAgree
PROPERTIES
    DiscoverAnswered
CHECK_DEADLOCK FALSE
