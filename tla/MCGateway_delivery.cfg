SPECIFICATION Spec
CONSTANTS
    beech = beech
    b = b
    c1 = c1
    c2 = c2
    Aliases = {beech}
    NoAlias = NoAlias
    Layouts = {l1}
    NoLayout = NoLayout
    MaxStamp = 2
    MaxReceived = 2
    Shorts = {b}
    ShortOf <- OneHouse
    Clients = {c1, c2}
    Nobody = Nobody
    HouseOf <- Together
INVARIANTS RegistryExact CaughtUp
PROPERTIES ViewMonotone FeedSpec ConsumerReturns DeadForgotten
