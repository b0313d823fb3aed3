SPECIFICATION Spec
CONSTANTS
    admin = admin
    viewer = viewer
    beech = beech
    Clients = {c1}
    Users = {admin, viewer}
    Nobody = Nobody
    Houses = {beech}
    EveryHouse = EveryHouse
    RoleRows <- MCRoleRows
    TokenLife = 1
    OpenAge = 1
    Steps = {0, 1}
    MaxTime = 3
PROPERTY UpdatedAtKept
CHECK_DEADLOCK FALSE
